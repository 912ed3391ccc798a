---------------------------- MODULE ProofLemmas -----------------------------
(***************************************************************************)
(* Facts about naturals, finite sets and sums over them that the proofs of *)
(* several components use. Induction comes as a fact about a set, of       *)
(* numbers or of sets: the theorems of NaturalsInduction are about         *)
(* operators, which the provers cannot instantiate.                        *)
(***************************************************************************)
EXTENDS Integers, FiniteSets, FiniteSetsExt, TLAPS, FiniteSetTheorems,
        WellFoundedInduction

(* A set of naturals that is not empty has a least element.                *)
LEMMA NatSetHasMin ==
    ASSUME NEW S, S \subseteq Nat, S # {}
    PROVE  \E x \in S : \A y \in S : x <= y
<1>1. PICK x \in S : \A y \in S : ~ (<<y, x>> \in OpToRel(<, Nat))
  BY WFMin, NatLessThanWellFounded
<1>2. \A y \in S : ~ (y < x)
  BY <1>1 DEF OpToRel
<1> QED
  BY <1>2

(* Induction over the numbers up to n.                                     *)
LEMMA IntervalInduction ==
    ASSUME NEW T, NEW n \in Nat,
           0 \in T,
           \A i \in 0 .. n : i \in T /\ i < n => i + 1 \in T
    PROVE  0 .. n \subseteq T
<1> DEFINE Bad == {i \in 0 .. n : i \notin T}
<1>1. SUFFICES ASSUME Bad # {} PROVE FALSE
  OBVIOUS
<1>2. PICK x \in Bad : \A y \in Bad : x <= y
  <2>1. Bad \subseteq Nat
    OBVIOUS
  <2> HIDE DEF Bad
  <2> QED
    BY <1>1, <2>1, NatSetHasMin
<1>3. x \in 0 .. n /\ x \notin T /\ x # 0
  BY <1>2
<1>4. x - 1 \in 0 .. n /\ x - 1 \notin Bad /\ x - 1 < n
  BY <1>2, <1>3
<1>5. (x - 1) + 1 \in T
  BY <1>4
<1> QED
  BY <1>3, <1>5

(* A finite set of naturals that is not empty has a greatest element.      *)
LEMMA FiniteSetHasMax ==
    ASSUME NEW S, IsFiniteSet(S), S \subseteq Nat, S # {}
    PROVE  \E x \in S : \A y \in S : x >= y
<1> DEFINE Bad == {T \in SUBSET S : T # {} /\ ~ \E x \in T : \A y \in T : x >= y}
           Sizes == {n \in Nat : \E T \in Bad : Cardinality(T) = n}
<1>1. SUFFICES ASSUME Bad # {}
               PROVE  FALSE
  BY Zenon
<1>2. \A T \in Bad : IsFiniteSet(T) /\ Cardinality(T) \in Nat
  BY FS_Subset, FS_CardinalityType
<1>3. Sizes # {}
  BY <1>1, <1>2
<1>4. PICK n \in Sizes : \A m \in Sizes : n <= m
  <2> HIDE DEF Bad
  <2>1. Sizes \subseteq Nat
    OBVIOUS
  <2> HIDE DEF Sizes
  <2>2. QED
    BY <2>1, <1>3, NatSetHasMin
<1>5. PICK T \in Bad : Cardinality(T) = n
  BY <1>4
<1>6. PICK x \in T : TRUE
  BY <1>5
<1> DEFINE U == T \ {x}
<1>7. IsFiniteSet(U) /\ Cardinality(U) = n - 1 /\ n - 1 \in Nat
  <2>1. IsFiniteSet(T) /\ Cardinality(T) = n /\ n \in Nat /\ x \in T
    BY <1>2, <1>5, <1>6
  <2> HIDE DEF Bad, Sizes
  <2>2. IsFiniteSet(U) /\ Cardinality(U) = n - 1
    BY <2>1, FS_RemoveElement
  <2> HIDE DEF U
  <2>3. Cardinality(U) \in Nat
    BY <2>2, FS_CardinalityType
  <2> QED
    BY <2>2, <2>3
<1>8. U \notin Bad
  <2>1. SUFFICES ASSUME U \in Bad PROVE FALSE
    OBVIOUS
  <2>2. n - 1 \in Sizes
    BY <1>7, <2>1
  <2>3. n \in Nat
    BY <1>4
  <2> QED
    BY <2>2, <2>3, <1>4
<1>9. CASE U = {}
  BY <1>5, <1>6, <1>9
<1>10. CASE U # {}
  <2>1. PICK z \in U : \A y \in U : z >= y
    BY <1>8, <1>10, <1>5
  <2>2. x \in Nat /\ z \in Nat /\ T \subseteq Nat
    BY <1>5, <1>6
  <2>3. CASE x >= z
    <3>1. \A y \in T : x >= y
      BY <2>1, <2>2, <2>3
    <3> QED
      BY <3>1, <1>5, <1>6
  <2>4. CASE z >= x
    <3>1. \A y \in T : z >= y
      BY <2>1, <2>2, <2>4
    <3> QED
      BY <3>1, <1>5, <2>1
  <2> QED
    BY <2>2, <2>3, <2>4
<1> QED
  BY <1>9, <1>10

(* Max, of a finite set of naturals.                                       *)
LEMMA MaxOfFiniteSet ==
    ASSUME NEW S, IsFiniteSet(S), S \subseteq Nat, S # {}
    PROVE  /\ Max(S) \in S
           /\ \A y \in S : Max(S) >= y
BY FiniteSetHasMax DEF Max

(* The values of an expression over a finite set are finitely many.        *)
LEMMA FiniteImage ==
    ASSUME NEW S, IsFiniteSet(S), NEW f, DOMAIN f = S
    PROVE  IsFiniteSet({f[x] : x \in S})
<1> DEFINE I == {f[x] : x \in S}
           g == [x \in S |-> f[x]]
<1>1. g \in Surjection(S, I)
  BY DEF Surjection
<1> HIDE DEF g, I
<1>2. IsFiniteSet(I)
  BY <1>1, FS_Surjection
<1> QED
  BY <1>2 DEF I

-----------------------------------------------------------------------------
(* A set of sets holds every subset of S whose smaller subsets it holds.   *)
Inductive(S, T) ==
    \A s \in SUBSET S : (\A x \in s : s \ {x} \in T) => s \in T

(* Induction over the subsets of a finite set.                             *)
LEMMA SubsetInduction ==
    ASSUME NEW S, IsFiniteSet(S), NEW T, Inductive(S, T)
    PROVE  SUBSET S \subseteq T
<1> DEFINE Bad == {s \in SUBSET S : s \notin T}
           Sizes == {n \in Nat : \E s \in Bad : Cardinality(s) = n}
<1>1. SUFFICES ASSUME Bad # {} PROVE FALSE
  OBVIOUS
<1>2. \A s \in SUBSET S : IsFiniteSet(s) /\ Cardinality(s) \in Nat
  BY FS_Subset, FS_CardinalityType
<1>3. PICK n \in Sizes : \A m \in Sizes : n <= m
  <2>1. Sizes # {} /\ Sizes \subseteq Nat
    BY <1>1, <1>2
  <2> HIDE DEF Sizes
  <2> QED
    BY <2>1, NatSetHasMin
<1>4. PICK s \in Bad : Cardinality(s) = n
  BY <1>3
<1>5. SUFFICES ASSUME NEW x \in s PROVE s \ {x} \in T
  BY <1>4 DEF Inductive
<1>6. s \ {x} \in SUBSET S /\ Cardinality(s \ {x}) = n - 1 /\ n - 1 \in Nat
  <2>1. IsFiniteSet(s) /\ s \in SUBSET S
    BY <1>2
  <2>2. Cardinality(s \ {x}) = n - 1
    BY <2>1, <1>4, <1>5, FS_RemoveElement
  <2>3. Cardinality(s \ {x}) \in Nat
    BY <2>1, <1>2
  <2> QED
    BY <2>1, <2>2, <2>3
<1>7. s \ {x} \notin Bad
  <2>1. SUFFICES ASSUME s \ {x} \in Bad PROVE FALSE
    OBVIOUS
  <2>2. n - 1 \in Sizes /\ n \in Nat
    BY <2>1, <1>3, <1>6
  <2> QED
    BY <2>2, <1>3
<1> QED
  BY <1>6, <1>7

(* A fold over the subsets of S: pick says which element a set loses next, *)
(* g what the element does to a value.                                     *)
Picks(S, pick) == \A s \in SUBSET S : s # {} => pick[s] \in s

Folding(S, base, g, pick, it) ==
    \A s \in SUBSET S :
        it[s] = IF s = {} THEN base ELSE g[pick[s]][it[s \ {pick[s]}]]

(* A fold over the subsets of a finite set exists.                         *)
LEMMA FoldExists ==
    ASSUME NEW S, IsFiniteSet(S), NEW V, NEW base \in V,
           NEW g \in [S -> [V -> V]], NEW pick, Picks(S, pick)
    PROVE  \E it \in [SUBSET S -> V] : Folding(S, base, g, pick, it)
<1> DEFINE N == Cardinality(S)
           Small(n) == {s \in SUBSET S : Cardinality(s) <= n}
           Rec(h, n) == \A s \in Small(n) :
                            h[s] = IF s = {} THEN base
                                   ELSE g[pick[s]][h[s \ {pick[s]}]]
           T == {n \in Nat : \E h \in [Small(n) -> V] : Rec(h, n)}
<1>1. \A s \in SUBSET S : IsFiniteSet(s) /\ Cardinality(s) \in Nat
  BY FS_Subset, FS_CardinalityType
<1>2. \A s \in SUBSET S : s # {} =>
          /\ pick[s] \in S
          /\ s \ {pick[s]} \in SUBSET S
          /\ Cardinality(s \ {pick[s]}) = Cardinality(s) - 1
  BY <1>1, FS_RemoveElement DEF Picks
<1>3. 0 \in T
  <2>1. ASSUME NEW s \in Small(0) PROVE s = {}
    <3>1. IsFiniteSet(s) /\ Cardinality(s) = 0
      BY <1>1
    <3> QED
      BY <3>1, FS_EmptySet
  <2> DEFINE h == [s \in Small(0) |-> base]
  <2>2. h \in [Small(0) -> V] /\ Rec(h, 0)
    BY <2>1
  <2> QED
    BY <2>2
<1>4. \A n \in 0 .. N : n \in T /\ n < N => n + 1 \in T
  <2> SUFFICES ASSUME NEW n \in 0 .. N, n \in T
               PROVE  n + 1 \in T
    OBVIOUS
  <2>1. PICK h \in [Small(n) -> V] : Rec(h, n)
    OBVIOUS
  <2>n. n \in Nat /\ n + 1 \in Nat
    OBVIOUS
  <2> DEFINE k == [s \in Small(n + 1) |->
                     IF s = {} THEN base ELSE g[pick[s]][h[s \ {pick[s]}]]]
  <2>2. ASSUME NEW s \in Small(n + 1), s # {}
        PROVE  s \ {pick[s]} \in Small(n)
    <3>1. /\ Cardinality(s) \in Nat
          /\ Cardinality(s) <= n + 1
          /\ s \ {pick[s]} \in SUBSET S
          /\ Cardinality(s \ {pick[s]}) = Cardinality(s) - 1
      BY <1>1, <1>2, <2>2
    <3>2. Cardinality(s \ {pick[s]}) <= n
      BY <3>1, <2>n
    <3> QED
      BY <3>1, <3>2
  <2>3. ASSUME NEW s \in Small(n) PROVE s \in Small(n + 1)
    <3>1. Cardinality(s) \in Nat /\ Cardinality(s) <= n
      BY <1>1
    <3>2. Cardinality(s) <= n + 1
      BY <3>1, <2>n
    <3> QED
      BY <3>2
  <2>4. \A s \in Small(n) : k[s] = h[s]
    BY <2>1, <2>3
  <2>6. k \in [Small(n + 1) -> V]
    <3> SUFFICES ASSUME NEW s \in Small(n + 1), s # {}
                 PROVE  g[pick[s]][h[s \ {pick[s]}]] \in V
      OBVIOUS
    <3>1. pick[s] \in S /\ h[s \ {pick[s]}] \in V
      BY <2>2, <1>2
    <3>2. g[pick[s]] \in [V -> V]
      BY <3>1
    <3> QED
      BY <3>1, <3>2
  <2>7. Rec(k, n + 1)
    <3> SUFFICES ASSUME NEW s \in Small(n + 1)
                 PROVE  k[s] = IF s = {} THEN base
                               ELSE g[pick[s]][k[s \ {pick[s]}]]
      OBVIOUS
    <3>1. s # {} => k[s \ {pick[s]}] = h[s \ {pick[s]}]
      BY <2>2, <2>4
    <3> QED
      BY <3>1
  <2> QED
    BY <2>6, <2>7, <2>n
<1>5. N \in T
  <2>1. N \in Nat
    BY FS_CardinalityType
  <2> HIDE DEF T, N
  <2>2. 0 .. N \subseteq T
    BY <1>3, <1>4, <2>1, IntervalInduction
  <2> QED
    BY <2>1, <2>2, N \in 0 .. N
<1>6. Small(N) = SUBSET S
  BY <1>1, FS_Subset
<1> QED
  BY <1>5, <1>6 DEF Folding

-----------------------------------------------------------------------------
(* The functions that SumFunctionOnSet uses: the sums of f over all        *)
(* subsets of S.                                                           *)
Pick(s) == CHOOSE x \in s : TRUE

Integral(f, S) == \A x \in S : f[x] \in Int

Agree(f, g, S) == \A x \in S : f[x] = g[x]

Sums(f, S, it) ==
    it = [s \in SUBSET S |-> IF s = {} THEN 0
                             ELSE f[Pick(s)] + it[s \ {Pick(s)}]]

(* There is one for every finite set, ...                                  *)
LEMMA SumsExist ==
    ASSUME NEW S, IsFiniteSet(S), NEW f, Integral(f, S)
    PROVE  \E it \in [SUBSET S -> Int] : Sums(f, S, it)
<1> DEFINE g == [x \in S |-> [v \in Int |-> f[x] + v]]
           pick == [s \in SUBSET S |-> Pick(s)]
<1>1. Picks(S, pick)
  BY DEF Pick, Picks
<1>2. g \in [S -> [Int -> Int]]
  BY DEF Integral
<1>3. PICK it \in [SUBSET S -> Int] : Folding(S, 0, g, pick, it)
  <2> HIDE DEF g, pick
  <2> QED
    BY <1>1, <1>2, FoldExists, 0 \in Int
<1>4. \A s \in SUBSET S : it[s] = IF s = {} THEN 0
                                  ELSE f[Pick(s)] + it[s \ {Pick(s)}]
  <2> SUFFICES ASSUME NEW s \in SUBSET S, s # {}
               PROVE  it[s] = f[Pick(s)] + it[s \ {Pick(s)}]
    BY <1>3 DEF Folding
  <2>1. pick[s] = Pick(s) /\ Pick(s) \in S /\ s \ {Pick(s)} \in SUBSET S
    BY DEF Pick
  <2>2. it[s \ {Pick(s)}] \in Int
    BY <2>1
  <2>3. it[s] = g[Pick(s)][it[s \ {Pick(s)}]]
    BY <1>3, <2>1 DEF Folding
  <2> QED
    BY <2>1, <2>2, <2>3
<1>5. Sums(f, S, it)
  BY <1>4 DEF Sums
<1> QED
  BY <1>5

(* ... which SumFunctionOnSet takes.                                       *)
LEMMA SumIsOfSums ==
    ASSUME NEW S, IsFiniteSet(S), NEW f, Integral(f, S)
    PROVE  \E it : Sums(f, S, it) /\ SumFunctionOnSet(f, S) = it[S]
<1>1. \E it : Sums(f, S, it)
  BY SumsExist
<1> QED
  BY <1>1 DEF SumFunctionOnSet, FoldFunctionOnSet, MapThenFoldSet, Sums, Pick

(* Two of them agree where both are defined and the functions agree.       *)
LEMMA SumsAgree ==
    ASSUME NEW S, NEW U, IsFiniteSet(S), NEW f, NEW g,
           S \subseteq U, Agree(f, g, S),
           NEW i, Sums(f, S, i), NEW j, Sums(g, U, j)
    PROVE  i[S] = j[S]
<1> DEFINE T == {s \in SUBSET S : i[s] = j[s]}
<1>1. ASSUME NEW s \in SUBSET S, \A x \in s : s \ {x} \in T
      PROVE  s \in T
  <2>1. i[s] = IF s = {} THEN 0 ELSE f[Pick(s)] + i[s \ {Pick(s)}]
    BY DEF Sums
  <2>2. j[s] = IF s = {} THEN 0 ELSE g[Pick(s)] + j[s \ {Pick(s)}]
    BY DEF Sums
  <2>3. s # {} => Pick(s) \in s
    BY DEF Pick
  <2> QED
    BY <1>1, <2>1, <2>2, <2>3 DEF Agree
<1>2. Inductive(S, T)
  BY <1>1 DEF Inductive
<1> HIDE DEF T
<1>3. SUBSET S \subseteq T
  BY <1>2, SubsetInduction
<1> QED
  BY <1>3 DEF T

(* A sum loses any one of its terms.                                       *)
LEMMA SumsSplit ==
    ASSUME NEW S, IsFiniteSet(S), NEW f, Integral(f, S),
           NEW it \in [SUBSET S -> Int], Sums(f, S, it), NEW x \in S
    PROVE  it[S] = f[x] + it[S \ {x}]
<1> DEFINE T == {s \in SUBSET S : \A y \in s : it[s] = f[y] + it[s \ {y}]}
<1>1. ASSUME NEW s \in SUBSET S, \A z \in s : s \ {z} \in T
      PROVE  s \in T
  <2> SUFFICES ASSUME NEW y \in s PROVE it[s] = f[y] + it[s \ {y}]
    OBVIOUS
  <2> DEFINE c == Pick(s)
  <2>1. c \in s
    BY DEF Pick
  <2>2. it[s] = f[c] + it[s \ {c}]
    BY DEF Sums
  <2> HIDE DEF c
  <2>3. CASE y = c
    BY <2>2, <2>3
  <2>4. CASE y # c
    <3> DEFINE r == (s \ {c}) \ {y}
    <3>1. it[s \ {c}] = f[y] + it[r]
      BY <1>1, <2>1, <2>4
    <3>2. (s \ {y}) \ {c} = r
      OBVIOUS
    <3>3. it[s \ {y}] = f[c] + it[r]
      BY <1>1, <2>1, <2>4, <3>2
    <3>4. r \in SUBSET S /\ s \ {y} \in SUBSET S /\ y \in S /\ c \in S
      BY <2>1
    <3>5. it[r] \in Int /\ f[y] \in Int /\ f[c] \in Int
      BY <3>4 DEF Integral
    <3> HIDE DEF r
    <3> QED
      BY <2>2, <3>1, <3>3, <3>5
  <2> QED
    BY <2>3, <2>4
<1>2. Inductive(S, T)
  BY <1>1 DEF Inductive
<1> HIDE DEF T
<1>3. SUBSET S \subseteq T
  BY <1>2, SubsetInduction
<1> QED
  BY <1>3 DEF T

-----------------------------------------------------------------------------
(* The laws of sums. The sum is the one of any table of sums.              *)
LEMMA SumFromTable ==
    ASSUME NEW S, NEW U, IsFiniteSet(U), S \subseteq U, NEW f, NEW g,
           Integral(f, U), Agree(g, f, S),
           NEW it, Sums(f, U, it)
    PROVE  SumFunctionOnSet(g, S) = it[S]
<1>1. IsFiniteSet(S) /\ Integral(g, S)
  BY FS_Subset DEF Integral, Agree
<1>2. PICK i : Sums(g, S, i) /\ SumFunctionOnSet(g, S) = i[S]
  BY <1>1, SumIsOfSums
<1>3. i[S] = it[S]
  BY <1>1, <1>2, SumsAgree
<1> QED
  BY <1>2, <1>3

(* The empty sum.                                                          *)
LEMMA SumEmpty ==
    ASSUME NEW f
    PROVE  SumFunctionOnSet(f, {}) = 0
<1>1. PICK it : Sums(f, {}, it) /\ SumFunctionOnSet(f, {}) = it[{}]
  BY SumIsOfSums, FS_EmptySet DEF Integral
<1> QED
  BY <1>1 DEF Sums

(* Functions that agree have the same sum.                                 *)
LEMMA SumSame ==
    ASSUME NEW S, IsFiniteSet(S), NEW f, NEW g,
           Integral(f, S), Agree(g, f, S)
    PROVE  SumFunctionOnSet(g, S) = SumFunctionOnSet(f, S)
<1>1. PICK it : Sums(f, S, it)
  BY SumsExist
<1>2. Agree(f, f, S)
  BY DEF Agree
<1>3. SumFunctionOnSet(f, S) = it[S] /\ SumFunctionOnSet(g, S) = it[S]
  BY <1>1, <1>2, SumFromTable
<1> QED
  BY <1>3

(* A sum of integers is one, and loses any one of its terms.               *)
LEMMA SumRemove ==
    ASSUME NEW S, IsFiniteSet(S), NEW f, Integral(f, S)
    PROVE  /\ SumFunctionOnSet(f, S) \in Int
           /\ \A x \in S : SumFunctionOnSet(f, S)
                             = f[x] + SumFunctionOnSet(f, S \ {x})
<1>1. PICK it \in [SUBSET S -> Int] : Sums(f, S, it)
  BY SumsExist
<1>2. ASSUME NEW s \in SUBSET S
      PROVE  SumFunctionOnSet(f, s) = it[s]
  <2>1. Agree(f, f, s)
    BY DEF Agree
  <2> QED
    BY <1>1, <2>1, SumFromTable
<1>3. \A x \in S : it[S] = f[x] + it[S \ {x}]
  BY <1>1, SumsSplit
<1>4. S \in SUBSET S /\ \A x \in S : S \ {x} \in SUBSET S
  OBVIOUS
<1> QED
  BY <1>2, <1>3, <1>4

(* A new term is added.                                                    *)
LEMMA SumAdd ==
    ASSUME NEW S, IsFiniteSet(S), NEW f, NEW x, x \notin S,
           Integral(f, S \cup {x})
    PROVE  SumFunctionOnSet(f, S \cup {x}) = f[x] + SumFunctionOnSet(f, S)
<1>1. IsFiniteSet(S \cup {x}) /\ (S \cup {x}) \ {x} = S
  BY FS_AddElement
<1> QED
  BY <1>1, SumRemove

(* A sum of naturals is one, and not less than a part of it.               *)
LEMMA SumMonotonic ==
    ASSUME NEW S, IsFiniteSet(S), NEW f, \A x \in S : f[x] \in Nat
    PROVE  /\ SumFunctionOnSet(f, S) \in Nat
           /\ \A s \in SUBSET S : /\ SumFunctionOnSet(f, s) \in Nat
                                  /\ SumFunctionOnSet(f, s)
                                       <= SumFunctionOnSet(f, S)
<1> DEFINE Sum(s) == SumFunctionOnSet(f, s)
           T == {s \in SUBSET S : /\ Sum(s) \in Nat
                                  /\ \A r \in SUBSET s : Sum(r) <= Sum(s)}
<1>1. ASSUME NEW s \in SUBSET S, \A x \in s : s \ {x} \in T
      PROVE  s \in T
  <2>1. /\ IsFiniteSet(s) /\ Integral(f, s)
        /\ \A x \in s : f[x] \in Nat
    BY FS_Subset DEF Integral
  <2>2. CASE s = {}
    BY <2>2, SumEmpty
  <2>3. CASE s # {}
    <3>1. \A x \in s : Sum(s) = f[x] + Sum(s \ {x})
      BY <2>1, SumRemove
    <3> HIDE DEF Sum
    <3>2. Sum(s) \in Nat
      <4>1. PICK x \in s : TRUE
        BY <2>3
      <4>2. s \ {x} \in T
        BY <1>1
      <4>3. Sum(s \ {x}) \in Nat /\ f[x] \in Nat
        BY <4>2, <2>1
      <4> QED
        BY <3>1, <4>3
    <3>3. ASSUME NEW r \in SUBSET s, r # s
          PROVE  Sum(r) <= Sum(s)
      <4>1. PICK x \in s : x \notin r
        BY <3>3
      <4>2. s \ {x} \in T /\ r \in SUBSET (s \ {x})
        BY <1>1, <4>1
      <4>3. Sum(r) <= Sum(s \ {x}) /\ Sum(s \ {x}) \in Nat
        BY <4>2
      <4>4. IsFiniteSet(r) /\ Integral(f, r)
        BY <2>1, FS_Subset DEF Integral
      <4>5. Sum(r) \in Int
        BY <4>4, SumRemove DEF Sum
      <4> QED
        BY <3>1, <4>1, <4>3, <4>5, <2>1
    <3> QED
      BY <3>2, <3>3
  <2> QED
    BY <2>2, <2>3
<1>2. Inductive(S, T)
  BY <1>1 DEF Inductive
<1> HIDE DEF T
<1>3. SUBSET S \subseteq T
  BY <1>2, SubsetInduction
<1> QED
  BY <1>3 DEF T

-----------------------------------------------------------------------------
(* Integers that differ by a multiple of m: arithmetic on machine words    *)
(* keeps its operands in the same class.                                   *)
SameMod(m, a, b) == a \in Int /\ b \in Int /\ \E k \in Int : a = b + k * m

(* Being congruent is reflexive, ...                                       *)
LEMMA SameModRefl ==
    ASSUME NEW m \in Int, NEW a \in Int
    PROVE  SameMod(m, a, a)
<1>1. a = a + 0 * m
  OBVIOUS
<1> QED
  BY <1>1 DEF SameMod

(* ... symmetric ...                                                       *)
LEMMA SameModSym ==
    ASSUME NEW m \in Int, NEW a, NEW b, SameMod(m, a, b)
    PROVE  SameMod(m, b, a)
<1>1. PICK k \in Int : a = b + k * m
  BY DEF SameMod
<1>2. b = a + (-k) * m /\ -k \in Int
  BY <1>1 DEF SameMod
<1> QED
  BY <1>2 DEF SameMod

(* ... and transitive, ...                                                 *)
LEMMA SameModTrans ==
    ASSUME NEW m \in Int, NEW a, NEW b, NEW c,
           SameMod(m, a, b), SameMod(m, b, c)
    PROVE  SameMod(m, a, c)
<1>1. PICK k \in Int : a = b + k * m
  BY DEF SameMod
<1>2. PICK j \in Int : b = c + j * m
  BY DEF SameMod
<1>3. a = c + (k + j) * m /\ k + j \in Int
  BY <1>1, <1>2 DEF SameMod
<1> QED
  BY <1>3 DEF SameMod

(* ... and sums and differences respect it.                                *)
LEMMA SameModPlus ==
    ASSUME NEW m \in Int, NEW a, NEW b, NEW c, NEW d,
           SameMod(m, a, b), SameMod(m, c, d)
    PROVE  SameMod(m, a + c, b + d) /\ SameMod(m, a - c, b - d)
<1>1. PICK k \in Int : a = b + k * m
  BY DEF SameMod
<1>2. PICK j \in Int : c = d + j * m
  BY DEF SameMod
<1>3. a + c = (b + d) + (k + j) * m /\ k + j \in Int
  BY <1>1, <1>2 DEF SameMod
<1>4. a - c = (b - d) + (k - j) * m /\ k - j \in Int
  BY <1>1, <1>2 DEF SameMod
<1>5. /\ a + c \in Int /\ b + d \in Int
      /\ a - c \in Int /\ b - d \in Int
  BY DEF SameMod
<1> QED
  BY <1>3, <1>4, <1>5 DEF SameMod

(* A remainder is congruent to the number, ...                             *)
LEMMA SameModRem ==
    ASSUME NEW m \in Nat \ {0}, NEW a \in Int
    PROVE  a % m \in 0 .. m - 1 /\ SameMod(m, a % m, a)
<1>1. a % m \in 0 .. m - 1
  OBVIOUS
<1>2. a = m * (a \div m) + (a % m) /\ a \div m \in Int
  OBVIOUS
<1> DEFINE r == a % m
           q == a \div m
<1>3. r = a + (-q) * m /\ -q \in Int /\ r \in Int
  <2> r \in Int /\ q \in Int /\ a = m * q + r
    BY <1>1, <1>2
  <2> HIDE DEF r, q
  <2> QED
    OBVIOUS
<1> QED
  BY <1>1, <1>3 DEF SameMod

(* ... and congruent numbers have the same remainder.                      *)
LEMMA SameModEqual ==
    ASSUME NEW m \in Nat \ {0}, NEW a, NEW b, SameMod(m, a, b)
    PROVE  a % m = b % m
<1> DEFINE x == a % m
           y == b % m
<1>1. x \in 0 .. m - 1 /\ y \in 0 .. m - 1 /\ SameMod(m, x, y)
  <2>1. /\ x \in 0 .. m - 1 /\ SameMod(m, x, a)
        /\ y \in 0 .. m - 1 /\ SameMod(m, y, b)
    BY SameModRem DEF SameMod
  <2> HIDE DEF x, y
  <2>2. SameMod(m, x, b) /\ SameMod(m, b, y)
    BY <2>1, SameModSym, SameModTrans
  <2> QED
    BY <2>1, <2>2, SameModTrans
<1> HIDE DEF x, y
<1>2. PICK k \in Int : x = y + k * m
  BY <1>1 DEF SameMod
<1>3. ASSUME k >= 1 PROVE FALSE
  <2>1. k * m >= m
    BY <1>3
  <2> QED
    BY <1>1, <1>2, <2>1
<1>4. ASSUME k <= -1 PROVE FALSE
  <2>1. k * m <= -m
    BY <1>4
  <2> QED
    BY <1>1, <1>2, <2>1
<1>5. k = 0
  BY <1>3, <1>4
<1>6. x = y
  BY <1>1, <1>2, <1>5
<1> QED
  BY <1>6 DEF x, y

-----------------------------------------------------------------------------
(* A change at one point changes the sum by as much.                       *)
LEMMA SumUpdate ==
    ASSUME NEW S, IsFiniteSet(S), NEW f, NEW g, NEW x \in S,
           Integral(f, S), g[x] \in Int, Agree(g, f, S \ {x})
    PROVE  SumFunctionOnSet(g, S) = SumFunctionOnSet(f, S) + g[x] - f[x]
<1>1. Integral(g, S) /\ Integral(f, S \ {x}) /\ IsFiniteSet(S \ {x})
  BY FS_RemoveElement DEF Integral, Agree
<1>2. SumFunctionOnSet(g, S \ {x}) = SumFunctionOnSet(f, S \ {x})
  BY <1>1, SumSame
<1>3. /\ SumFunctionOnSet(g, S) = g[x] + SumFunctionOnSet(g, S \ {x})
      /\ SumFunctionOnSet(f, S) = f[x] + SumFunctionOnSet(f, S \ {x})
      /\ SumFunctionOnSet(f, S \ {x}) \in Int
  BY <1>1, SumRemove
<1>4. f[x] \in Int
  BY DEF Integral
<1> QED
  BY <1>2, <1>3, <1>4

(* The sum over two sets that have nothing in common.                      *)
LEMMA SumUnion ==
    ASSUME NEW A, NEW B, IsFiniteSet(A), IsFiniteSet(B), A \cap B = {},
           NEW f, Integral(f, A \cup B)
    PROVE  SumFunctionOnSet(f, A \cup B)
             = SumFunctionOnSet(f, A) + SumFunctionOnSet(f, B)
<1> DEFINE Sum(s) == SumFunctionOnSet(f, s)
           T == {s \in SUBSET B : Sum(A \cup s) = Sum(A) + Sum(s)}
<1>1. ASSUME NEW s \in SUBSET B, \A x \in s : s \ {x} \in T
      PROVE  s \in T
  <2>1. /\ IsFiniteSet(s) /\ IsFiniteSet(A \cup s)
        /\ Integral(f, s) /\ Integral(f, A \cup s) /\ Integral(f, A)
    BY FS_Subset, FS_Union DEF Integral
  <2>2. Sum(A) \in Int
    BY <2>1, SumRemove
  <2>3. CASE s = {}
    <3>1. A \cup s = A /\ Sum(s) = 0
      BY <2>3, SumEmpty
    <3> HIDE DEF Sum
    <3>2. Sum(A \cup s) = Sum(A) + Sum(s)
      BY <2>2, <3>1
    <3> QED
      BY <3>2
  <2>4. CASE s # {}
    <3>1. PICK x \in s : TRUE
      BY <2>4
    <3>2. Sum(s) = f[x] + Sum(s \ {x})
      BY <2>1, <3>1, SumRemove
    <3>3. Sum(A \cup s) = f[x] + Sum((A \cup s) \ {x})
      BY <2>1, <3>1, SumRemove, x \in A \cup s
    <3>4. (A \cup s) \ {x} = A \cup (s \ {x})
      BY <3>1
    <3>5. Sum(A \cup (s \ {x})) = Sum(A) + Sum(s \ {x})
      BY <1>1, <3>1
    <3>6. f[x] \in Int
      BY <2>1, <3>1 DEF Integral
    <3>7. Sum(s \ {x}) \in Int
      <4>1. IsFiniteSet(s \ {x}) /\ Integral(f, s \ {x})
        BY <2>1, FS_Subset DEF Integral
      <4> QED
        BY <4>1, SumRemove
    <3> HIDE DEF Sum
    <3>8. Sum(A \cup s) = f[x] + (Sum(A) + Sum(s \ {x}))
      BY <3>3, <3>4, <3>5
    <3>9. Sum(A \cup s) = Sum(A) + Sum(s)
      BY <2>2, <3>2, <3>6, <3>7, <3>8
    <3> QED
      BY <3>9
  <2> QED
    BY <2>3, <2>4
<1>2. Inductive(B, T)
  BY <1>1 DEF Inductive
<1> HIDE DEF T
<1>3. SUBSET B \subseteq T
  BY <1>2, SubsetInduction
<1> QED
  BY <1>3 DEF T

(* k takes no value twice.                                                 *)
OneToOne(k, S) == \A x, y \in S : k[x] = k[y] => x = y

(* The sum over the values of a one-to-one function.                       *)
LEMMA SumImage ==
    ASSUME NEW S, IsFiniteSet(S), NEW k, OneToOne(k, S), DOMAIN k = S,
           NEW f, NEW g, Integral(g, S), \A x \in S : f[k[x]] = g[x]
    PROVE  SumFunctionOnSet(f, {k[x] : x \in S}) = SumFunctionOnSet(g, S)
<1> DEFINE Im(s) == {k[x] : x \in s}
           T == {s \in SUBSET S :
                   SumFunctionOnSet(f, Im(s)) = SumFunctionOnSet(g, s)}
<1>1. ASSUME NEW s \in SUBSET S, \A x \in s : s \ {x} \in T
      PROVE  s \in T
  <2>1. CASE s = {}
    <3>1. Im(s) = {}
      BY <2>1
    <3> HIDE DEF Im
    <3>2. SumFunctionOnSet(f, Im(s)) = SumFunctionOnSet(g, s)
      BY <2>1, <3>1, SumEmpty
    <3> QED
      BY <3>2
  <2>2. CASE s # {}
    <3>1. PICK x \in s : TRUE
      BY <2>2
    <3> DEFINE r == s \ {x}
    <3>2. Im(s) = Im(r) \cup {k[x]} /\ k[x] \notin Im(r)
      BY <3>1 DEF OneToOne
    <3>3. IsFiniteSet(Im(r))
      <4>1. IsFiniteSet(r)
        BY FS_Subset, r \in SUBSET S
      <4> DEFINE h == [z \in r |-> k[z]]
      <4>2. IsFiniteSet({h[z] : z \in r})
        <5>1. DOMAIN h = r
          OBVIOUS
        <5> HIDE DEF h, r
        <5> QED
          BY <4>1, <5>1, FiniteImage
      <4>3. {h[z] : z \in r} = Im(r)
        OBVIOUS
      <4> QED
        BY <4>2, <4>3
    <3>4. Integral(f, Im(r) \cup {k[x]})
      BY <3>1 DEF Integral
    <3>5. SumFunctionOnSet(f, Im(s)) = f[k[x]] + SumFunctionOnSet(f, Im(r))
      <4> HIDE DEF Im
      <4> QED
        BY <3>2, <3>3, <3>4, SumAdd
    <3>6. SumFunctionOnSet(g, s) = g[x] + SumFunctionOnSet(g, r)
      <4>1. IsFiniteSet(s) /\ Integral(g, s)
        BY FS_Subset DEF Integral
      <4> QED
        BY <3>1, <4>1, SumRemove
    <3>7. SumFunctionOnSet(f, Im(r)) = SumFunctionOnSet(g, r)
      BY <1>1, <3>1
    <3> QED
      BY <3>1, <3>5, <3>6, <3>7
  <2> QED
    BY <2>1, <2>2
<1>2. Inductive(S, T)
  BY <1>1 DEF Inductive
<1> HIDE DEF T
<1>3. SUBSET S \subseteq T
  BY <1>2, SubsetInduction
<1> QED
  BY <1>3 DEF T

(* f and g are congruent everywhere.                                       *)
Congruent(m, f, g, S) == \A x \in S : SameMod(m, f[x], g[x])

(* Sums whose terms are congruent are.                                     *)
LEMMA SumSameMod ==
    ASSUME NEW S, IsFiniteSet(S), NEW m \in Int, NEW f, NEW g,
           Congruent(m, f, g, S)
    PROVE  SameMod(m, SumFunctionOnSet(f, S), SumFunctionOnSet(g, S))
<1> DEFINE T == {s \in SUBSET S :
                   SameMod(m, SumFunctionOnSet(f, s), SumFunctionOnSet(g, s))}
<1>1. ASSUME NEW s \in SUBSET S, \A x \in s : s \ {x} \in T
      PROVE  s \in T
  <2>1. CASE s = {}
    BY <2>1, SumEmpty, SameModRefl
  <2>2. CASE s # {}
    <3>1. PICK x \in s : TRUE
      BY <2>2
    <3>2. IsFiniteSet(s) /\ Integral(f, s) /\ Integral(g, s)
      BY FS_Subset DEF Integral, SameMod, Congruent
    <3>3. /\ SumFunctionOnSet(f, s) = f[x] + SumFunctionOnSet(f, s \ {x})
          /\ SumFunctionOnSet(g, s) = g[x] + SumFunctionOnSet(g, s \ {x})
      BY <3>1, <3>2, SumRemove
    <3>4. /\ SameMod(m, SumFunctionOnSet(f, s \ {x}),
                        SumFunctionOnSet(g, s \ {x}))
          /\ SameMod(m, f[x], g[x])
      BY <1>1, <3>1 DEF Congruent
    <3>5. SameMod(m, SumFunctionOnSet(f, s), SumFunctionOnSet(g, s))
      BY <3>3, <3>4, SameModPlus
    <3> QED
      BY <3>5
  <2> QED
    BY <2>1, <2>2
<1>2. Inductive(S, T)
  BY <1>1 DEF Inductive
<1> HIDE DEF T
<1>3. SUBSET S \subseteq T
  BY <1>2, SubsetInduction
<1> QED
  BY <1>3 DEF T

(* h is f and g added.                                                     *)
AddsUp(h, f, g, S) == \A x \in S : h[x] = f[x] + g[x]

(* The sum of two functions added is the sum of their sums.                *)
LEMMA SumPlus ==
    ASSUME NEW S, IsFiniteSet(S), NEW f, NEW g, NEW h,
           Integral(f, S), Integral(g, S), AddsUp(h, f, g, S)
    PROVE  SumFunctionOnSet(h, S)
             = SumFunctionOnSet(f, S) + SumFunctionOnSet(g, S)
<1> DEFINE T == {s \in SUBSET S :
                   SumFunctionOnSet(h, s)
                     = SumFunctionOnSet(f, s) + SumFunctionOnSet(g, s)}
<1>1. ASSUME NEW s \in SUBSET S, \A x \in s : s \ {x} \in T
      PROVE  s \in T
  <2>1. CASE s = {}
    BY <2>1, SumEmpty
  <2>2. CASE s # {}
    <3>1. PICK x \in s : TRUE
      BY <2>2
    <3> DEFINE r == s \ {x}
    <3>2. /\ IsFiniteSet(s) /\ Integral(f, s) /\ Integral(g, s) /\ Integral(h, s)
          /\ IsFiniteSet(r) /\ Integral(f, r) /\ Integral(g, r)
      BY FS_Subset, r \in SUBSET S DEF Integral, AddsUp
    <3>3. /\ SumFunctionOnSet(f, s) = f[x] + SumFunctionOnSet(f, r)
          /\ SumFunctionOnSet(g, s) = g[x] + SumFunctionOnSet(g, r)
          /\ SumFunctionOnSet(h, s) = h[x] + SumFunctionOnSet(h, r)
      BY <3>1, <3>2, SumRemove
    <3>4. SumFunctionOnSet(f, r) \in Int /\ SumFunctionOnSet(g, r) \in Int
      BY <3>2, SumRemove
    <3>5. h[x] = f[x] + g[x] /\ f[x] \in Int /\ g[x] \in Int
      BY <3>1 DEF AddsUp, Integral
    <3>6. SumFunctionOnSet(h, r) = SumFunctionOnSet(f, r) + SumFunctionOnSet(g, r)
      BY <1>1, <3>1
    <3> HIDE DEF r
    <3> QED
      BY <3>3, <3>4, <3>5, <3>6
  <2> QED
    BY <2>1, <2>2
<1>2. Inductive(S, T)
  BY <1>1 DEF Inductive
<1> HIDE DEF T
<1>3. SUBSET S \subseteq T
  BY <1>2, SubsetInduction
<1> QED
  BY <1>3 DEF T

(* Nothing but zeros.                                                      *)
LEMMA SumZero ==
    ASSUME NEW S, IsFiniteSet(S), NEW f, \A x \in S : f[x] = 0
    PROVE  SumFunctionOnSet(f, S) = 0
<1>1. Integral(f, S) /\ AddsUp(f, f, f, S)
  BY DEF Integral, AddsUp
<1>2. SumFunctionOnSet(f, S) = SumFunctionOnSet(f, S) + SumFunctionOnSet(f, S)
  BY <1>1, SumPlus
<1>3. SumFunctionOnSet(f, S) \in Int
  BY <1>1, SumRemove
<1> DEFINE sum == SumFunctionOnSet(f, S)
<1>4. sum = sum + sum /\ sum \in Int
  BY <1>2, <1>3
<1> HIDE DEF sum
<1>5. sum = 0
  BY <1>4
<1> QED
  BY <1>5 DEF sum

(* t is the sum of f in each group; key says which group x is in.          *)
Groups(t, f, key, S, K) ==
    t = [k \in K |-> SumFunctionOnSet(f, {x \in S : key[x] = k})]

(* A sum may be taken group by group.                                      *)
LEMMA SumByGroup ==
    ASSUME NEW S, IsFiniteSet(S), NEW K, IsFiniteSet(K),
           NEW f, Integral(f, S), NEW key \in [S -> K],
           NEW t, Groups(t, f, key, S, K)
    PROVE  SumFunctionOnSet(t, K) = SumFunctionOnSet(f, S)
<1> DEFINE Of(s, k) == {x \in s : key[x] = k}
           table(s) == [k \in K |-> SumFunctionOnSet(f, Of(s, k))]
           T == {s \in SUBSET S :
                   SumFunctionOnSet(table(s), K) = SumFunctionOnSet(f, s)}
<1>0. ASSUME NEW s \in SUBSET S
      PROVE  /\ IsFiniteSet(s) /\ Integral(f, s) /\ Integral(table(s), K)
             /\ \A k \in K : IsFiniteSet(Of(s, k)) /\ Integral(f, Of(s, k))
  <2>1. IsFiniteSet(s) /\ Integral(f, s)
    BY FS_Subset DEF Integral
  <2>2. \A k \in K : IsFiniteSet(Of(s, k)) /\ Integral(f, Of(s, k))
    BY FS_Subset, \A k \in K : Of(s, k) \in SUBSET S DEF Integral
  <2>3. \A k \in K : table(s)[k] = SumFunctionOnSet(f, Of(s, k))
    OBVIOUS
  <2> HIDE DEF Of, table
  <2>4. \A k \in K : SumFunctionOnSet(f, Of(s, k)) \in Int
    BY <2>2, SumRemove
  <2> QED
    BY <2>1, <2>2, <2>3, <2>4 DEF Integral
<1>1. ASSUME NEW s \in SUBSET S, \A x \in s : s \ {x} \in T
      PROVE  s \in T
  <2>1. CASE s = {}
    <3>1. \A k \in K : Of(s, k) = {}
      BY <2>1
    <3>2. \A k \in K : table(s)[k] = 0
      BY <3>1, SumEmpty
    <3> HIDE DEF table
    <3>3. SumFunctionOnSet(table(s), K) = 0
      BY <3>2, SumZero
    <3> QED
      BY <2>1, <3>3, SumEmpty
  <2>2. CASE s # {}
    <3>1. PICK x \in s : TRUE
      BY <2>2
    <3> DEFINE r == s \ {x}
               c == key[x]
    <3>2. c \in K /\ r \in SUBSET S /\ r \in T /\ x \in S /\ f[x] \in Int
      BY <1>1, <3>1 DEF Integral
    <3>3. Of(r, c) = Of(s, c) \ {x} /\ x \in Of(s, c)
      BY <3>1
    <3>4. \A k \in K \ {c} : Of(r, k) = Of(s, k)
      OBVIOUS
    <3>5. /\ \A k \in K : table(s)[k] = SumFunctionOnSet(f, Of(s, k))
          /\ \A k \in K : table(r)[k] = SumFunctionOnSet(f, Of(r, k))
      OBVIOUS
    <3>6. /\ SumFunctionOnSet(table(r), K) = SumFunctionOnSet(f, r)
      BY <3>2
    <3>7. SumFunctionOnSet(f, s) = f[x] + SumFunctionOnSet(f, r)
      BY <1>0, <3>1, SumRemove
    <3>8. IsFiniteSet(Of(s, c)) /\ Integral(f, Of(s, c))
      BY <1>0, <3>2
    <3>9. Integral(table(s), K) /\ Integral(table(r), K)
      BY <1>0, <3>2
    <3> HIDE DEF r, Of, table, c, T
    <3>10. table(s)[c] = f[x] + table(r)[c]
      BY <3>2, <3>3, <3>5, <3>8, SumRemove
    <3>11. Agree(table(s), table(r), K \ {c})
      BY <3>4, <3>5 DEF Agree
    <3>12. table(s)[c] \in Int /\ table(r)[c] \in Int
      BY <3>2, <3>9 DEF Integral
    <3>13. SumFunctionOnSet(table(s), K)
             = SumFunctionOnSet(table(r), K) + table(s)[c] - table(r)[c]
      BY <3>2, <3>9, <3>11, <3>12, SumUpdate
    <3>14. SumFunctionOnSet(table(r), K) \in Int
      BY <3>9, SumRemove
    <3>15. SumFunctionOnSet(table(s), K) = SumFunctionOnSet(f, s)
      BY <3>2, <3>6, <3>7, <3>10, <3>12, <3>13, <3>14
    <3> QED
      BY <3>15 DEF T
  <2> QED
    BY <2>1, <2>2
<1>2. Inductive(S, T)
  BY <1>1 DEF Inductive
<1>3. t = table(S)
  BY DEF Groups
<1> HIDE DEF T, table
<1>4. SUBSET S \subseteq T
  BY <1>2, SubsetInduction
<1> QED
  BY <1>3, <1>4 DEF T
=============================================================================
