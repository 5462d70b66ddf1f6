------------------------- MODULE Clustering_proofs -------------------------
(***************************************************************************)
(* Facts about Clustering.tla, for every number of centroids and points:   *)
(* sums over sets, the closest centroid, the rounded mean, and that        *)
(* different starting points leave no cluster empty.                       *)
(***************************************************************************)
EXTENDS Clustering, FiniteSetTheorems, WellFoundedInduction, TLAPS

-----------------------------------------------------------------------------
(***************************************************************************)
(* Least elements                                                          *)
(***************************************************************************)

\* A set of natural numbers has a least one: what stands for induction here.
LEMMA LeastNumber ==
  ASSUME NEW S \in SUBSET Nat, S # {}
  PROVE  \E n \in S : \A m \in S : n <= m
<1>1. PICK n \in S : \A m \in S : ~(<<m, n>> \in OpToRel(<, Nat))
  BY NatLessThanWellFounded, WFMin, Zenon
<1>2. \A m \in S : ~(m < n)
  BY <1>1 DEF OpToRel
<1>. QED
  BY <1>2

-----------------------------------------------------------------------------
(***************************************************************************)
(* Sums over finite sets                                                   *)
(***************************************************************************)

Pick(s) == CHOOSE x \in s : TRUE

\* it gives the sum of f over each subset of S.
IsSums(it, f, S) ==
  it = [s \in SUBSET S |-> IF s = {} THEN 0 ELSE f[Pick(s)] + it[s \ {Pick(s)}]]

Sums(f, S) == CHOOSE it : IsSums(it, f, S)
Sum(f, S)  == Sums(f, S)[S]

LEMMA PickRemoved ==
  ASSUME NEW s, s # {}, IsFiniteSet(s)
  PROVE  /\ Pick(s) \in s
         /\ IsFiniteSet(s \ {Pick(s)})
         /\ Cardinality(s) \in Nat \ {0}
         /\ Cardinality(s \ {Pick(s)}) = Cardinality(s) - 1
<1>1. Pick(s) \in s
  BY DEF Pick
<1>. QED
  BY <1>1, FS_RemoveElement, FS_CardinalityType, FS_EmptySet

\* The sums exist: those of the sets of n + 1 elements are made from those of n.
LEMMA SumsExist ==
  ASSUME NEW S, IsFiniteSet(S), NEW f \in [S -> Int]
  PROVE  \E it \in [SUBSET S -> Int] : IsSums(it, f, S)
<1> DEFINE Upto(n) == {s \in SUBSET S : Cardinality(s) <= n}
           Good(n) == \E it \in [Upto(n) -> Int] :
                        \A s \in Upto(n) : it[s] = IF s = {} THEN 0 ELSE f[Pick(s)] + it[s \ {Pick(s)}]
           Bad == {n \in Nat : ~Good(n)}
<1>1. \A s \in SUBSET S : IsFiniteSet(s) /\ Cardinality(s) \in Nat /\ (Cardinality(s) = 0 <=> s = {})
  BY FS_Subset, FS_CardinalityType, FS_EmptySet
<1>2. \A s \in SUBSET S : s # {} =>
        /\ Pick(s) \in S /\ s \ {Pick(s)} \in SUBSET S
        /\ Cardinality(s \ {Pick(s)}) = Cardinality(s) - 1
  BY <1>1, PickRemoved
<1>3. Good(0)
  <2>1. \A s \in Upto(0) : s = {}
    BY <1>1
  <2>2. [s \in Upto(0) |-> 0] \in [Upto(0) -> Int]
    OBVIOUS
  <2>. QED
    BY <2>1, <2>2
<1>4. ASSUME NEW n \in Nat, Good(n)
      PROVE  Good(n + 1)
  <2>1. PICK it \in [Upto(n) -> Int] :
          \A s \in Upto(n) : it[s] = IF s = {} THEN 0 ELSE f[Pick(s)] + it[s \ {Pick(s)}]
    BY <1>4
  <2> DEFINE it1 == [s \in Upto(n + 1) |-> IF s \in Upto(n) THEN it[s]
                                           ELSE f[Pick(s)] + it[s \ {Pick(s)}]]
  <2>2. \A s \in Upto(n + 1) \ Upto(n) : s # {} /\ s \ {Pick(s)} \in Upto(n)
    BY <1>1, <1>2
  <2>3. it1 \in [Upto(n + 1) -> Int]
    BY <1>2, <2>2
  <2>4. \A s \in Upto(n) : s # {} => s \ {Pick(s)} \in Upto(n)
    BY <1>1, <1>2
  <2>5. \A s \in Upto(n) : s \in Upto(n + 1) /\ it1[s] = it[s]
    BY <1>1
  <2>6. ASSUME NEW s \in Upto(n + 1)
        PROVE  it1[s] = IF s = {} THEN 0 ELSE f[Pick(s)] + it1[s \ {Pick(s)}]
    BY <2>1, <2>2, <2>4, <2>5
  <2>. QED
    BY <2>3, <2>6
<1>5. Bad = {}
  <2>1. SUFFICES ASSUME Bad # {} PROVE FALSE
    OBVIOUS
  <2> HIDE DEF Good
  <2>2. PICK n \in Bad : \A m \in Bad : n <= m
    BY <2>1, LeastNumber
  <2>3. n # 0 /\ n - 1 \in Nat /\ n - 1 \notin Bad
    BY <1>3, <2>2
  <2>4. Good((n - 1) + 1)
    BY <1>4, <2>3
  <2>. QED
    BY <2>2, <2>4
<1>6. Cardinality(S) \in Nat /\ \A s \in SUBSET S : Cardinality(s) <= Cardinality(S)
  BY FS_CardinalityType, FS_Subset
<1>7. Upto(Cardinality(S)) = SUBSET S
  BY <1>6
<1>8. Good(Cardinality(S))
  <2> HIDE DEF Good
  <2>. QED
    BY <1>5, <1>6
<1>9. PICK it \in [SUBSET S -> Int] :
        \A s \in SUBSET S : it[s] = IF s = {} THEN 0 ELSE f[Pick(s)] + it[s \ {Pick(s)}]
  BY <1>7, <1>8
<1>. QED
  BY <1>9 DEF IsSums

\* There is only one function of the sums.
LEMMA SumsUnique ==
  ASSUME NEW S, IsFiniteSet(S), NEW f, NEW a, NEW b, IsSums(a, f, S), IsSums(b, f, S)
  PROVE  a = b
<1> DEFINE Differ == {s \in SUBSET S : a[s] # b[s]}
           Sizes == {Cardinality(s) : s \in Differ}
<1>1. \A s \in SUBSET S : IsFiniteSet(s) /\ Cardinality(s) \in Nat
  BY FS_Subset, FS_CardinalityType
<1>2. Differ = {}
  <2>1. SUFFICES ASSUME Differ # {} PROVE FALSE
    OBVIOUS
  <2>2. Sizes # {} /\ Sizes \in SUBSET Nat
    BY <1>1, <2>1
  <2>3. PICK n \in Sizes : \A m \in Sizes : n <= m
    BY <2>2, LeastNumber
  <2>4. PICK s \in Differ : n = Cardinality(s)
    BY <2>3
  <2>5. s # {}
    BY <2>4 DEF IsSums
  <2>6. /\ s \ {Pick(s)} \in SUBSET S
        /\ Cardinality(s) \in Nat
        /\ Cardinality(s \ {Pick(s)}) = Cardinality(s) - 1
    BY <1>1, <2>4, <2>5, PickRemoved
  <2>7. s \ {Pick(s)} \in Differ
    BY <2>4, <2>5, <2>6 DEF IsSums
  <2>8. n <= Cardinality(s) - 1
    BY <2>3, <2>6, <2>7
  <2>. QED
    BY <2>4, <2>6, <2>8
<1>. QED
  BY <1>2 DEF IsSums

\* The sum of integers is one, and one term can be taken out of it.
LEMMA SumStep ==
  ASSUME NEW S, IsFiniteSet(S), NEW f \in [S -> Int]
  PROVE  /\ IsSums(Sums(f, S), f, S)
         /\ Sums(f, S) \in [SUBSET S -> Int]
         /\ Sum(f, S) \in Int
<1>1. PICK it \in [SUBSET S -> Int] : IsSums(it, f, S)
  BY SumsExist
<1>2. IsSums(Sums(f, S), f, S)
  BY <1>1 DEF Sums
<1>3. Sums(f, S) = it
  BY <1>1, <1>2, SumsUnique
<1>. QED
  BY <1>2, <1>3 DEF Sum

\* Induction over the subsets of a finite set: G has all of them when it has each
\* one of which it has the smaller ones.
LEMMA SubsetInduction ==
  ASSUME NEW S, IsFiniteSet(S), NEW G,
         \A s \in SUBSET S :
           (\A u \in SUBSET S : Cardinality(u) < Cardinality(s) => u \in G) => s \in G
  PROVE  SUBSET S \subseteq G
<1> DEFINE Out == (SUBSET S) \ G
           Sizes == {Cardinality(s) : s \in Out}
<1>1. \A s \in SUBSET S : Cardinality(s) \in Nat
  BY FS_Subset, FS_CardinalityType
<1>2. SUFFICES ASSUME Out # {} PROVE FALSE
  OBVIOUS
<1>3. Sizes # {} /\ Sizes \in SUBSET Nat
  BY <1>1, <1>2
<1>4. PICK n \in Sizes : \A m \in Sizes : n <= m
  BY <1>3, LeastNumber
<1>5. PICK s \in Out : n = Cardinality(s)
  BY <1>4
<1>6. ASSUME NEW u \in SUBSET S, Cardinality(u) < Cardinality(s)
      PROVE  u \in G
  <2>1. u \in Out => Cardinality(s) <= Cardinality(u)
    BY <1>4, <1>5
  <2>. QED
    BY <1>1, <1>5, <1>6, <2>1
<1>. QED
  BY <1>5, <1>6

\* Any term can be taken out of a sum.
LEMMA SumRemove ==
  ASSUME NEW S, IsFiniteSet(S), NEW f \in [S -> Int], NEW s \in SUBSET S, NEW x \in s
  PROVE  Sums(f, S)[s] = f[x] + Sums(f, S)[s \ {x}]
<1> DEFINE T == Sums(f, S)
           G == {u \in SUBSET S : \A y \in u : T[u] = f[y] + T[u \ {y}]}
<1>1. T \in [SUBSET S -> Int]
  BY SumStep
<1>2. \A u \in SUBSET S : u # {} => T[u] = f[Pick(u)] + T[u \ {Pick(u)}]
  <2>1. IsSums(T, f, S)
    BY SumStep
  <2> HIDE DEF T
  <2>. QED
    BY <2>1 DEF IsSums
<1>3. \A u \in SUBSET S : \A y \in u :
        u \ {y} \in SUBSET S /\ Cardinality(u \ {y}) < Cardinality(u)
  <2> SUFFICES ASSUME NEW u \in SUBSET S, NEW y \in u
               PROVE  Cardinality(u \ {y}) < Cardinality(u)
    OBVIOUS
  <2>1. IsFiniteSet(u) /\ Cardinality(u) \in Nat
    BY FS_Subset, FS_CardinalityType
  <2>2. Cardinality(u \ {y}) = Cardinality(u) - 1
    BY <2>1, FS_RemoveElement
  <2>. QED
    BY <2>1, <2>2
<1> HIDE DEF T
<1>4. ASSUME NEW u \in SUBSET S,
             \A w \in SUBSET S : Cardinality(w) < Cardinality(u) => w \in G
      PROVE  u \in G
  <2> SUFFICES ASSUME NEW y \in u PROVE T[u] = f[y] + T[u \ {y}]
    OBVIOUS
  <2> DEFINE p == Pick(u)
  <2>1. p \in u /\ T[u] = f[p] + T[u \ {p}]
    BY <1>2 DEF Pick
  <2> HIDE DEF p
  <2>2. CASE p = y
    BY <2>1, <2>2
  <2>3. CASE p # y
    <3>1. u \ {p} \in G /\ u \ {y} \in G /\ y \in u \ {p} /\ p \in u \ {y}
      BY <1>3, <1>4, <2>1, <2>3
    <3> DEFINE rest == (u \ {p}) \ {y}
    <3>2. rest = (u \ {y}) \ {p} /\ rest \in SUBSET S
      OBVIOUS
    <3>3. T[u \ {p}] = f[y] + T[rest] /\ T[u \ {y}] = f[p] + T[(u \ {y}) \ {p}]
      BY <3>1
    <3>4. T[u \ {y}] = f[p] + T[rest]
      BY <3>2, <3>3
    <3>5. f[p] \in Int /\ f[y] \in Int /\ T[rest] \in Int
      BY <1>1, <2>1, <3>2
    <3> HIDE DEF rest
    <3>. QED
      BY <2>1, <3>3, <3>4, <3>5
  <2>. QED
    BY <2>2, <2>3
<1>5. SUBSET S \subseteq G
  <2> HIDE DEF G
  <2>. QED
    BY <1>4, SubsetInduction
<1>. QED
  BY <1>5 DEF T

\* Induction, one element after the other
LEMMA ElementInduction ==
  ASSUME NEW S, IsFiniteSet(S), NEW G, {} \in G,
         \A s \in SUBSET S : \A x \in S \ s : s \in G => s \cup {x} \in G
  PROVE  SUBSET S \subseteq G
<1>1. ASSUME NEW s \in SUBSET S,
             \A u \in SUBSET S : Cardinality(u) < Cardinality(s) => u \in G
      PROVE  s \in G
  <2>1. CASE s = {}
    BY <2>1
  <2>2. CASE s # {}
    <3>1. PICK x \in s : TRUE
      BY <2>2
    <3>2. IsFiniteSet(s) /\ Cardinality(s) \in Nat
      BY FS_Subset, FS_CardinalityType
    <3>3. Cardinality(s \ {x}) = Cardinality(s) - 1
      BY <3>2, FS_RemoveElement
    <3>4. s \ {x} \in G
      BY <1>1, <3>2, <3>3
    <3>5. s \ {x} \in SUBSET S /\ x \in S \ (s \ {x}) /\ s = (s \ {x}) \cup {x}
      OBVIOUS
    <3>6. (s \ {x}) \cup {x} \in G
      BY <3>4, <3>5
    <3>. QED
      BY <3>5, <3>6
  <2>. QED
    BY <2>1, <2>2
<1>. QED
  BY <1>1, SubsetInduction

\* The sum over s with another element x
LEMMA SumAdd ==
  ASSUME NEW S, IsFiniteSet(S), NEW f \in [S -> Int]
  PROVE  /\ Sums(f, S) \in [SUBSET S -> Int]
         /\ Sums(f, S)[{}] = 0
         /\ \A s \in SUBSET S : \A x \in S \ s : Sums(f, S)[s \cup {x}] = f[x] + Sums(f, S)[s]
<1>1. IsSums(Sums(f, S), f, S) /\ Sums(f, S) \in [SUBSET S -> Int]
  BY SumStep
<1>2. Sums(f, S)[{}] = 0
  BY <1>1 DEF IsSums
<1>3. ASSUME NEW s \in SUBSET S, NEW x \in S \ s
      PROVE  Sums(f, S)[s \cup {x}] = f[x] + Sums(f, S)[s]
  <2>1. s \cup {x} \in SUBSET S /\ x \in s \cup {x} /\ (s \cup {x}) \ {x} = s
    OBVIOUS
  <2>2. Sums(f, S)[s \cup {x}] = f[x] + Sums(f, S)[(s \cup {x}) \ {x}]
    BY <2>1, SumRemove
  <2>. QED
    BY <2>1, <2>2
<1>. QED
  BY <1>1, <1>2, <1>3

\* A sum is the sum over a part and the sum over the rest.
LEMMA SumSplit ==
  ASSUME NEW S, IsFiniteSet(S), NEW f \in [S -> Int], NEW C \in SUBSET S
  PROVE  Sum(f, S) = Sums(f, S)[C] + Sums(f, S)[S \ C]
<1> DEFINE T == Sums(f, S)
           G == {c \in SUBSET S : T[S] = T[c] + T[S \ c]}
<1>1. /\ T \in [SUBSET S -> Int] /\ T[{}] = 0
      /\ \A s \in SUBSET S : \A x \in S \ s : T[s \cup {x}] = f[x] + T[s]
  BY SumAdd
<1> HIDE DEF T
<1>2. {} \in G
  <2>1. S \ {} = S /\ T[S] \in Int
    BY <1>1
  <2>. QED
    BY <1>1, <2>1
<1>3. ASSUME NEW c \in SUBSET S, NEW x \in S \ c, c \in G
      PROVE  c \cup {x} \in G
  <2> DEFINE rest == S \ (c \cup {x})
  <2>1. S \ c = rest \cup {x} /\ rest \in SUBSET S /\ x \in S \ rest
    OBVIOUS
  <2>2. T[S \ c] = f[x] + T[rest] /\ T[c \cup {x}] = f[x] + T[c] /\ T[S] = T[c] + T[S \ c]
    BY <1>1, <1>3, <2>1
  <2>3. f[x] \in Int /\ T[rest] \in Int /\ T[c] \in Int
    BY <1>1
  <2>4. T[S] = T[c \cup {x}] + T[rest]
    BY <2>2, <2>3
  <2>. QED
    BY <2>4
<1>4. SUBSET S \subseteq G
  <2> HIDE DEF G
  <2>. QED
    BY <1>2, <1>3, ElementInduction
<1>. QED
  BY <1>4 DEF T, Sum

\* Greater terms make a greater sum.
LEMMA SumMonotone ==
  ASSUME NEW S, IsFiniteSet(S), NEW f \in [S -> Int], NEW g \in [S -> Int], NEW C \in SUBSET S,
         \A x \in C : f[x] <= g[x]
  PROVE  Sums(f, S)[C] <= Sums(g, S)[C]
<1> DEFINE F == Sums(f, S)
           H == Sums(g, S)
           G == {c \in SUBSET S : c \subseteq C => F[c] <= H[c]}
<1>1. /\ F \in [SUBSET S -> Int] /\ F[{}] = 0
      /\ \A s \in SUBSET S : \A x \in S \ s : F[s \cup {x}] = f[x] + F[s]
  BY SumAdd
<1>2. /\ H \in [SUBSET S -> Int] /\ H[{}] = 0
      /\ \A s \in SUBSET S : \A x \in S \ s : H[s \cup {x}] = g[x] + H[s]
  BY SumAdd
<1> HIDE DEF F, H
<1>3. {} \in G
  BY <1>1, <1>2
<1>4. ASSUME NEW c \in SUBSET S, NEW x \in S \ c, c \in G
      PROVE  c \cup {x} \in G
  <2>1. F[c \cup {x}] = f[x] + F[c] /\ H[c \cup {x}] = g[x] + H[c]
    BY <1>1, <1>2
  <2>2. f[x] \in Int /\ g[x] \in Int /\ F[c] \in Int /\ H[c] \in Int
    BY <1>1, <1>2
  <2>3. c \cup {x} \subseteq C => f[x] <= g[x] /\ F[c] <= H[c]
    BY <1>4
  <2>. QED
    BY <2>1, <2>2, <2>3
<1>5. SUBSET S \subseteq G
  <2> HIDE DEF G
  <2>. QED
    BY <1>3, <1>4, ElementInduction
<1>. QED
  BY <1>5 DEF F, H

\* The sum of sums is the sum.
LEMMA SumPlus ==
  ASSUME NEW S, IsFiniteSet(S), NEW f \in [S -> Int], NEW g \in [S -> Int], NEW h \in [S -> Int],
         \A x \in S : h[x] = f[x] + g[x], NEW C \in SUBSET S
  PROVE  Sums(h, S)[C] = Sums(f, S)[C] + Sums(g, S)[C]
<1> DEFINE A == Sums(f, S)
           B == Sums(g, S)
           H == Sums(h, S)
           G == {c \in SUBSET S : H[c] = A[c] + B[c]}
<1>1. /\ A \in [SUBSET S -> Int] /\ A[{}] = 0
      /\ \A s \in SUBSET S : \A x \in S \ s : A[s \cup {x}] = f[x] + A[s]
  BY SumAdd
<1>2. /\ B \in [SUBSET S -> Int] /\ B[{}] = 0
      /\ \A s \in SUBSET S : \A x \in S \ s : B[s \cup {x}] = g[x] + B[s]
  BY SumAdd
<1>3. /\ H \in [SUBSET S -> Int] /\ H[{}] = 0
      /\ \A s \in SUBSET S : \A x \in S \ s : H[s \cup {x}] = h[x] + H[s]
  BY SumAdd
<1> HIDE DEF A, B, H
<1>4. {} \in G
  BY <1>1, <1>2, <1>3
<1>5. ASSUME NEW c \in SUBSET S, NEW x \in S \ c, c \in G
      PROVE  c \cup {x} \in G
  <2>1. A[c \cup {x}] = f[x] + A[c] /\ B[c \cup {x}] = g[x] + B[c] /\ H[c \cup {x}] = h[x] + H[c]
    BY <1>1, <1>2, <1>3
  <2>2. f[x] \in Int /\ g[x] \in Int /\ A[c] \in Int /\ B[c] \in Int
    BY <1>1, <1>2
  <2>3. h[x] = f[x] + g[x] /\ H[c] = A[c] + B[c]
    BY <1>5
  <2>4. H[c \cup {x}] = A[c \cup {x}] + B[c \cup {x}]
    BY <2>1, <2>2, <2>3
  <2>. QED
    BY <2>4
<1>6. SUBSET S \subseteq G
  <2> HIDE DEF G
  <2>. QED
    BY <1>4, <1>5, ElementInduction
<1>. QED
  BY <1>6 DEF A, B, H

\* The sum over a part, taken by itself
LEMMA SumOfPart ==
  ASSUME NEW S, IsFiniteSet(S), NEW f \in [S -> Int], NEW C \in SUBSET S
  PROVE  Sums(f, S)[C] = Sum([x \in C |-> f[x]], C)
<1> DEFINE g == [x \in C |-> f[x]]
           T == Sums(f, S)
           part == [s \in SUBSET C |-> T[s]]
<1>1. IsFiniteSet(C) /\ g \in [C -> Int]
  BY FS_Subset
<1>2. IsSums(T, f, S)
  BY SumStep
<1>3. IsSums(Sums(g, C), g, C)
  BY <1>1, SumStep
<1>4. \A s \in SUBSET C : s # {} => Pick(s) \in C /\ s \ {Pick(s)} \in SUBSET C
  BY DEF Pick
<1> HIDE DEF T
<1>5. \A s \in SUBSET C : T[s] = IF s = {} THEN 0 ELSE f[Pick(s)] + T[s \ {Pick(s)}]
  BY <1>2 DEF IsSums
<1>6. IsSums(part, g, C)
  BY <1>4, <1>5 DEF IsSums
<1>7. part = Sums(g, C)
  <2> HIDE DEF part, g
  <2>. QED
    BY <1>1, <1>3, <1>6, SumsUnique
<1>8. part[C] = T[C]
  OBVIOUS
<1>. QED
  BY <1>7, <1>8 DEF Sum, T

\* What MapThenSumSet computes
LEMMA MapThenSumIsSum ==
  ASSUME NEW S, IsFiniteSet(S), NEW file, \A i \in S : file[i] \in Int \X Int
  PROVE  /\ MapThenSumSet(LAMBDA i : file[i][1], S) = Sum([i \in S |-> file[i][1]], S)
         /\ MapThenSumSet(LAMBDA i : file[i][2], S) = Sum([i \in S |-> file[i][2]], S)
<1> DEFINE Sol1(it) == it = [s \in SUBSET S |-> IF s = {} THEN 0 ELSE file[Pick(s)][1] + it[s \ {Pick(s)}]]
           Sol2(it) == it = [s \in SUBSET S |-> IF s = {} THEN 0 ELSE file[Pick(s)][2] + it[s \ {Pick(s)}]]
           f1 == [i \in S |-> file[i][1]]
           f2 == [i \in S |-> file[i][2]]
<1>1. \A s \in SUBSET S : s # {} => Pick(s) \in S
  BY DEF Pick
<1>2. \A it : (Sol1(it) <=> IsSums(it, f1, S)) /\ (Sol2(it) <=> IsSums(it, f2, S))
  BY <1>1 DEF IsSums
<1>3. MapThenSumSet(LAMBDA i : file[i][1], S) = (CHOOSE it : Sol1(it))[S]
  BY DEF MapThenSumSet, MapThenFoldSet, Pick
<1>4. MapThenSumSet(LAMBDA i : file[i][2], S) = (CHOOSE it : Sol2(it))[S]
  BY DEF MapThenSumSet, MapThenFoldSet, Pick
<1>5. f1 \in [S -> Int] /\ f2 \in [S -> Int]
  OBVIOUS
<1> HIDE DEF Sol1, Sol2, f1, f2
<1>6. (CHOOSE it : Sol1(it)) = Sums(f1, S)
  BY <1>2, <1>5, SumsExist, SumsUnique, SumStep
<1>7. (CHOOSE it : Sol2(it)) = Sums(f2, S)
  BY <1>2, <1>5, SumsExist, SumsUnique, SumStep
<1>. QED
  BY <1>3, <1>4, <1>6, <1>7 DEF Sum, f1, f2

-----------------------------------------------------------------------------
(***************************************************************************)
(* Distances, the closest centroid and the mean                            *)
(***************************************************************************)

Point == Int \X Int

LEMMA SquareNat ==
  ASSUME NEW a \in Int
  PROVE  a * a \in Nat /\ (a * a = 0 => a = 0)
OBVIOUS

\* Only a point itself is at distance 0.
LEMMA DistanceNat ==
  ASSUME NEW p \in Point, NEW c \in Point
  PROVE  /\ Distance(p, c) \in Nat
         /\ Distance(p, c) = 0 <=> p = c
<1>1. p[1] \in Int /\ p[2] \in Int /\ c[1] \in Int /\ c[2] \in Int
      /\ p = <<p[1], p[2]>> /\ c = <<c[1], c[2]>>
  BY DEF Point
<1> DEFINE x == p[1] - c[1]
           y == p[2] - c[2]
<1>2. x \in Int /\ y \in Int
  BY <1>1
<1>3. x * x \in Nat /\ y * y \in Nat /\ (x * x = 0 => x = 0) /\ (y * y = 0 => y = 0)
  <2> HIDE DEF x, y
  <2>. QED
    BY <1>2, SquareNat
<1>4. Distance(p, c) = x * x + y * y
  BY DEF Distance
<1>5. x = 0 /\ y = 0 <=> p = c
  BY <1>1
<1>6. x = 0 /\ y = 0 => x * x + y * y = 0
  BY <1>2
<1> HIDE DEF x, y
<1>. QED
  BY <1>3, <1>4, <1>5, <1>6

\* cluster_points finds the first of the nearest centroids.
LEMMA ClosestIsLeast ==
  ASSUME NEW p \in Point, NEW cs \in [Key -> Point]
  PROVE  /\ Closest(p, cs) \in Key
         /\ \A j \in Key :
              \/ Distance(p, cs[Closest(p, cs)]) < Distance(p, cs[j])
              \/ Distance(p, cs[Closest(p, cs)]) = Distance(p, cs[j]) /\ Closest(p, cs) <= j
<1> DEFINE D(k) == Distance(p, cs[k])
<1>1. Key \in SUBSET Nat /\ 0 \in Key
  BY KAssumption DEF Key
<1>2. \A k \in Key : D(k) \in Nat
  BY DistanceNat
<1> DEFINE First(k) == \A j \in Key : D(k) < D(j) \/ (D(k) = D(j) /\ k <= j)
<1>3. Closest(p, cs) = CHOOSE k \in Key : First(k)
  BY DEF Closest
<1> HIDE DEF D
<1>4. PICK d \in {D(k) : k \in Key} : \A e \in {D(k) : k \in Key} : d <= e
  <2>1. {D(k) : k \in Key} \in SUBSET Nat /\ {D(k) : k \in Key} # {}
    BY <1>1, <1>2
  <2>. QED
    BY <2>1, LeastNumber
<1>5. PICK k \in {j \in Key : D(j) = d} : \A j \in {j \in Key : D(j) = d} : k <= j
  <2>1. {j \in Key : D(j) = d} \in SUBSET Nat /\ {j \in Key : D(j) = d} # {}
    BY <1>1, <1>4
  <2>. QED
    BY <2>1, LeastNumber
<1>6. k \in Key /\ First(k)
  <2>1. ASSUME NEW j \in Key
        PROVE  D(k) < D(j) \/ (D(k) = D(j) /\ k <= j)
    <3>1. D(k) = d /\ d <= D(j) /\ d \in Int /\ D(j) \in Int
      BY <1>2, <1>4, <1>5
    <3>. QED
      BY <1>5, <3>1
  <2>. QED
    BY <1>5, <2>1
<1>7. Closest(p, cs) \in Key /\ First(Closest(p, cs))
  <2> HIDE DEF First
  <2>. QED
    BY <1>3, <1>6
<1>. QED
  BY <1>7 DEF D

\* The mean of some points is a point.
LEMMA MeanIsPoint ==
  ASSUME NEW S, IsFiniteSet(S), S # {}, NEW file, \A i \in S : file[i] \in Point
  PROVE  Mean(file, S) \in Point
<1>1. \A sum \in Int, n \in Nat \ {0} : RoundedMean(sum, n) \in Int
  BY DEF RoundedMean
<1>2. Cardinality(S) \in Nat \ {0}
  BY FS_CardinalityType, FS_EmptySet
<1>3. /\ MapThenSumSet(LAMBDA i : file[i][1], S) \in Int
      /\ MapThenSumSet(LAMBDA i : file[i][2], S) \in Int
  <2>1. [i \in S |-> file[i][1]] \in [S -> Int] /\ [i \in S |-> file[i][2]] \in [S -> Int]
    BY DEF Point
  <2>2. /\ Sum([i \in S |-> file[i][1]], S) \in Int
        /\ Sum([i \in S |-> file[i][2]], S) \in Int
    BY <2>1, SumStep
  <2>3. /\ MapThenSumSet(LAMBDA i : file[i][1], S) = Sum([i \in S |-> file[i][1]], S)
        /\ MapThenSumSet(LAMBDA i : file[i][2], S) = Sum([i \in S |-> file[i][2]], S)
    BY MapThenSumIsSum DEF Point
  <2>. QED
    BY <2>2, <2>3
<1>. QED
  BY <1>1, <1>2, <1>3 DEF Mean, Point

File == Seq(Point)

LEMMA ClusterFinite ==
  ASSUME NEW file \in File, NEW cs, NEW k
  PROVE  /\ Cluster(file, cs, k) \in SUBSET (1..Len(file))
         /\ IsFiniteSet(Cluster(file, cs, k))
         /\ \A i \in 1..Len(file) : file[i] \in Point
<1>1. Len(file) \in Nat /\ \A i \in 1..Len(file) : file[i] \in Point
  BY DEF File
<1>2. IsFiniteSet(1..Len(file))
  BY <1>1, FS_Interval
<1>3. Cluster(file, cs, k) \in SUBSET (1..Len(file))
  BY DEF Cluster
<1>. QED
  BY <1>1, <1>2, <1>3, FS_Subset

\* One iteration leads from points to points (find_mean_keywise).
LEMMA NextCentroidsType ==
  ASSUME NEW file \in File, NEW cs \in [Key -> Point]
  PROVE  NextCentroids(file, cs) \in [Key -> Point]
BY ClusterFinite, MeanIsPoint DEF NextCentroids

\* The k-th starting point belongs to the k-th cluster when no other is the same.
LEMMA FirstClusters ==
  ASSUME NEW file \in File, Len(file) >= K, DistinctStart(file), NEW k \in Key
  PROVE  Cluster(file, [j \in Key |-> file[j + 1]], k) # {}
<1> DEFINE cs == [j \in Key |-> file[j + 1]]
<1>1. \A j \in Key : j \in Int /\ j + 1 \in 1..K /\ j + 1 \in 1..Len(file) /\ cs[j] = file[j + 1]
  BY KAssumption DEF Key, File
<1>2. cs \in [Key -> Point]
  BY <1>1 DEF File
<1>3. \A j \in Key : cs[j] = cs[k] => j = k
  <2>1. \A j \in Key : file[j + 1] = file[k + 1] => j + 1 = k + 1
    BY <1>1 DEF DistinctStart
  <2>. QED
    BY <1>1, <2>1
<1> HIDE DEF cs
<1> DEFINE c == Closest(cs[k], cs)
<1>4. cs[k] \in Point
  BY <1>2
<1>5. /\ c \in Key
      /\ \/ Distance(cs[k], cs[c]) < Distance(cs[k], cs[k])
         \/ Distance(cs[k], cs[c]) = Distance(cs[k], cs[k])
  BY <1>2, <1>4, ClosestIsLeast
<1>6. Distance(cs[k], cs[k]) = 0 /\ Distance(cs[k], cs[c]) \in Nat
      /\ (Distance(cs[k], cs[c]) = 0 => cs[k] = cs[c])
  BY <1>2, <1>5, DistanceNat
<1>7. c = k
  BY <1>3, <1>5, <1>6
<1>8. k + 1 \in Cluster(file, cs, k)
  BY <1>1, <1>7 DEF Cluster
<1>. QED
  BY <1>8 DEF cs

-----------------------------------------------------------------------------
(***************************************************************************)
(* The rounded mean is the best centroid of its points.                    *)
(***************************************************************************)

\* Moving a centroid from c to m, for one coordinate v
LEMMA OneSquare ==
  ASSUME NEW v \in Int, NEW m \in Int, NEW c \in Int
  PROVE  (v - c) * (v - c) = (v - m) * (v - m) + (m - c) * (2 * v - (m + c))
OBVIOUS

LEMMA OneMore ==
  ASSUME NEW d \in Int, NEW e \in Int, NEW v \in Int, NEW sum \in Int, NEW n \in Int
  PROVE  d * (2 * (v + sum) - (n + 1) * e) = d * (2 * v - e) + d * (2 * sum - n * e)
<1>1. 2 * (v + sum) - (n + 1) * e = (2 * v - e) + (2 * sum - n * e)
  OBVIOUS
<1>2. \A a, b \in Int : d * (a + b) = d * a + d * b
  OBVIOUS
<1>3. 2 * v - e \in Int /\ 2 * sum - n * e \in Int
  OBVIOUS
<1>. QED
  BY <1>1, <1>2, <1>3

Squares(f, C, c) == [x \in C |-> (f[x] - c) * (f[x] - c)]

\* What the move changes in the sum of the squares depends on the sum of the points only.
LEMMA SquaresApart ==
  ASSUME NEW C, IsFiniteSet(C), NEW f \in [C -> Int], NEW m \in Int, NEW c \in Int
  PROVE  /\ Sum(Squares(f, C, c), C) \in Int /\ Sum(Squares(f, C, m), C) \in Int
         /\ Sum(Squares(f, C, c), C) =
              Sum(Squares(f, C, m), C) + (m - c) * (2 * Sum(f, C) - Cardinality(C) * (m + c))
<1> DEFINE A == Sums(Squares(f, C, c), C)
           B == Sums(Squares(f, C, m), C)
           F == Sums(f, C)
           G == {s \in SUBSET C :
                   A[s] = B[s] + (m - c) * (2 * F[s] - Cardinality(s) * (m + c))}
<1>1. Squares(f, C, c) \in [C -> Int] /\ Squares(f, C, m) \in [C -> Int]
  BY DEF Squares
<1>2. /\ A \in [SUBSET C -> Int] /\ A[{}] = 0
      /\ \A s \in SUBSET C : \A x \in C \ s : A[s \cup {x}] = Squares(f, C, c)[x] + A[s]
  BY <1>1, SumAdd
<1>3. /\ B \in [SUBSET C -> Int] /\ B[{}] = 0
      /\ \A s \in SUBSET C : \A x \in C \ s : B[s \cup {x}] = Squares(f, C, m)[x] + B[s]
  BY <1>1, SumAdd
<1>4. /\ F \in [SUBSET C -> Int] /\ F[{}] = 0
      /\ \A s \in SUBSET C : \A x \in C \ s : F[s \cup {x}] = f[x] + F[s]
  BY SumAdd
<1> HIDE DEF A, B, F
<1>5. {} \in G
  <2>1. Cardinality({}) = 0
    BY FS_EmptySet
  <2>2. \A d \in Int : d * (2 * 0 - 0 * (m + c)) = 0
    OBVIOUS
  <2>3. (m - c) * (2 * F[{}] - Cardinality({}) * (m + c)) = 0
    BY <1>4, <2>1, <2>2
  <2>. QED
    BY <1>2, <1>3, <2>3
<1>6. ASSUME NEW s \in SUBSET C, NEW x \in C \ s, s \in G
      PROVE  s \cup {x} \in G
  <2> DEFINE v == f[x]
             n == Cardinality(s)
             d == m - c
             e == m + c
  <2>1. IsFiniteSet(s) /\ n \in Int /\ Cardinality(s \cup {x}) = n + 1
    BY FS_Subset, FS_CardinalityType, FS_AddElement
  <2>2. v \in Int /\ d \in Int /\ e \in Int /\ F[s] \in Int /\ A[s] \in Int /\ B[s] \in Int
    BY <1>2, <1>3, <1>4
  <2>3. /\ A[s \cup {x}] = (v - c) * (v - c) + A[s]
        /\ B[s \cup {x}] = (v - m) * (v - m) + B[s]
        /\ F[s \cup {x}] = v + F[s]
    BY <1>2, <1>3, <1>4 DEF Squares
  <2>4. A[s] = B[s] + d * (2 * F[s] - n * e)
    BY <1>6
  <2>5. (v - c) * (v - c) = (v - m) * (v - m) + d * (2 * v - e)
    BY <2>2, OneSquare
  <2>6. d * (2 * (v + F[s]) - (n + 1) * e) = d * (2 * v - e) + d * (2 * F[s] - n * e)
    <3> HIDE DEF v, n, d, e
    <3>. QED
      BY <2>1, <2>2, OneMore
  <2>7. A[s \cup {x}] = B[s \cup {x}] + d * (2 * (v + F[s]) - (n + 1) * e)
    <3> DEFINE a2 == (v - c) * (v - c)
               b2 == (v - m) * (v - m)
               one == d * (2 * v - e)
               old == d * (2 * F[s] - n * e)
    <3>1. a2 \in Int /\ b2 \in Int /\ one \in Int /\ old \in Int
      <4> HIDE DEF v, n, d, e
      <4>. QED
        BY <2>1, <2>2
    <3>2. /\ A[s \cup {x}] = a2 + A[s] /\ B[s \cup {x}] = b2 + B[s] /\ A[s] = B[s] + old
          /\ a2 = b2 + one /\ d * (2 * (v + F[s]) - (n + 1) * e) = one + old
      BY <2>3, <2>4, <2>5, <2>6
    <3> HIDE DEF a2, b2, one, old, v, n, d, e
    <3>. QED
      BY <2>2, <3>1, <3>2
  <2>8. A[s \cup {x}] = B[s \cup {x}]
                          + d * (2 * F[s \cup {x}] - Cardinality(s \cup {x}) * e)
    <3> HIDE DEF v, n, d, e
    <3>. QED
      BY <2>1, <2>3, <2>7
  <2>. QED
    BY <2>8
<1>7. SUBSET C \subseteq G
  <2> HIDE DEF G
  <2>. QED
    BY <1>5, <1>6, ElementInduction
<1>. QED
  BY <1>2, <1>3, <1>7 DEF Sum, A, B, F

\* No whole number is nearer to sum / n than the rounded mean: of c and the mean m,
\* c is on the side where sum / n is not.
LEMMA RoundedMeanNearest ==
  ASSUME NEW sum \in Int, NEW n \in Nat \ {0}, NEW c \in Int, NEW m, m = RoundedMean(sum, n)
  PROVE  m \in Int /\ (m - c) * (2 * sum - n * (m + c)) >= 0
<1>1. m \in Int /\ (2 * n) * m <= 2 * sum + n /\ 2 * sum + n < (2 * n) * m + 2 * n
  <2>1. 2 * n \in Nat \ {0} /\ 2 * sum + n \in Int
    OBVIOUS
  <2>2. \A a \in Int, b \in Nat \ {0} :
          a \div b \in Int /\ b * (a \div b) <= a /\ a < b * (a \div b) + b
    OBVIOUS
  <2>. QED
    BY <2>1, <2>2 DEF RoundedMean
<1>2. n * (m + c) \in Int /\ n * m \in Int /\ n * c \in Int
      /\ n * (m + c) = n * m + n * c /\ (2 * n) * m = 2 * (n * m)
  BY <1>1
<1> DEFINE d == m - c
           e == 2 * sum - n * (m + c)
<1>3. d \in Int /\ e \in Int
  BY <1>1, <1>2
<1>4. CASE c = m
  BY <1>1, <1>2, <1>4
<1>5. CASE c > m
  <2>1. n * c >= n * m + n
    <3>1. \A k \in Nat : k >= 1 => n * k >= n
      OBVIOUS
    <3>2. c - m \in Nat /\ c - m >= 1 /\ n * c = n * m + n * (c - m)
      BY <1>1, <1>5
    <3>. QED
      BY <1>1, <1>2, <3>1, <3>2
  <2>2. d < 0 /\ e < 0
    BY <1>1, <1>2, <1>5, <2>1
  <2>3. \A a, b \in Int : a < 0 /\ b < 0 => a * b >= 0
    OBVIOUS
  <2> HIDE DEF d, e
  <2>4. d * e >= 0
    BY <1>3, <2>2, <2>3
  <2>. QED
    BY <1>1, <2>4 DEF d, e
<1>6. CASE c < m
  <2>1. n * m >= n * c + n
    <3>1. \A k \in Nat : k >= 1 => n * k >= n
      OBVIOUS
    <3>2. m - c \in Nat /\ m - c >= 1 /\ n * m = n * c + n * (m - c)
      BY <1>1, <1>6
    <3>. QED
      BY <1>1, <1>2, <3>1, <3>2
  <2>2. d >= 0 /\ e >= 0
    BY <1>1, <1>2, <1>6, <2>1
  <2>3. \A a, b \in Int : a >= 0 /\ b >= 0 => a * b >= 0
    OBVIOUS
  <2> HIDE DEF d, e
  <2>4. d * e >= 0
    BY <1>3, <2>2, <2>3
  <2>. QED
    BY <1>1, <2>4 DEF d, e
<1>. QED
  BY <1>1, <1>4, <1>5, <1>6

LEMMA MeanIsBest ==
  ASSUME NEW C, IsFiniteSet(C), C # {}, NEW f \in [C -> Int], NEW c \in Int,
         NEW m, m = RoundedMean(Sum(f, C), Cardinality(C))
  PROVE  /\ m \in Int
         /\ Sum(Squares(f, C, m), C) <= Sum(Squares(f, C, c), C)
<1>1. Cardinality(C) \in Nat \ {0} /\ Sum(f, C) \in Int
  BY FS_CardinalityType, FS_EmptySet, SumStep
<1>2. m \in Int /\ (m - c) * (2 * Sum(f, C) - Cardinality(C) * (m + c)) >= 0
  BY <1>1, RoundedMeanNearest
<1> DEFINE diff == (m - c) * (2 * Sum(f, C) - Cardinality(C) * (m + c))
<1>3. /\ Sum(Squares(f, C, c), C) \in Int /\ Sum(Squares(f, C, m), C) \in Int
      /\ Sum(Squares(f, C, c), C) = Sum(Squares(f, C, m), C) + diff
  BY <1>2, SquaresApart
<1>4. diff \in Int /\ diff >= 0
  BY <1>1, <1>2
<1> HIDE DEF diff
<1>. QED
  BY <1>2, <1>3, <1>4

Distances(file, C, c) == [i \in C |-> Distance(file[i], c)]

\* In both coordinates: the points are together not farther from their mean than
\* from any other point c.
LEMMA MeanIsNearest ==
  ASSUME NEW C, IsFiniteSet(C), C # {}, NEW file, \A i \in C : file[i] \in Point, NEW c \in Point
  PROVE  Sum(Distances(file, C, Mean(file, C)), C) <= Sum(Distances(file, C, c), C)
<1> DEFINE fx == [i \in C |-> file[i][1]]
           fy == [i \in C |-> file[i][2]]
           mx == RoundedMean(Sum(fx, C), Cardinality(C))
           my == RoundedMean(Sum(fy, C), Cardinality(C))
<1>1. fx \in [C -> Int] /\ fy \in [C -> Int] /\ c[1] \in Int /\ c[2] \in Int
  BY DEF Point
<1>2. Mean(file, C) = <<mx, my>>
  BY MapThenSumIsSum DEF Mean, Point
<1>3. /\ mx \in Int /\ Sum(Squares(fx, C, mx), C) <= Sum(Squares(fx, C, c[1]), C)
      /\ my \in Int /\ Sum(Squares(fy, C, my), C) <= Sum(Squares(fy, C, c[2]), C)
  <2> HIDE DEF fx, fy
  <2>. QED
    BY <1>1, MeanIsBest
<1>4. ASSUME NEW q \in Point
      PROVE  /\ Sum(Distances(file, C, q), C) = Sum(Squares(fx, C, q[1]), C)
                                                  + Sum(Squares(fy, C, q[2]), C)
             /\ Sum(Squares(fx, C, q[1]), C) \in Int /\ Sum(Squares(fy, C, q[2]), C) \in Int
  <2>1. q[1] \in Int /\ q[2] \in Int
    BY DEF Point
  <2>2. Squares(fx, C, q[1]) \in [C -> Int] /\ Squares(fy, C, q[2]) \in [C -> Int]
    BY <1>1, <2>1 DEF Squares
  <2>3. \A i \in C : Distances(file, C, q)[i] = Squares(fx, C, q[1])[i] + Squares(fy, C, q[2])[i]
    BY DEF Distances, Distance, Squares
  <2>4. Distances(file, C, q) \in [C -> Int]
    BY DistanceNat DEF Distances
  <2> HIDE DEF fx, fy
  <2>5. Sums(Distances(file, C, q), C)[C] = Sums(Squares(fx, C, q[1]), C)[C]
                                              + Sums(Squares(fy, C, q[2]), C)[C]
    BY <2>2, <2>3, <2>4, SumPlus
  <2>. QED
    BY <2>2, <2>5, SumStep DEF Sum
<1>5. Mean(file, C) \in Point /\ Mean(file, C)[1] = mx /\ Mean(file, C)[2] = my
  BY <1>2, <1>3 DEF Point
<1> HIDE DEF fx, fy, mx, my
<1>6. /\ Sum(Distances(file, C, Mean(file, C)), C) = Sum(Squares(fx, C, mx), C)
                                                      + Sum(Squares(fy, C, my), C)
      /\ Sum(Squares(fx, C, mx), C) \in Int /\ Sum(Squares(fy, C, my), C) \in Int
  BY <1>4, <1>5
<1>7. /\ Sum(Distances(file, C, c), C) = Sum(Squares(fx, C, c[1]), C)
                                           + Sum(Squares(fy, C, c[2]), C)
      /\ Sum(Squares(fx, C, c[1]), C) \in Int /\ Sum(Squares(fy, C, c[2]), C) \in Int
  BY <1>4
<1>. QED
  BY <1>3, <1>6, <1>7

-----------------------------------------------------------------------------
(***************************************************************************)
(* An iteration does not raise the cost: first the centroids move, one     *)
(* after the other, while every point stays in its cluster; then every     *)
(* point goes to the closest one.                                          *)
(***************************************************************************)

\* The cost of the centroids cs when point i is in cluster a[i]
CostIn(file, a, cs) ==
  Sum([i \in 1..Len(file) |-> Distance(file[i], cs[a[i]])], 1..Len(file))

ClusterOf(file, cs) == [i \in 1..Len(file) |-> Closest(file[i], cs)]

LEMMA CostIsSum ==
  ASSUME NEW file \in File, NEW cs \in [Key -> Point]
  PROVE  Cost(file, cs) = CostIn(file, ClusterOf(file, cs), cs)
<1> DEFINE S == 1..Len(file)
           Sol(it) == it = [s \in SUBSET S |-> IF s = {} THEN 0 ELSE
                        Distance(file[Pick(s)], cs[Closest(file[Pick(s)], cs)]) + it[s \ {Pick(s)}]]
           f == [i \in S |-> Distance(file[i], cs[Closest(file[i], cs)])]
<1>1. \A s \in SUBSET S : s # {} => Pick(s) \in S
  BY DEF Pick
<1>2. \A it : Sol(it) <=> IsSums(it, f, S)
  BY <1>1 DEF IsSums
<1>3. Cost(file, cs) = (CHOOSE it : Sol(it))[S]
  BY DEF Cost, MapThenSumSet, MapThenFoldSet, Pick
<1>4. IsFiniteSet(S) /\ \A i \in S : file[i] \in Point
  BY FS_Interval DEF File
<1>5. f \in [S -> Int]
  BY <1>4, ClosestIsLeast, DistanceNat
<1>6. f = [i \in S |-> Distance(file[i], cs[ClusterOf(file, cs)[i]])]
  BY DEF ClusterOf
<1> HIDE DEF Sol, f, S
<1>7. (CHOOSE it : Sol(it)) = Sums(f, S)
  BY <1>2, <1>4, <1>5, SumsExist, SumsUnique, SumStep
<1>. QED
  BY <1>3, <1>6, <1>7 DEF Sum, CostIn, S

\* One centroid that moves to the mean of its cluster
LEMMA CostFallsAt ==
  ASSUME NEW file \in File, NEW cs \in [Key -> Point], NEW k \in Key,
         NEW old \in [Key -> Point], old[k] = cs[k],
         NEW new, new = [old EXCEPT ![k] = NextCentroids(file, cs)[k]]
  PROVE  /\ CostIn(file, ClusterOf(file, cs), old) \in Int
         /\ CostIn(file, ClusterOf(file, cs), new) \in Int
         /\ CostIn(file, ClusterOf(file, cs), new) <= CostIn(file, ClusterOf(file, cs), old)
<1> DEFINE S == 1..Len(file)
           a == ClusterOf(file, cs)
           C == Cluster(file, cs, k)
           f == [i \in S |-> Distance(file[i], old[a[i]])]
           g == [i \in S |-> Distance(file[i], new[a[i]])]
<1>1. IsFiniteSet(S) /\ C \in SUBSET S /\ IsFiniteSet(C) /\ \A i \in S : file[i] \in Point
  BY ClusterFinite, FS_Interval DEF File
<1>2. new \in [Key -> Point] /\ new[k] = NextCentroids(file, cs)[k]
      /\ \A j \in Key \ {k} : new[j] = old[j]
  BY NextCentroidsType
<1>3. \A i \in S : a[i] \in Key /\ (i \in C <=> a[i] = k)
  BY <1>1, ClosestIsLeast DEF ClusterOf, Cluster
<1>4. f \in [S -> Int] /\ g \in [S -> Int]
  <2> SUFFICES ASSUME NEW i \in S
               PROVE  Distance(file[i], old[a[i]]) \in Int /\ Distance(file[i], new[a[i]]) \in Int
    OBVIOUS
  <2>1. file[i] \in Point /\ old[a[i]] \in Point /\ new[a[i]] \in Point
    BY <1>1, <1>2, <1>3
  <2>2. \A p, q \in Point : Distance(p, q) \in Int
    BY DistanceNat
  <2> HIDE DEF a
  <2>. QED
    BY <2>1, <2>2
<1>5. Sums(g, S)[S \ C] <= Sums(f, S)[S \ C]
  <2>1. \A i \in S \ C : g[i] = f[i] /\ f[i] \in Int
    BY <1>2, <1>3, <1>4
  <2>2. \A i \in S \ C : g[i] <= f[i]
    BY <2>1
  <2> HIDE DEF f, g, S, C
  <2>. QED
    BY <1>1, <1>4, <2>2, SumMonotone
<1>6. Sums(g, S)[C] <= Sums(f, S)[C]
  <2>1. CASE C = {}
    <3> HIDE DEF f, g, S, C
    <3>1. Sums(g, S)[{}] = 0 /\ Sums(f, S)[{}] = 0
      BY <1>1, <1>4, SumAdd
    <3>. QED
      BY <2>1, <3>1
  <2>2. CASE C # {}
    <3>1. new[k] = Mean(file, C)
      BY <1>2, <2>2 DEF NextCentroids
    <3>2. [i \in C |-> g[i]] = Distances(file, C, Mean(file, C))
      BY <1>1, <1>3, <3>1 DEF Distances
    <3>3. [i \in C |-> f[i]] = Distances(file, C, old[k])
      BY <1>1, <1>3 DEF Distances
    <3> HIDE DEF f, g, S, C
    <3>4. Sum(Distances(file, C, Mean(file, C)), C) <= Sum(Distances(file, C, old[k]), C)
      BY <1>1, <2>2, MeanIsNearest
    <3>5. Sums(g, S)[C] = Sum([i \in C |-> g[i]], C) /\ Sums(f, S)[C] = Sum([i \in C |-> f[i]], C)
      BY <1>1, <1>4, SumOfPart
    <3>. QED
      BY <3>2, <3>3, <3>4, <3>5
  <2>. QED
    BY <2>1, <2>2
<1>7. /\ Sum(f, S) = Sums(f, S)[C] + Sums(f, S)[S \ C]
      /\ Sum(g, S) = Sums(g, S)[C] + Sums(g, S)[S \ C]
      /\ Sums(f, S)[C] \in Int /\ Sums(f, S)[S \ C] \in Int
      /\ Sums(g, S)[C] \in Int /\ Sums(g, S)[S \ C] \in Int
  <2> HIDE DEF f, g, S, C
  <2>1. Sums(f, S) \in [SUBSET S -> Int] /\ Sums(g, S) \in [SUBSET S -> Int]
    BY <1>1, <1>4, SumStep
  <2>. QED
    BY <1>1, <1>4, <2>1, SumSplit
<1>8. Sum(f, S) \in Int /\ Sum(g, S) \in Int /\ Sum(g, S) <= Sum(f, S)
  <2> HIDE DEF f, g, S, C
  <2>. QED
    BY <1>5, <1>6, <1>7
<1>9. CostIn(file, a, old) = Sum(f, S) /\ CostIn(file, a, new) = Sum(g, S)
  BY DEF CostIn
<1>. QED
  BY <1>8, <1>9

\* The means of the first k clusters, the centroids before of the others
Moved(file, cs, k) == [j \in Key |-> IF j < k THEN NextCentroids(file, cs)[j] ELSE cs[j]]

LEMMA CostFallsInClusters ==
  ASSUME NEW file \in File, NEW cs \in [Key -> Point]
  PROVE  /\ CostIn(file, ClusterOf(file, cs), cs) \in Int
         /\ CostIn(file, ClusterOf(file, cs), NextCentroids(file, cs)) \in Int
         /\ CostIn(file, ClusterOf(file, cs), NextCentroids(file, cs))
              <= CostIn(file, ClusterOf(file, cs), cs)
<1> DEFINE H(k) == CostIn(file, ClusterOf(file, cs), Moved(file, cs, k))
           Bad == {k \in 0..K : ~(H(k) \in Int /\ H(k) <= H(0))}
<1>1. K \in Nat \ {0} /\ NextCentroids(file, cs) \in [Key -> Point]
  BY KAssumption, NextCentroidsType
<1>2. \A k \in 0..K : Moved(file, cs, k) \in [Key -> Point]
  BY <1>1 DEF Moved
<1>3. Moved(file, cs, 0) = cs
  BY <1>1 DEF Moved, Key
<1>4. Moved(file, cs, K) = NextCentroids(file, cs)
  BY <1>1 DEF Moved, Key
<1>5. ASSUME NEW k \in Key
      PROVE  H(k) \in Int /\ H(k + 1) \in Int /\ H(k + 1) <= H(k)
  <2>1. k \in 0..K /\ k \in Int
    BY <1>1 DEF Key
  <2>2. Moved(file, cs, k)[k] = cs[k]
    BY <2>1 DEF Moved
  <2>3. Moved(file, cs, k + 1) = [Moved(file, cs, k) EXCEPT ![k] = NextCentroids(file, cs)[k]]
    <3>1. \A j \in Key : j < k + 1 <=> j < k \/ j = k
      BY <2>1 DEF Key
    <3>. QED
      BY <2>1, <3>1 DEF Moved
  <2>. QED
    BY <1>2, <2>1, <2>2, <2>3, CostFallsAt
<1> HIDE DEF H
<1>6. H(0) \in Int
  <2>1. 0 \in Key
    BY <1>1 DEF Key
  <2>. QED
    BY <1>5, <2>1
<1>7. Bad = {}
  <2>1. SUFFICES ASSUME Bad # {} PROVE FALSE
    OBVIOUS
  <2>2. Bad \in SUBSET Nat
    BY <1>1
  <2>3. PICK k \in Bad : \A j \in Bad : k <= j
    BY <2>1, <2>2, LeastNumber
  <2>4. k # 0
    BY <1>6, <2>3
  <2>5. k - 1 \in Key /\ k - 1 \in 0..K /\ k - 1 \notin Bad /\ (k - 1) + 1 = k
    BY <1>1, <2>3, <2>4 DEF Key
  <2>6. H(k - 1) \in Int /\ H(k - 1) <= H(0)
    BY <2>5
  <2>7. H(k) \in Int /\ H(k) <= H(k - 1)
    BY <1>5, <2>5
  <2>8. H(k) <= H(0)
    BY <1>6, <2>6, <2>7
  <2>. QED
    BY <2>3, <2>7, <2>8
<1>8. H(K) \in Int /\ H(K) <= H(0)
  BY <1>1, <1>7
<1>. QED
  BY <1>3, <1>4, <1>6, <1>8 DEF H

\* One iteration of k-means does not raise the cost, rounded as the means are
\* (cluster_points, find_mean_keywise).
LEMMA CostFalls ==
  ASSUME NEW file \in File, NEW cs \in [Key -> Point]
  PROVE  Cost(file, NextCentroids(file, cs)) <= Cost(file, cs)
<1> DEFINE S == 1..Len(file)
           next == NextCentroids(file, cs)
           a == ClusterOf(file, cs)
           b == ClusterOf(file, next)
           f == [i \in S |-> Distance(file[i], next[b[i]])]
           g == [i \in S |-> Distance(file[i], next[a[i]])]
<1>1. next \in [Key -> Point] /\ IsFiniteSet(S) /\ \A i \in S : file[i] \in Point
  <2>1. next \in [Key -> Point]
    BY NextCentroidsType
  <2>2. Len(file) \in Nat /\ \A i \in S : file[i] \in Point
    BY DEF File
  <2>3. IsFiniteSet(S)
    BY <2>2, FS_Interval
  <2>. QED
    BY <2>1, <2>2, <2>3
<1> HIDE DEF next
<1>2. ASSUME NEW i \in S
      PROVE  /\ a[i] \in Key /\ b[i] \in Key
             /\ Distance(file[i], next[b[i]]) <= Distance(file[i], next[a[i]])
  <2>1. a[i] = Closest(file[i], cs) /\ b[i] = Closest(file[i], next)
    BY DEF ClusterOf
  <2>2. a[i] \in Key /\ b[i] \in Key
    BY <1>1, <2>1, ClosestIsLeast
  <2>3. \/ Distance(file[i], next[b[i]]) < Distance(file[i], next[a[i]])
        \/ Distance(file[i], next[b[i]]) = Distance(file[i], next[a[i]])
    BY <1>1, <2>1, <2>2, ClosestIsLeast
  <2>4. Distance(file[i], next[b[i]]) \in Nat /\ Distance(file[i], next[a[i]]) \in Nat
    BY <1>1, <2>2, DistanceNat
  <2>. QED
    BY <2>2, <2>3, <2>4
<1>3. f \in [S -> Int] /\ g \in [S -> Int]
  BY <1>1, <1>2, DistanceNat
<1>4. \A i \in S : f[i] <= g[i]
  BY <1>2
<1>5. CostIn(file, b, next) = Sum(f, S) /\ CostIn(file, a, next) = Sum(g, S)
  BY DEF CostIn
<1>6. Sum(f, S) <= Sum(g, S) /\ Sum(f, S) \in Int
  <2> HIDE DEF f, g, S
  <2>1. Sums(f, S)[S] <= Sums(g, S)[S]
    BY <1>1, <1>3, <1>4, SumMonotone
  <2>. QED
    BY <1>1, <1>3, <2>1, SumStep DEF Sum
<1>7. /\ CostIn(file, a, cs) \in Int /\ CostIn(file, a, next) \in Int
      /\ CostIn(file, a, next) <= CostIn(file, a, cs)
  BY CostFallsInClusters DEF next
<1>8. Cost(file, next) = CostIn(file, b, next) /\ Cost(file, cs) = CostIn(file, a, cs)
  BY <1>1, CostIsSum
<1> HIDE DEF a, b, f, g, S
<1>. QED
  BY <1>5, <1>6, <1>7, <1>8 DEF next
=============================================================================
