------------------------------- MODULE FoldTheorems -----------------------------
(***************************************************************************)
(* Induction over finite sets without an operator as parameter: what is to *)
(* be shown of every subset is given as the set G of the subsets it holds  *)
(* for.  And sums over finite sets: MapThenSumSet takes the elements in    *)
(* the order of CHOOSE; the lemmas say that the order does not matter, and *)
(* what the sum of a union, a difference or a renamed set is.  Last, folds *)
(* over sequences: the function by which FoldLeft is defined exists.       *)
(***************************************************************************)
EXTENDS Integers, FiniteSetsExt, FiniteSetTheorems, TLAPS

-----------------------------------------------------------------------------
(* Induction *)

\* A set of subsets of S that contains each one whose proper subsets it
\* contains, contains S.
LEMMA SubsetInduction ==
    ASSUME NEW S, IsFiniteSet(S), NEW G,
           \A T \in SUBSET S : (\A U \in (SUBSET T) \ {T} : U \in G) => T \in G
    PROVE  S \in G
<1> DEFINE R == StrictSubsetOrdering(S)
           Bad == (SUBSET S) \ G
<1>1. IsWellFoundedOn(R, SUBSET S)
  <2>1. FiniteSubsetsOf(S) = SUBSET S
    BY FS_FiniteSubsetsOfFinite, Zenon
  <2>2. IsWellFoundedOn(R, FiniteSubsetsOf(S))
    BY FS_StrictSubsetOrderingWellFounded, Zenon
  <2> QED
    BY <2>1, <2>2, Zenon
<1>2. SUFFICES ASSUME Bad # {} PROVE FALSE
  OBVIOUS
<1>3. PICK T \in Bad : \A U \in Bad : ~(<<U, T>> \in R)
  <2>1. Bad \subseteq SUBSET S
    OBVIOUS
  <2> HIDE DEF Bad, R
  <2> QED
    BY <1>1, <1>2, <2>1, WFMin
<1>4. \A U \in (SUBSET T) \ {T} : U \in G
  BY <1>3 DEF StrictSubsetOrdering
<1> QED
  BY <1>3, <1>4

\* The same one element at a time.
LEMMA FiniteInduction ==
    ASSUME NEW S, IsFiniteSet(S), NEW G, {} \in G,
           \A T \in SUBSET S : \A x \in S \ T : T \in G => T \union {x} \in G
    PROVE  S \in G
<1>1. ASSUME NEW T \in SUBSET S, \A U \in (SUBSET T) \ {T} : U \in G
      PROVE  T \in G
  <2>1. CASE T = {}
    BY <2>1
  <2>2. CASE T # {}
    <3>1. PICK x \in T : TRUE
      BY <2>2
    <3>2. T \ {x} \in G /\ T \ {x} \in SUBSET S /\ x \in S \ (T \ {x})
      BY <1>1, <3>1
    <3>3. (T \ {x}) \union {x} = T
      BY <3>1
    <3> QED
      BY <3>2, <3>3
  <2> QED
    BY <2>1, <2>2
<1> QED
  BY <1>1, SubsetInduction

\* The same along an initial segment of the natural numbers.
LEMMA PrefixInduction ==
    ASSUME NEW n \in Nat, NEW G, 0 \in G,
           \A k \in 0 .. (n - 1) : k \in G => k + 1 \in G
    PROVE  n \in G
<1> DEFINE H == {S \in SUBSET (1 .. n) :
                   \A k \in 0 .. n : S = 1 .. k => k \in G}
<1>1. ASSUME NEW T \in SUBSET (1 .. n), \A U \in (SUBSET T) \ {T} : U \in H
      PROVE  T \in H
  <2> SUFFICES ASSUME NEW k \in 0 .. n, T = 1 .. k, k # 0
               PROVE  k \in G
    OBVIOUS
  <2>1. 1 .. (k - 1) \in (SUBSET T) \ {T}
    <3>1. k \in T /\ k \notin 1 .. (k - 1)
      OBVIOUS
    <3> QED
      BY <3>1
  <2>2. k - 1 \in G
    <3> DEFINE U == 1 .. (k - 1)
    <3>1. U \in H
      BY <1>1, <2>1
    <3> QED
      BY <3>1
  <2> QED
    BY <2>2
<1>2. IsFiniteSet(1 .. n)
  BY FS_Interval
<1>3. 1 .. n \in H
  <2> DEFINE S == 1 .. n
  <2>1. IsFiniteSet(S) /\ \A T \in SUBSET S : (\A U \in (SUBSET T) \ {T} : U \in H) => T \in H
    BY <1>1, <1>2
  <2> HIDE DEF H, S
  <2>2. S \in H
    BY <2>1, SubsetInduction
  <2> QED
    BY <2>2 DEF S
<1> QED
  BY <1>3

\* A non-empty set of natural numbers has a least element: among the initial
\* segments 0 .. x that its elements bound there is a smallest one.
LEMMA NatHasMinimum ==
    ASSUME NEW S \in SUBSET Nat, S # {}
    PROVE  \E x \in S : \A y \in S : x <= y
<1>1. PICK n \in S : TRUE
  OBVIOUS
<1> DEFINE R == StrictSubsetOrdering(0 .. n)
           T == {0 .. x : x \in {y \in S : y <= n}}
<1>2. IsWellFoundedOn(R, SUBSET (0 .. n))
  <2>1. IsFiniteSet(0 .. n)
    BY <1>1, FS_Interval
  <2>2. FiniteSubsetsOf(0 .. n) = SUBSET (0 .. n)
    BY <2>1, FS_FiniteSubsetsOfFinite, Zenon
  <2>3. IsWellFoundedOn(R, FiniteSubsetsOf(0 .. n))
    BY FS_StrictSubsetOrderingWellFounded, Zenon
  <2> QED
    BY <2>2, <2>3, Zenon
<1>3. T \subseteq SUBSET (0 .. n) /\ T # {}
  BY <1>1
<1>4. PICK t \in T : \A u \in T : ~(<<u, t>> \in R)
  BY <1>2, <1>3, WFMin
<1>5. PICK x \in S : x <= n /\ t = 0 .. x
  BY <1>4
<1>6. ASSUME NEW y \in S, ~(x <= y) PROVE FALSE
  <2>1. 0 .. y \in T /\ 0 .. y \subseteq t /\ x \in t /\ x \notin 0 .. y
    BY <1>1, <1>5, <1>6
  <2> QED
    BY <1>3, <1>4, <2>1 DEF StrictSubsetOrdering
<1> QED
  BY <1>5, <1>6

-----------------------------------------------------------------------------
(* Sums *)

\* The sum of g over S.
Total(g, S) == MapThenSumSet(LAMBDA x : g[x], S)

\* f gives the sum of every subset of S, whichever element is taken first.
Additive(f, g, S) ==
    /\ f \in [SUBSET S -> Int]
    /\ f[{}] = 0
    /\ \A s \in SUBSET S : \A x \in s : f[s] = g[x] + f[s \ {x}]

LEMMA AdditiveExists ==
    ASSUME NEW S, IsFiniteSet(S), NEW g, \A x \in S : g[x] \in Int
    PROVE  \E f : Additive(f, g, S)
<1> DEFINE G == {T \in SUBSET S : \E f : Additive(f, g, T)}
<1>1. {} \in G
  <2>1. Additive([s \in SUBSET {} |-> 0], g, {})
    BY DEF Additive
  <2> QED
    BY <2>1
<1>2. ASSUME NEW T \in SUBSET S, NEW x \in S \ T, T \in G
      PROVE  T \union {x} \in G
  <2>1. PICK f : Additive(f, g, T)
    BY <1>2
  <2> DEFINE h == [s \in SUBSET (T \union {x}) |->
                      IF x \in s THEN g[x] + f[s \ {x}] ELSE f[s]]
  <2>2. ASSUME NEW s \in SUBSET (T \union {x})
        PROVE  /\ x \notin s => s \in SUBSET T /\ h[s] = f[s]
               /\ x \in s => s \ {x} \in SUBSET T /\ h[s] = g[x] + f[s \ {x}]
    OBVIOUS
  <2>3. h \in [SUBSET (T \union {x}) -> Int]
    BY <2>1 DEF Additive
  <2>4. h[{}] = 0
    BY <2>1 DEF Additive
  <2> HIDE DEF h
  <2>5. ASSUME NEW s \in SUBSET (T \union {x}), NEW y \in s
        PROVE  h[s] = g[y] + h[s \ {y}]
    <3>1. s \ {y} \in SUBSET (T \union {x})
      OBVIOUS
    <3>2. CASE x \notin s
      <4>1. s \in SUBSET T /\ h[s] = f[s] /\ h[s \ {y}] = f[s \ {y}]
        BY <2>2, <3>1, <3>2
      <4> QED
        BY <2>1, <4>1 DEF Additive
    <3>3. CASE x = y
      <4>1. h[s] = g[x] + f[s \ {x}] /\ h[s \ {x}] = f[s \ {x}]
        BY <2>2, <3>1, <3>3
      <4> QED
        BY <3>3, <4>1
    <3>4. CASE x \in s /\ x # y
      <4>1. /\ h[s] = g[x] + f[s \ {x}]
            /\ h[s \ {y}] = g[x] + f[(s \ {y}) \ {x}]
            /\ s \ {x} \in SUBSET T /\ y \in s \ {x} /\ (s \ {x}) \ {y} \in SUBSET T
        BY <2>2, <3>1, <3>4
      <4>2. f[s \ {x}] = g[y] + f[(s \ {x}) \ {y}]
        BY <2>1, <4>1 DEF Additive
      <4>3. (s \ {x}) \ {y} = (s \ {y}) \ {x}
        OBVIOUS
      <4>4. /\ g[x] \in Int /\ g[y] \in Int
            /\ f[(s \ {x}) \ {y}] \in Int
        BY <2>1, <4>1 DEF Additive
      <4>5. \A a, b, c \in Int : a + (b + c) = b + (a + c)
        OBVIOUS
      <4>6. h[s] = g[x] + (g[y] + f[(s \ {x}) \ {y}])
        BY <4>1, <4>2
      <4>7. h[s \ {y}] = g[x] + f[(s \ {x}) \ {y}]
        BY <4>1, <4>3
      <4> QED
        BY <4>4, <4>5, <4>6, <4>7
    <3> QED
      BY <3>2, <3>3, <3>4
  <2>6. Additive(h, g, T \union {x})
    BY <2>3, <2>4, <2>5 DEF Additive
  <2> QED
    BY <2>6
<1> HIDE DEF G
<1>3. S \in G
  BY <1>1, <1>2, FiniteInduction
<1> QED
  BY <1>3 DEF G

\* MapThenSumSet(Op, S) is iter[S] for a function iter that Sums, where g has
\* the values of Op.
Sums(iter, g, S) ==
    iter = [s \in SUBSET S |->
              IF s = {} THEN 0
              ELSE g[CHOOSE x \in s : TRUE] + iter[s \ {CHOOSE x \in s : TRUE}]]

LEMMA SumsExist ==
    ASSUME NEW S, IsFiniteSet(S), NEW g, \A x \in S : g[x] \in Int
    PROVE  \E iter : Sums(iter, g, S)
<1>1. PICK f : Additive(f, g, S)
  BY AdditiveExists
<1> DEFINE Picked(s) == CHOOSE x \in s : TRUE
<1>2. \A s \in SUBSET S : s # {} => Picked(s) \in s
  OBVIOUS
<1> HIDE DEF Picked
<1>3. f = [s \in SUBSET S |-> IF s = {} THEN 0 ELSE g[Picked(s)] + f[s \ {Picked(s)}]]
  BY <1>1, <1>2 DEF Additive
<1> QED
  BY <1>3 DEF Sums, Picked

LEMMA SumsAdditive ==
    ASSUME NEW S, IsFiniteSet(S), NEW g, NEW f, Additive(f, g, S),
           NEW iter, Sums(iter, g, S)
    PROVE  iter[S] = f[S]
<1> DEFINE Picked(s) == CHOOSE x \in s : TRUE
<1>1. \A s \in SUBSET S : s # {} => Picked(s) \in s
  OBVIOUS
<1>2. iter = [s \in SUBSET S |-> IF s = {} THEN 0 ELSE g[Picked(s)] + iter[s \ {Picked(s)}]]
  BY DEF Sums
<1> HIDE DEF Picked
<1> DEFINE G == {T \in SUBSET S : iter[T] = f[T]}
<1>3. ASSUME NEW T \in SUBSET S, \A U \in (SUBSET T) \ {T} : U \in G
      PROVE  T \in G
  <2>1. CASE T = {}
    BY <1>2, <2>1 DEF Additive
  <2>2. CASE T # {}
    <3>1. T \ {Picked(T)} \in G
      BY <1>1, <1>3, <2>2
    <3>2. iter[T] = g[Picked(T)] + iter[T \ {Picked(T)}]
      BY <1>2, <2>2
    <3> QED
      BY <1>1, <2>2, <3>1, <3>2 DEF Additive
  <2> QED
    BY <2>1, <2>2
<1> HIDE DEF G
<1>4. S \in G
  BY <1>3, SubsetInduction
<1> QED
  BY <1>4 DEF G

\* The sum does not depend on the order.
LEMMA TotalIsAdditive ==
    ASSUME NEW S, IsFiniteSet(S), NEW g, \A x \in S : g[x] \in Int,
           NEW f, Additive(f, g, S)
    PROVE  Total(g, S) = f[S]
<1> DEFINE iter == CHOOSE h : Sums(h, g, S)
<1>1. Total(g, S) = iter[S]
  BY DEF Total, MapThenSumSet, MapThenFoldSet, Sums
<1>2. Sums(iter, g, S)
  BY SumsExist
<1> HIDE DEF iter
<1> QED
  BY <1>1, <1>2, SumsAdditive

LEMMA SumsTotal ==
    ASSUME NEW S, IsFiniteSet(S), NEW g, \A x \in S : g[x] \in Int,
           NEW iter, Sums(iter, g, S)
    PROVE  iter[S] = Total(g, S)
<1>1. PICK f : Additive(f, g, S)
  BY AdditiveExists
<1> QED
  BY <1>1, SumsAdditive, TotalIsAdditive

LEMMA TotalEmpty ==
    ASSUME NEW g
    PROVE  Total(g, {}) = 0
<1>1. Additive([s \in SUBSET {} |-> 0], g, {})
  BY DEF Additive
<1> QED
  BY <1>1, FS_EmptySet, TotalIsAdditive

LEMMA TotalWith ==
    ASSUME NEW S, IsFiniteSet(S), NEW x, x \notin S, NEW g,
           g[x] \in Int, \A y \in S : g[y] \in Int
    PROVE  Total(g, S) \in Int /\ Total(g, S \union {x}) = g[x] + Total(g, S)
<1>1. IsFiniteSet(S \union {x})
  BY FS_AddElement
<1>2. PICK f : Additive(f, g, S \union {x})
  BY <1>1, AdditiveExists
<1> DEFINE h == [s \in SUBSET S |-> f[s]]
<1>3. Additive(h, g, S)
  BY <1>2 DEF Additive
<1>4. Total(g, S) = f[S] /\ f[S] \in Int
  <2>1. Total(g, S) = h[S]
    BY <1>3, TotalIsAdditive
  <2> QED
    BY <1>2, <2>1 DEF Additive
<1>5. Total(g, S \union {x}) = f[S \union {x}]
  BY <1>1, <1>2, TotalIsAdditive
<1>6. f[S \union {x}] = g[x] + f[S]
  <2>1. (S \union {x}) \ {x} = S
    OBVIOUS
  <2> QED
    BY <1>2, <2>1 DEF Additive
<1> QED
  BY <1>4, <1>5, <1>6

LEMMA TotalType ==
    ASSUME NEW S, IsFiniteSet(S), NEW g, \A x \in S : g[x] \in Int
    PROVE  Total(g, S) \in Int
<1>1. PICK f : Additive(f, g, S)
  BY AdditiveExists
<1>2. Total(g, S) = f[S]
  BY <1>1, TotalIsAdditive
<1> QED
  BY <1>1, <1>2 DEF Additive

LEMMA TotalWithout ==
    ASSUME NEW S, IsFiniteSet(S), NEW x \in S, NEW g, \A y \in S : g[y] \in Int
    PROVE  Total(g, S) = g[x] + Total(g, S \ {x})
<1>1. IsFiniteSet(S \ {x}) /\ (S \ {x}) \union {x} = S
  BY FS_RemoveElement
<1> QED
  BY <1>1, TotalWith

\* The sum is that of the two parts.
LEMMA TotalPlus ==
    ASSUME NEW S, IsFiniteSet(S), NEW f, NEW g, NEW h,
           \A x \in S : f[x] \in Int /\ g[x] \in Int /\ h[x] = f[x] + g[x]
    PROVE  Total(h, S) = Total(f, S) + Total(g, S)
<1> DEFINE G == {T \in SUBSET S : Total(h, T) = Total(f, T) + Total(g, T)}
<1>1. {} \in G
  BY TotalEmpty
<1>2. ASSUME NEW T \in SUBSET S, NEW x \in S \ T, T \in G
      PROVE  T \union {x} \in G
  <2>1. /\ IsFiniteSet(T) /\ f[x] \in Int /\ g[x] \in Int /\ h[x] = f[x] + g[x]
        /\ \A y \in T : f[y] \in Int /\ g[y] \in Int /\ h[y] \in Int
        /\ x \notin T /\ h[x] \in Int
    BY FS_Subset
  <2>2. /\ Total(f, T) \in Int /\ Total(f, T \union {x}) = f[x] + Total(f, T)
        /\ Total(g, T) \in Int /\ Total(g, T \union {x}) = g[x] + Total(g, T)
    BY <2>1, TotalWith
  <2>3. Total(h, T \union {x}) = h[x] + Total(h, T)
    <3> HIDE DEF G
    <3> QED
      BY <2>1, TotalWith
  <2>4. Total(h, T) = Total(f, T) + Total(g, T)
    BY <1>2
  <2>5. Total(h, T \union {x}) = Total(f, T \union {x}) + Total(g, T \union {x})
    BY <2>1, <2>2, <2>3, <2>4
  <2> QED
    BY <2>5
<1> HIDE DEF G
<1>3. S \in G
  BY <1>1, <1>2, FiniteInduction
<1> QED
  BY <1>3 DEF G

LEMMA TotalAtMost ==
    ASSUME NEW S, IsFiniteSet(S), NEW f, NEW g,
           \A x \in S : f[x] \in Int /\ g[x] \in Int /\ f[x] <= g[x]
    PROVE  Total(f, S) <= Total(g, S)
<1> DEFINE G == {T \in SUBSET S : Total(f, T) <= Total(g, T)}
<1>1. {} \in G
  BY TotalEmpty
<1>2. ASSUME NEW T \in SUBSET S, NEW x \in S \ T, T \in G
      PROVE  T \union {x} \in G
  <2>1. /\ IsFiniteSet(T) /\ f[x] \in Int /\ g[x] \in Int /\ f[x] <= g[x]
        /\ \A y \in T : f[y] \in Int /\ g[y] \in Int
    BY FS_Subset
  <2>2. /\ Total(f, T) \in Int /\ Total(f, T \union {x}) = f[x] + Total(f, T)
        /\ Total(g, T) \in Int /\ Total(g, T \union {x}) = g[x] + Total(g, T)
    BY <2>1, TotalWith
  <2>3. Total(f, T) <= Total(g, T)
    BY <1>2
  <2>4. Total(f, T \union {x}) <= Total(g, T \union {x})
    BY <2>1, <2>2, <2>3
  <2> QED
    BY <2>4
<1> HIDE DEF G
<1>3. S \in G
  BY <1>1, <1>2, FiniteInduction
<1> QED
  BY <1>3 DEF G

LEMMA TotalSame ==
    ASSUME NEW S, IsFiniteSet(S), NEW f, NEW g,
           \A x \in S : f[x] \in Int /\ f[x] = g[x]
    PROVE  Total(f, S) = Total(g, S)
<1>1. \A x \in S : g[x] \in Int /\ f[x] <= g[x] /\ g[x] <= f[x]
  OBVIOUS
<1>2. Total(f, S) <= Total(g, S) /\ Total(g, S) <= Total(f, S)
  BY <1>1, TotalAtMost
<1>3. Total(f, S) \in Int /\ Total(g, S) \in Int
  BY <1>1, TotalType
<1> QED
  BY <1>2, <1>3

\* A sum changes by d when the entry of one element does.
LEMMA TotalChanged ==
    ASSUME NEW S, IsFiniteSet(S), NEW f, NEW g, NEW x \in S, NEW d \in Int,
           \A y \in S : f[y] \in Int /\ g[y] = IF y = x THEN f[y] + d ELSE f[y]
    PROVE  Total(g, S) = Total(f, S) + d
<1>1. \A y \in S : g[y] \in Int
  OBVIOUS
<1>2. IsFiniteSet(S \ {x})
  BY FS_RemoveElement
<1>3. /\ Total(f, S) = f[x] + Total(f, S \ {x})
      /\ Total(g, S) = g[x] + Total(g, S \ {x})
  BY <1>1, TotalWithout
<1>4. Total(f, S \ {x}) = Total(g, S \ {x})
  BY <1>2, TotalSame
<1>5. Total(f, S \ {x}) \in Int
  BY <1>2, TotalType
<1> QED
  BY <1>3, <1>4, <1>5

\* Zeros do not count.
LEMMA TotalOfPart ==
    ASSUME NEW S, IsFiniteSet(S), NEW P \in SUBSET S, NEW g,
           \A x \in S : g[x] \in Int, \A x \in S \ P : g[x] = 0
    PROVE  Total(g, S) = Total(g, P)
<1> DEFINE G == {T \in SUBSET S : Total(g, T) = Total(g, T \intersect P)}
<1>1. {} \in G
  <2>1. {} \intersect P = {}
    OBVIOUS
  <2> QED
    BY <2>1
<1>2. ASSUME NEW T \in SUBSET S, NEW x \in S \ T, T \in G
      PROVE  T \union {x} \in G
  <2>1. /\ IsFiniteSet(T) /\ IsFiniteSet(T \intersect P) /\ x \notin T /\ x \notin T \intersect P
        /\ g[x] \in Int /\ \A y \in T : g[y] \in Int
    BY FS_Subset, FS_Intersection
  <2>2. /\ Total(g, T) \in Int /\ Total(g, T \union {x}) = g[x] + Total(g, T)
    BY <2>1, TotalWith
  <2>3. Total(g, (T \intersect P) \union {x}) = g[x] + Total(g, T \intersect P)
    BY <2>1, TotalWith
  <2>4. Total(g, T) = Total(g, T \intersect P)
    BY <1>2
  <2>5. Total(g, T \union {x}) = Total(g, (T \union {x}) \intersect P)
    <3>1. CASE x \in P
      <4>1. (T \union {x}) \intersect P = (T \intersect P) \union {x}
        BY <3>1
      <4> QED
        BY <2>2, <2>3, <2>4, <4>1
    <3>2. CASE x \notin P
      <4>1. (T \union {x}) \intersect P = T \intersect P /\ g[x] = 0
        BY <3>2
      <4>2. Total(g, T \union {x}) = Total(g, T)
        BY <2>1, <2>2, <4>1
      <4> QED
        BY <2>4, <4>1, <4>2, Zenon
    <3> QED
      BY <3>1, <3>2
  <2> QED
    BY <2>5
<1> HIDE DEF G
<1>3. S \in G
  BY <1>1, <1>2, FiniteInduction
<1>4. S \intersect P = P
  OBVIOUS
<1> QED
  BY <1>3, <1>4 DEF G

\* The sum over the image of an injection r.
LEMMA TotalRenamed ==
    ASSUME NEW S, IsFiniteSet(S), NEW r, NEW f, NEW g,
           \A x \in S : f[x] \in Int /\ g[r[x]] = f[x],
           \A x, y \in S : r[x] = r[y] => x = y
    PROVE  Total(f, S) = Total(g, {r[x] : x \in S})
<1> DEFINE Image(T) == {r[x] : x \in T}
           G == {T \in SUBSET S : IsFiniteSet(Image(T)) /\ Total(f, T) = Total(g, Image(T))}
<1>1. {} \in G
  <2>1. Image({}) = {}
    OBVIOUS
  <2> QED
    BY <2>1, FS_EmptySet, TotalEmpty
<1>2. ASSUME NEW T \in SUBSET S, NEW x \in S \ T, T \in G
      PROVE  T \union {x} \in G
  <2>1. /\ IsFiniteSet(T) /\ IsFiniteSet(Image(T)) /\ Total(f, T) = Total(g, Image(T))
        /\ f[x] \in Int /\ g[r[x]] = f[x] /\ \A y \in T : f[y] \in Int
    BY <1>2, FS_Subset
  <2>2. r[x] \notin Image(T) /\ Image(T \union {x}) = Image(T) \union {r[x]}
    OBVIOUS
  <2>3. \A z \in Image(T) : g[z] \in Int
    OBVIOUS
  <2> HIDE DEF Image, G
  <2>4. Total(f, T \union {x}) = f[x] + Total(f, T)
    BY <2>1, TotalWith
  <2>5. Total(g, Image(T) \union {r[x]}) = g[r[x]] + Total(g, Image(T))
    <3> DEFINE y == r[x]
    <3>1. y \notin Image(T) /\ g[y] \in Int
      BY <2>1, <2>2
    <3> HIDE DEF y
    <3>2. Total(g, Image(T) \union {y}) = g[y] + Total(g, Image(T))
      BY <2>1, <2>3, <3>1, TotalWith
    <3> QED
      BY <3>2 DEF y
  <2>6. IsFiniteSet(Image(T \union {x}))
    <3>1. IsFiniteSet(Image(T) \union {r[x]})
      BY <2>1, FS_AddElement, Zenon
    <3> QED
      BY <2>2, <3>1
  <2> QED
    BY <2>1, <2>2, <2>4, <2>5, <2>6 DEF G
<1> HIDE DEF G
<1>3. S \in G
  BY <1>1, <1>2, FiniteInduction
<1> QED
  BY <1>3 DEF G

-----------------------------------------------------------------------------
(* Folds over sequences *)

\* The largest index.
LEMMA MaxOfPrefix ==
    ASSUME NEW k \in Nat, NEW T \in SUBSET (1 .. k), k \in T
    PROVE  Max(T) = k
<1>1. \A y \in T : k >= y
  OBVIOUS
<1>2. \A x \in T : (\A y \in T : x >= y) => x = k
  OBVIOUS
<1> QED
  BY <1>1, <1>2 DEF Max

LEMMA MaxInPrefix ==
    ASSUME NEW n \in Nat, NEW T \in SUBSET (1 .. n), T # {}
    PROVE  Max(T) \in T /\ \A x \in T : x <= Max(T)
<1> DEFINE G == {k \in 0 .. n : \A U \in SUBSET (1 .. k) :
                   U # {} => \E x \in U : \A y \in U : x >= y}
<1>1. 0 \in G
  <2>1. 1 .. 0 = {}
    OBVIOUS
  <2>2. \A U \in SUBSET (1 .. 0) : U # {} => \E x \in U : \A y \in U : x >= y
    BY <2>1
  <2>3. 0 \in 0 .. n
    OBVIOUS
  <2> QED
    BY <2>2, <2>3
<1>2. ASSUME NEW k \in 0 .. (n - 1), k \in G
      PROVE  k + 1 \in G
  <2>1. ASSUME NEW U \in SUBSET (1 .. (k + 1)), U # {}
        PROVE  \E x \in U : \A y \in U : x >= y
    <3>1. CASE k + 1 \in U
      BY <3>1
    <3>2. CASE k + 1 \notin U
      <4>1. U \in SUBSET (1 .. k)
        BY <3>2
      <4> QED
        BY <1>2, <2>1, <4>1
    <3> QED
      BY <3>1, <3>2
  <2> QED
    BY <2>1
<1> HIDE DEF G
<1>3. n \in G
  BY <1>1, <1>2, PrefixInduction
<1>4. \E x \in T : \A y \in T : x >= y
  BY <1>3 DEF G
<1> QED
  BY <1>4 DEF Max

\* FoldLeft(Op, base, s) is iter[1 .. n] for a function iter that Iterates,
\* where n is the length of s and step has the values Op(e, s[i]).
Iterates(iter, base, step, n) ==
    iter = [T \in SUBSET (1 .. n) |->
              IF T = {} THEN base ELSE step[Max(T)][iter[T \ {Max(T)}]]]

LEMMA IteratesExist ==
    ASSUME NEW n \in Nat, NEW E, NEW base \in E,
           NEW step \in [1 .. n -> [E -> E]]
    PROVE  \E iter \in [SUBSET (1 .. n) -> E] : Iterates(iter, base, step, n)
<1> DEFINE Exists(k) == \E iter \in [SUBSET (1 .. k) -> E] :
                           Iterates(iter, base, step, k)
           G == {k \in 0 .. n : Exists(k)}
<1>1. Exists(0)
  <2> DEFINE iter == [T \in SUBSET (1 .. 0) |-> base]
  <2>1. \A T \in SUBSET (1 .. 0) : T = {}
    OBVIOUS
  <2>2. iter \in [SUBSET (1 .. 0) -> E] /\ Iterates(iter, base, step, 0)
    BY <2>1 DEF Iterates
  <2> QED
    BY <2>2
<1>2. ASSUME NEW k \in 0 .. n, k + 1 <= n, Exists(k)
      PROVE  Exists(k + 1)
  <2>1. PICK f \in [SUBSET (1 .. k) -> E] : Iterates(f, base, step, k)
    BY <1>2
  <2> DEFINE h == [T \in SUBSET (1 .. (k + 1)) |->
                     IF k + 1 \in T THEN step[k + 1][f[T \ {k + 1}]] ELSE f[T]]
  <2>2. ASSUME NEW T \in SUBSET (1 .. (k + 1))
        PROVE  /\ k + 1 \in T => /\ T \ {k + 1} \in SUBSET (1 .. k)
                                 /\ h[T] = step[k + 1][f[T \ {k + 1}]]
                                 /\ h[T \ {k + 1}] = f[T \ {k + 1}]
                                 /\ Max(T) = k + 1
                                 /\ h[T] \in E
               /\ k + 1 \notin T => T \in SUBSET (1 .. k) /\ h[T] = f[T] /\ h[T] \in E
    <3>1. CASE k + 1 \in T
      <4>1. T \ {k + 1} \in SUBSET (1 .. k)
        OBVIOUS
      <4>2. Max(T) = k + 1
        BY <1>2, <3>1, MaxOfPrefix
      <4>3. T \ {k + 1} \in SUBSET (1 .. (k + 1)) /\ k + 1 \notin T \ {k + 1}
        OBVIOUS
      <4>4. f[T \ {k + 1}] \in E /\ k + 1 \in 1 .. n
        BY <1>2, <4>1
      <4>5. step[k + 1][f[T \ {k + 1}]] \in E
        BY <4>4
      <4> QED
        BY <3>1, <4>1, <4>2, <4>3, <4>5
    <3>2. CASE k + 1 \notin T
      <4>1. T \in SUBSET (1 .. k)
        BY <3>2
      <4> QED
        BY <3>2, <4>1
    <3> QED
      BY <3>1, <3>2
  <2>3. h \in [SUBSET (1 .. (k + 1)) -> E]
    <3>1. \A T \in SUBSET (1 .. (k + 1)) : h[T] \in E
      BY <2>2
    <3> QED
      BY <3>1
  <2>4. h = [T \in SUBSET (1 .. (k + 1)) |-> h[T]]
    OBVIOUS
  <2> HIDE DEF h
  <2>5. ASSUME NEW T \in SUBSET (1 .. (k + 1))
        PROVE  h[T] = IF T = {} THEN base ELSE step[Max(T)][h[T \ {Max(T)}]]
    <3>1. CASE k + 1 \in T
      BY <2>2, <3>1
    <3>2. CASE T = {}
      BY <2>1, <2>2, <3>2 DEF Iterates
    <3>3. CASE k + 1 \notin T /\ T # {}
      <4>1. T \in SUBSET (1 .. k) /\ h[T] = f[T]
        BY <2>2, <3>3
      <4>2. f[T] = step[Max(T)][f[T \ {Max(T)}]]
        BY <2>1, <3>3, <4>1 DEF Iterates
      <4>3. T \ {Max(T)} \in SUBSET (1 .. (k + 1)) /\ k + 1 \notin T \ {Max(T)}
        BY <3>3
      <4>4. h[T \ {Max(T)}] = f[T \ {Max(T)}]
        BY <2>2, <4>3
      <4> QED
        BY <3>3, <4>1, <4>2, <4>4
    <3> QED
      BY <3>1, <3>2, <3>3
  <2>6. Iterates(h, base, step, k + 1)
    BY <2>4, <2>5 DEF Iterates
  <2> QED
    BY <2>3, <2>6
<1> HIDE DEF Exists
<1>3. n \in G
  <2>1. 0 \in G
    BY <1>1
  <2>2. \A k \in 0 .. (n - 1) : k \in G => k + 1 \in G
    BY <1>2
  <2> HIDE DEF G
  <2> QED
    BY <2>1, <2>2, PrefixInduction
<1> QED
  BY <1>3 DEF Exists

\* Along the prefixes of the sequence such a function stays in E and takes one
\* step after the other.
Stepwise(iter, base, step, n, E) ==
    /\ iter[1 .. 0] = base
    /\ \A k \in 1 .. n : iter[1 .. (k - 1)] \in E
                         => iter[1 .. k] = step[k][iter[1 .. (k - 1)]]

Course(g, base, step, n) ==
    /\ g[0] = base
    /\ \A k \in 1 .. n : g[k] = step[k][g[k - 1]]

LEMMA IteratesAlong ==
    ASSUME NEW n \in Nat, NEW E, NEW base \in E,
           NEW step \in [1 .. n -> [E -> E]],
           NEW iter, Stepwise(iter, base, step, n, E)
    PROVE  \E g \in [0 .. n -> E] : Course(g, base, step, n) /\ g[n] = iter[1 .. n]
<1> USE DEF Stepwise
<1> DEFINE g == [k \in 0 .. n |-> iter[1 .. k]]
           G == {k \in 0 .. n : \A j \in 0 .. k : iter[1 .. j] \in E}
<1>1. n \in G
  <2>1. 0 \in G
    OBVIOUS
  <2>2. ASSUME NEW k \in 0 .. (n - 1), k \in G
        PROVE  k + 1 \in G
    <3> DEFINE m == k + 1
    <3>1. m \in 1 .. n /\ m - 1 = k
      OBVIOUS
    <3>2. iter[1 .. (m - 1)] \in E
      BY <2>2, <3>1
    <3>3. step[m] \in [E -> E]
      BY <3>1
    <3>4. iter[1 .. m] \in E
      BY <3>1, <3>2, <3>3
    <3>5. \A j \in 0 .. m : j = m \/ j \in 0 .. k
      OBVIOUS
    <3> QED
      BY <2>2, <3>1, <3>4, <3>5
  <2> HIDE DEF G
  <2> QED
    BY <2>1, <2>2, PrefixInduction
<1>2. g \in [0 .. n -> E]
  BY <1>1
<1>3. ASSUME NEW k \in 1 .. n
      PROVE  g[k] = step[k][g[k - 1]]
  <2>1. k - 1 \in 0 .. n /\ g[k - 1] = iter[1 .. (k - 1)]
    OBVIOUS
  <2>2. iter[1 .. (k - 1)] \in E
    BY <1>1, <2>1
  <2> QED
    BY <2>1, <2>2
<1>4. g[0] = base /\ g[n] = iter[1 .. n]
  OBVIOUS
<1> HIDE DEF g
<1>5. Course(g, base, step, n)
  BY <1>3, <1>4 DEF Course
<1> QED
  BY <1>2, <1>4, <1>5

\* The initial segments, as Iterates takes them apart.
LEMMA PrefixWithoutMax ==
    ASSUME NEW k \in Nat, k # 0
    PROVE  /\ 1 .. k # {} /\ Max(1 .. k) = k
           /\ (1 .. k) \ {k} = 1 .. (k - 1)
<1>1. k \in 1 .. k
  OBVIOUS
<1>2. Max(1 .. k) = k
  BY <1>1, MaxOfPrefix
<1> QED
  BY <1>1, <1>2
===============================================================================
