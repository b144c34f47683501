-------------------------- MODULE FlowExecutor_proofs --------------------------
(***************************************************************************)
(* Theorems about FlowExecutor, for every body, batch size and number of   *)
(* fields.  The first part is about the planner and the merge: the groups  *)
(* are intervals of independent steps, and merging the results of a group  *)
(* gives the state its steps would have built one after the other.  The    *)
(* second is about the executor, which runs groups, batches and tasks.     *)
(***************************************************************************)
EXTENDS FlowExecutor, FoldTheorems

-----------------------------------------------------------------------------
(* The planner's groups *)

GroupsOf(b, start) ==
    \A i \in Indices :
        start[i] = IF i = 1 THEN 1
                   ELSE IF CanShareGroup({b[j] : j \in start[i - 1]..(i - 1)}, b[i])
                        THEN start[i - 1] ELSE i

\* The recursion of the planner has a solution, step by step.
LEMMA GroupStartsRecursion ==
    ASSUME NEW b
    PROVE  GroupsOf(b, GroupStarts(b))
<1> DEFINE Body(f, i) ==
             IF i = 1 THEN 1
             ELSE IF CanShareGroup({b[j] : j \in f[i - 1]..(i - 1)}, b[i])
                  THEN f[i - 1] ELSE i
           Solves(f, k) == f = [i \in 1..k |-> Body(f, i)]
           G == {k \in 0..Length : \E f : Solves(f, k)}
<1>0. Length \in Nat
  BY ConstantsAssumption
<1>1. 0 \in G
  <2>1. Solves([i \in 1..0 |-> 1], 0)
    <3>1. 1..0 = {}
      OBVIOUS
    <3> QED
      BY <3>1
  <2> HIDE DEF Solves
  <2> QED
    BY <1>0, <2>1
<1>2. ASSUME NEW k \in 0..(Length - 1), k \in G
      PROVE  k + 1 \in G
  <2>1. PICK f : Solves(f, k)
    BY <1>2
  <2>2. \A i \in 1..k : f[i] = Body(f, i)
    <3> HIDE DEF Body
    <3> QED
      BY <2>1
  <2> DEFINE m == k + 1
             g == [i \in 1..m |-> IF i = m THEN Body(f, m) ELSE f[i]]
  <2>3. m \in 0..Length /\ m - 1 = k /\ m # 0
    BY <1>0
  <2>4. ASSUME NEW i \in 1..m
        PROVE  g[i] = Body(g, i)
    <3>1. i # 1 => i - 1 \in 1..m /\ i - 1 # m /\ i - 1 \in 1..k
      OBVIOUS
    <3>2. i # 1 => g[i - 1] = f[i - 1]
      BY <3>1
    <3>3. Body(g, i) = Body(f, i)
      BY <3>2
    <3>4. i # m => i \in 1..k
      OBVIOUS
    <3> HIDE DEF Body
    <3> QED
      BY <2>2, <3>3, <3>4
  <2>5. g = [i \in 1..m |-> g[i]]
    OBVIOUS
  <2> HIDE DEF g, Body
  <2>6. Solves(g, m)
    BY <2>4, <2>5
  <2> QED
    BY <2>3, <2>6
<1>3. Length \in G
  <2> HIDE DEF G
  <2> QED
    BY <1>0, <1>1, <1>2, PrefixInduction
<1>4. \E f : Solves(f, Length)
  BY <1>3
<1>5. GroupStarts(b) = CHOOSE f : Solves(f, Length)
  BY DEF GroupStarts, Indices
<1>6. Solves(GroupStarts(b), Length)
  BY <1>4, <1>5
<1> QED
  BY <1>6 DEF GroupsOf, Indices

\* A group begins no later than its steps, and holds all steps from there on.
LEMMA GroupsAreIntervals ==
    ASSUME NEW b, NEW start, GroupsOf(b, start)
    PROVE  \A i \in Indices : /\ start[i] \in 1..i
                              /\ \A j \in start[i]..i : start[j] = start[i]
<1> DEFINE Whole(i) == /\ start[i] \in 1..i
                       /\ \A j \in start[i]..i : start[j] = start[i]
           G == {k \in 0..Length : \A i \in 1..k : Whole(i)}
<1>0. Length \in Nat
  BY ConstantsAssumption
<1>1. 0 \in G
  <2>1. 1..0 = {}
    OBVIOUS
  <2> QED
    BY <1>0, <2>1
<1>2. ASSUME NEW k \in 0..(Length - 1), k \in G
      PROVE  k + 1 \in G
  <2> DEFINE m == k + 1
  <2>1. m \in Indices /\ m - 1 = k
    BY <1>0 DEF Indices
  <2>2. start[m] = IF m = 1 THEN 1
                   ELSE IF CanShareGroup({b[j] : j \in start[m - 1]..(m - 1)}, b[m])
                        THEN start[m - 1] ELSE m
    BY <2>1 DEF GroupsOf
  <2>3. start[m] = m \/ (m # 1 /\ start[m] = start[k])
    BY <2>1, <2>2, Zenon
  <2>4. CASE start[m] = m
    <3>1. \A j \in m..m : j = m
      OBVIOUS
    <3>2. Whole(m)
      BY <2>4, <3>1
    <3>3. \A i \in 1..m : i = m \/ i \in 1..k
      OBVIOUS
    <3> HIDE DEF Whole
    <3> QED
      BY <1>2, <2>1, <3>2, <3>3 DEF Indices
  <2>5. CASE m # 1 /\ start[m] = start[k]
    <3>1. k \in 1..k /\ Whole(k)
      BY <1>2, <2>5
    <3>2. \A j \in start[k]..m : j = m \/ j \in start[k]..k
      BY <3>1
    <3>3. Whole(m)
      BY <2>5, <3>1, <3>2
    <3>4. \A i \in 1..m : i = m \/ i \in 1..k
      OBVIOUS
    <3> HIDE DEF Whole
    <3> QED
      BY <1>2, <2>1, <3>3, <3>4 DEF Indices
  <2> QED
    BY <2>3, <2>4, <2>5
<1>3. Length \in G
  <2> HIDE DEF G
  <2> QED
    BY <1>0, <1>1, <1>2, PrefixInduction
<1> QED
  BY <1>3 DEF Indices

\* The group that starts at a.
GroupAt(b, a) == {i \in Indices : GroupStarts(b)[i] = a}

Independent(s, t) ==
    /\ ~IsBarrier(s) /\ ~IsBarrier(t)
    /\ t.writes \notin s.declared /\ s.writes \notin t.declared
    /\ t.writes # s.writes

LEMMA GroupShape ==
    ASSUME NEW b, NEW a \in Indices, a \in GroupAt(b, a)
    PROVE  \E m \in Indices :
             /\ a <= m /\ GroupAt(b, a) = a..m /\ Max(GroupAt(b, a)) = m
             /\ m + 1 \in Indices => m + 1 \in GroupAt(b, m + 1)
             /\ \A i, j \in a..m : j < i => Independent(b[i], b[j])
<1> DEFINE start == GroupStarts(b)
           G == GroupAt(b, a)
           m == Max(G)
<1>0. Length \in Nat
  BY ConstantsAssumption
<1>1. GroupsOf(b, start)
  BY GroupStartsRecursion
<1>2. \A i \in Indices : start[i] \in 1..i /\ \A j \in start[i]..i : start[j] = start[i]
  BY <1>1, GroupsAreIntervals
<1>3. G \in SUBSET (1..Length) /\ a \in G
  BY DEF GroupAt, Indices
<1>4. m \in G /\ \A i \in G : i <= m
  BY <1>0, <1>3, MaxInPrefix
<1>5. m \in Indices /\ start[m] = a /\ start[a] = a /\ a \in 1..m
  <2>1. m \in Indices /\ start[m] = a /\ start[a] = a
    BY <1>4 DEF GroupAt
  <2> QED
    BY <1>2, <2>1
<1>6. \A i \in G : i \in a..m
  BY <1>2, <1>4, <1>5 DEF GroupAt, Indices
<1>7. \A i \in a..m : i \in G /\ start[i] = a
  <2> SUFFICES ASSUME NEW i \in a..m PROVE i \in Indices /\ start[i] = a
    BY DEF GroupAt
  <2>1. i \in Indices
    BY <1>0, <1>5 DEF Indices
  <2> QED
    BY <1>2, <1>5, <2>1
<1>8. GroupAt(b, a) = a..m
  BY <1>6, <1>7
<1> HIDE DEF start, G, m
<1>9. ASSUME m + 1 \in Indices
      PROVE  m + 1 \in GroupAt(b, m + 1)
  <2> DEFINE n == m + 1
  <2>1. n \in Indices /\ n # 1 /\ n - 1 = m
    BY <1>5, <1>9 DEF Indices
  <2>2. start[n] = IF n = 1 THEN 1
                   ELSE IF CanShareGroup({b[j] : j \in start[n - 1]..(n - 1)}, b[n])
                        THEN start[n - 1] ELSE n
    BY <1>1, <2>1 DEF GroupsOf
  <2>3. start[n] = n \/ start[n] = a
    BY <1>5, <2>1, <2>2
  <2>4. start[n] # a
    <3> SUFFICES ASSUME start[n] = a PROVE FALSE
      OBVIOUS
    <3>1. n \in G
      BY <2>1 DEF G, start, GroupAt
    <3> QED
      BY <1>4, <1>5, <3>1 DEF Indices
  <2> QED
    BY <2>1, <2>3, <2>4 DEF start, GroupAt
<1>10. ASSUME NEW i \in a..m, NEW j \in a..m, j < i
       PROVE  Independent(b[i], b[j])
  <2>1. /\ i \in Indices /\ i # 1 /\ start[i] = a /\ start[i] # i
        /\ i - 1 \in a..m /\ start[i - 1] = a /\ j \in a..(i - 1)
    <3>1. i # 1 /\ i - 1 \in a..m /\ j \in a..(i - 1) /\ a # i
      BY <1>5, <1>10 DEF Indices
    <3> QED
      BY <1>5, <1>7, <3>1 DEF G, GroupAt
  <2>2. start[i] = IF i = 1 THEN 1
                   ELSE IF CanShareGroup({b[k] : k \in start[i - 1]..(i - 1)}, b[i])
                        THEN start[i - 1] ELSE i
    BY <1>1, <2>1 DEF GroupsOf
  <2>3. CanShareGroup({b[k] : k \in a..(i - 1)}, b[i])
    BY <2>1, <2>2
  <2>4. b[j] \in {b[k] : k \in a..(i - 1)}
    BY <2>1
  <2> QED
    BY <2>3, <2>4 DEF CanShareGroup, Independent, Intersects, IsBarrier, Produces
<1> QED
  BY <1>4, <1>5, <1>8, <1>9, <1>10 DEF m, G, Indices
-----------------------------------------------------------------------------
(* What steps compute, and the merge *)

\* Result and Sequentially, for a body b in pass n.
ValueOf(b, n, i, s) == <<n, i, Seen(s, b[i].reads)>>
ResultOf(b, n, i, s) ==
    LET kept == IF b[i].kind = "returns" THEN {} ELSE DOMAIN s
    IN  [f \in kept \union {b[i].writes} |->
            IF f = b[i].writes THEN ValueOf(b, n, i, s) ELSE s[f]]
After(b, n, s0) ==
    LET after[i \in 0..Length] ==
            IF i = 0 THEN s0 ELSE ResultOf(b, n, i, after[i - 1])
    IN  after

LEMMA AfterRecursion ==
    ASSUME NEW b, NEW n, NEW s0
    PROVE  /\ After(b, n, s0)[0] = s0
           /\ \A i \in Indices :
                After(b, n, s0)[i] = ResultOf(b, n, i, After(b, n, s0)[i - 1])
<1> DEFINE Body(f, i) == IF i = 0 THEN s0 ELSE ResultOf(b, n, i, f[i - 1])
           Solves(f, k) == f = [i \in 0..k |-> Body(f, i)]
           G == {k \in 0..Length : \E f : Solves(f, k)}
<1>0. Length \in Nat
  BY ConstantsAssumption
<1>1. 0 \in G
  <2> DEFINE f == [i \in 0..0 |-> s0]
  <2>1. f = [i \in 0..0 |-> Body(f, i)]
    BY DEF f
  <2>2. Solves(f, 0)
    BY <2>1
  <2> HIDE DEF Solves
  <2> QED
    BY <1>0, <2>2
<1>2. ASSUME NEW k \in 0..(Length - 1), k \in G
      PROVE  k + 1 \in G
  <2>1. PICK f : Solves(f, k)
    BY <1>2
  <2>2. \A i \in 0..k : f[i] = Body(f, i)
    <3> HIDE DEF Body
    <3> QED
      BY <2>1
  <2> DEFINE m == k + 1
             g == [i \in 0..m |-> IF i = m THEN Body(f, m) ELSE f[i]]
  <2>3. m \in 0..Length /\ m - 1 = k /\ m # 0
    BY <1>0
  <2>4. ASSUME NEW i \in 0..m
        PROVE  g[i] = Body(g, i)
    <3>1. i # 0 => i - 1 \in 0..m /\ i - 1 # m /\ i - 1 \in 0..k
      OBVIOUS
    <3>2. i # 0 => g[i - 1] = f[i - 1]
      BY <3>1
    <3>3. Body(g, i) = Body(f, i)
      BY <3>2
    <3>4. i # m => i \in 0..k
      OBVIOUS
    <3> HIDE DEF Body
    <3> QED
      BY <2>2, <3>3, <3>4
  <2>5. g = [i \in 0..m |-> g[i]]
    OBVIOUS
  <2> HIDE DEF g, Body
  <2>6. Solves(g, m)
    BY <2>4, <2>5
  <2> QED
    BY <2>3, <2>6
<1>3. Length \in G
  <2> HIDE DEF G
  <2> QED
    BY <1>0, <1>1, <1>2, PrefixInduction
<1>4. \E f : Solves(f, Length)
  BY <1>3
<1>5. After(b, n, s0) = CHOOSE f : Solves(f, Length)
  BY DEF After
<1>6. Solves(After(b, n, s0), Length)
  BY <1>4, <1>5
<1> HIDE DEF Body
<1>7. \A i \in 0..Length : After(b, n, s0)[i] = Body(After(b, n, s0), i)
  BY <1>6
<1> QED
  BY <1>0, <1>7 DEF Body, Indices

\* A body whose steps write fields of their own and declare what they read,
\* as far as the planner is told.
Plain(b) ==
    /\ b \in [Indices -> Steps]
    /\ \A i, j \in Indices : i # j => b[i].writes # b[j].writes
    /\ ~HiddenReads

LEMMA DeclaredReads ==
    ASSUME NEW b, Plain(b), NEW i \in Indices, ~IsBarrier(b[i])
    PROVE  b[i].reads = b[i].declared /\ b[i].kind # "returns"
<1>1. b[i] \in Steps
  BY DEF Plain
<1>2. b[i] \in Step /\ Declarable(b[i])
  BY <1>1 DEF Steps
<1>3. b[i].kind \in {"execute", "derive"}
  BY <1>2 DEF Step, IsBarrier
<1> QED
  BY <1>2, <1>3 DEF Declarable, IsBarrier, Plain

LEMMA NoBarrier ==
    ASSUME NEW b, NEW a \in Nat, NEW m \in Nat, a < m,
           \A i, j \in a..m : j < i => Independent(b[i], b[j]),
           NEW i \in a..m
    PROVE  ~IsBarrier(b[i])
<1>1. a \in a..m /\ m \in a..m
  OBVIOUS
<1>2. CASE a < i
  BY <1>1, <1>2 DEF Independent
<1>3. CASE a = i
  BY <1>1, <1>3 DEF Independent
<1> QED
  BY <1>2, <1>3

\* S is what the steps a..m of one group build one after the other, from the
\* state s, which has none of the fields they write; rs what each returns when
\* it starts from s.
InTurn(b, n, a, m, s, S) ==
    /\ S[a - 1] = s
    /\ \A i \in a..m : S[i] = ResultOf(b, n, i, S[i - 1])
    /\ \A i, j \in a..m : j < i => Independent(b[i], b[j])
    /\ \A i \in a..m : b[i].writes \notin DOMAIN s

AtOnce(b, n, a, m, s, rs) ==
    /\ DOMAIN rs = a..m
    /\ \A i \in a..m : rs[i] = ResultOf(b, n, i, s)
    /\ \A i \in a..m : b[i].kind # "returns" /\ b[i].writes \notin DOMAIN s

\* The state r is s with what each of these steps computes from s.
Extended(b, n, a, m, s, r) ==
    /\ DOMAIN r = DOMAIN s \union {b[j].writes : j \in a..m}
    /\ \A f \in DOMAIN s : r[f] = s[f]
    /\ \A j \in a..m : r[b[j].writes] = ValueOf(b, n, j, s)

\* The steps a..k one after the other, none of which drops a field or reads
\* what an earlier one wrote: each adds the value it has on the state s.
LEMMA StepByStep ==
    ASSUME NEW b, Plain(b), NEW n, NEW a \in Indices, NEW m \in Indices, a < m,
           NEW S, NEW s, InTurn(b, n, a, m, s, S)
    PROVE  Extended(b, n, a, m, s, S[m])
<1> USE DEF InTurn
<1> DEFINE Adds(k) ==
             /\ DOMAIN S[k] = DOMAIN s \union {b[j].writes : j \in a..k}
             /\ \A f \in DOMAIN s : S[k][f] = s[f]
             /\ \A j \in a..k : S[k][b[j].writes] = ValueOf(b, n, j, s)
           G == {k \in 0..m : k >= a - 1 => Adds(k)}
<1>0. a \in Nat \ {0} /\ m \in Nat \ {0} /\ a..m \subseteq Indices
  BY ConstantsAssumption DEF Indices
<1>1. Adds(a - 1)
  <2>1. a..(a - 1) = {}
    BY <1>0
  <2> QED
    BY <2>1
<1>2. 0 \in G
  <2>1. 0 >= a - 1 => a - 1 = 0
    BY <1>0
  <2> HIDE DEF Adds
  <2> QED
    BY <1>0, <1>1, <2>1
<1>3. ASSUME NEW k \in 0..(m - 1), k \in G
      PROVE  k + 1 \in G
  <2> DEFINE i == k + 1
  <2>1. i \in 0..m /\ i - 1 = k
    BY <1>0
  <2>2. CASE i = a - 1
    <3> HIDE DEF Adds
    <3> QED
      BY <1>1, <2>1, <2>2
  <2>3. CASE i < a - 1
    BY <1>0, <2>1, <2>3
  <2>4. CASE i >= a
    <3>1. Adds(k) /\ i \in a..m /\ i \in Indices
      BY <1>0, <1>3, <2>1, <2>4
    <3>2. ~IsBarrier(b[i])
      BY <1>0, <3>1, NoBarrier
    <3>3. b[i].reads = b[i].declared /\ b[i].kind # "returns"
      BY <3>1, <3>2, DeclaredReads
    <3>4. \A j \in a..k : /\ b[j].writes \notin b[i].reads
                          /\ b[j].writes # b[i].writes
      <4> SUFFICES ASSUME NEW j \in a..k PROVE j \in a..m /\ j < i
        BY <3>1, <3>3 DEF Independent
      <4> QED
        BY <1>0, <2>1
    <3>5. Seen(S[k], b[i].reads) = Seen(s, b[i].reads)
      <4>1. b[i].reads \intersect DOMAIN S[k] = b[i].reads \intersect DOMAIN s
        BY <3>1, <3>4
      <4>2. \A f \in b[i].reads \intersect DOMAIN s : S[k][f] = s[f]
        BY <3>1
      <4> QED
        BY <4>1, <4>2 DEF Seen
    <3>6. ValueOf(b, n, i, S[k]) = ValueOf(b, n, i, s)
      BY <3>5 DEF ValueOf
    <3>7. S[i] = [f \in DOMAIN S[k] \union {b[i].writes} |->
                    IF f = b[i].writes THEN ValueOf(b, n, i, s) ELSE S[k][f]]
      BY <2>1, <3>1, <3>3, <3>6 DEF ResultOf
    <3>8. b[i].writes \notin DOMAIN s
      BY <3>1
    <3>9. a..i = (a..k) \union {i}
      BY <1>0, <2>1, <2>4
    <3>10. {b[j].writes : j \in a..i} = {b[j].writes : j \in a..k} \union {b[i].writes}
      BY <3>9
    <3>11. DOMAIN S[i] = DOMAIN s \union {b[j].writes : j \in a..i}
      BY <3>1, <3>7, <3>10
    <3>12. \A f \in DOMAIN s : S[i][f] = s[f]
      BY <3>1, <3>7, <3>8
    <3>13. \A j \in a..i : S[i][b[j].writes] = ValueOf(b, n, j, s)
      <4> SUFFICES ASSUME NEW j \in a..i PROVE S[i][b[j].writes] = ValueOf(b, n, j, s)
        OBVIOUS
      <4>1. CASE j = i
        BY <3>7, <4>1
      <4>2. CASE j \in a..k
        <5>1. b[j].writes \in DOMAIN S[k] /\ b[j].writes # b[i].writes
          BY <3>1, <3>4, <4>2
        <5> QED
          BY <3>1, <3>7, <4>2, <5>1
      <4> QED
        BY <3>9, <4>1, <4>2
    <3>14. Adds(i)
      BY <3>11, <3>12, <3>13
    <3> HIDE DEF Adds
    <3> QED
      BY <2>1, <3>14
  <2> QED
    BY <1>0, <2>1, <2>2, <2>3, <2>4
<1>4. m \in G
  <2> HIDE DEF G
  <2> QED
    BY <1>0, <1>2, <1>3, PrefixInduction
<1> QED
  BY <1>0, <1>4 DEF Extended

\* The merge of what the steps of a group returned when they all started from
\* the same state.
LEMMA MergeOfGroup ==
    ASSUME NEW b, Plain(b), NEW n, NEW a \in Indices, NEW m \in Indices, a < m,
           NEW s, s = [f \in DOMAIN s |-> s[f]],
           NEW rs, AtOnce(b, n, a, m, s, rs)
    PROVE  /\ Extended(b, n, a, m, s, Merge(s, rs))
           /\ Merge(s, rs) = [f \in DOMAIN Merge(s, rs) |-> Merge(s, rs)[f]]
<1> USE DEF AtOnce
<1> DEFINE having(f) == {i \in DOMAIN rs : f \in DOMAIN rs[i]}
           D == DOMAIN s \union UNION {DOMAIN rs[i] : i \in DOMAIN rs}
           M == [f \in D |-> IF having(f) = {} THEN s[f] ELSE rs[Max(having(f))][f]]
<1>0. a \in Nat \ {0} /\ m \in Nat /\ a..m \subseteq Indices /\ a..m \subseteq 1..m
  BY ConstantsAssumption DEF Indices
<1>1. Merge(s, rs) = M
  BY DEF Merge
<1>2. ASSUME NEW i \in a..m
      PROVE  rs[i] = [f \in DOMAIN s \union {b[i].writes} |->
                        IF f = b[i].writes THEN ValueOf(b, n, i, s) ELSE s[f]]
  BY DEF ResultOf
<1>3. \A i \in a..m : DOMAIN rs[i] = DOMAIN s \union {b[i].writes}
  BY <1>2
<1>4. D = DOMAIN s \union {b[j].writes : j \in a..m}
  BY <1>3
<1>5. ASSUME NEW f \in DOMAIN s
      PROVE  M[f] = s[f]
  <2>1. f \in D
    OBVIOUS
  <2>2. CASE having(f) = {}
    BY <2>1, <2>2
  <2>3. CASE having(f) # {}
    <3>1. Max(having(f)) \in having(f)
      BY <1>0, <2>3, MaxInPrefix
    <3>2. Max(having(f)) \in a..m
      BY <3>1
    <3> DEFINE i == Max(having(f))
    <3>3. f # b[i].writes
      BY <3>2
    <3>4. rs[i][f] = s[f]
      BY <1>2, <3>2, <3>3
    <3> HIDE DEF having
    <3> QED
      BY <2>1, <2>3, <3>4
  <2> QED
    BY <2>2, <2>3
<1>6. ASSUME NEW j \in a..m
      PROVE  M[b[j].writes] = ValueOf(b, n, j, s)
  <2> DEFINE f == b[j].writes
  <2>1. f \in D
    BY <1>4
  <2>2. j \in having(f)
    BY <1>3
  <2>3. \A i \in having(f) : i = j
    BY <1>0, <1>3 DEF Plain
  <2>4. Max(having(f)) \in having(f)
    BY <1>0, <2>2, MaxInPrefix
  <2>5. Max(having(f)) = j
    BY <2>3, <2>4
  <2>6. rs[j][f] = ValueOf(b, n, j, s)
    BY <1>2
  <2> HIDE DEF having
  <2>7. M[f] = rs[Max(having(f))][f]
    BY <2>1, <2>2
  <2> QED
    BY <2>5, <2>6, <2>7
<1>7. DOMAIN M = D /\ M = [f \in DOMAIN M |-> M[f]]
  OBVIOUS
<1> HIDE DEF M
<1> QED
  BY <1>1, <1>4, <1>5, <1>6, <1>7 DEF Extended
\* The group a..m leaves the state of its steps one after the other.
LEMMA GroupIsSequence ==
    ASSUME NEW b, Plain(b), NEW n, NEW a \in Indices, NEW m \in Indices, a < m,
           NEW s, s = [f \in DOMAIN s |-> s[f]],
           NEW S, InTurn(b, n, a, m, s, S),
           NEW rs, DOMAIN rs = a..m,
           \A i \in a..m : rs[i] = ResultOf(b, n, i, s)
    PROVE  Merge(s, rs) = S[m]
<1> DEFINE M == Merge(s, rs)
<1>0. a \in Nat \ {0} /\ m \in Nat \ {0} /\ a..m \subseteq Indices /\ a \in a..m /\ m \in a..m
  BY ConstantsAssumption DEF Indices
<1>1. AtOnce(b, n, a, m, s, rs)
  <2>1. \A i \in a..m : b[i].kind # "returns"
    BY <1>0, NoBarrier, DeclaredReads DEF InTurn
  <2> QED
    BY <2>1 DEF AtOnce, InTurn
<1>2. Extended(b, n, a, m, s, S[m])
  BY StepByStep
<1>3. Extended(b, n, a, m, s, M) /\ M = [f \in DOMAIN M |-> M[f]]
  BY <1>1, MergeOfGroup
<1>4. S[m] = [f \in DOMAIN S[m] |-> S[m][f]]
  <2>1. S[m] = ResultOf(b, n, m, S[m - 1])
    BY <1>0 DEF InTurn
  <2> QED
    BY <2>1 DEF ResultOf
<1> HIDE DEF M
<1>5. \A f \in DOMAIN M : M[f] = S[m][f]
  BY <1>2, <1>3 DEF Extended
<1>6. DOMAIN M = DOMAIN S[m]
  BY <1>2, <1>3 DEF Extended
<1>7. M = S[m]
  BY <1>3, <1>4, <1>5, <1>6
<1> QED
  BY <1>7 DEF M

\* No step writes a field of another one.
LEMMA AfterDomain ==
    ASSUME NEW b, NEW n, NEW s0
    PROVE  \A k \in 0..Length :
             DOMAIN After(b, n, s0)[k] \subseteq DOMAIN s0 \union {b[j].writes : j \in 1..k}
<1> DEFINE S == After(b, n, s0)
           Bound(k) == DOMAIN S[k] \subseteq DOMAIN s0 \union {b[j].writes : j \in 1..k}
           G == {k \in 0..Length : \A i \in 0..k : Bound(i)}
<1>0. Length \in Nat
  BY ConstantsAssumption
<1>1. 0 \in G
  <2>1. S[0] = s0
    BY AfterRecursion
  <2>2. Bound(0)
    BY <2>1
  <2>3. \A i \in 0..0 : i = 0
    OBVIOUS
  <2> HIDE DEF Bound
  <2> QED
    BY <1>0, <2>2, <2>3
<1>2. ASSUME NEW k \in 0..(Length - 1), k \in G
      PROVE  k + 1 \in G
  <2> DEFINE m == k + 1
  <2>1. m \in Indices /\ m - 1 = k /\ m \in 0..Length
    BY <1>0 DEF Indices
  <2>2. S[m] = ResultOf(b, n, m, S[m - 1])
    BY <2>1, AfterRecursion
  <2>3. DOMAIN S[m] \subseteq DOMAIN S[k] \union {b[m].writes}
    BY <2>1, <2>2 DEF ResultOf
  <2>4. Bound(k)
    BY <1>2
  <2>5. \A j \in 1..k : j \in 1..m
    OBVIOUS
  <2>6. m \in 1..m
    BY <2>1
  <2>7. Bound(m)
    BY <2>3, <2>4, <2>5, <2>6
  <2>8. \A i \in 0..m : i = m \/ i \in 0..k
    OBVIOUS
  <2> HIDE DEF Bound
  <2> QED
    BY <1>2, <2>1, <2>7, <2>8
<1>3. Length \in G
  <2> HIDE DEF G
  <2> QED
    BY <1>0, <1>1, <1>2, PrefixInduction
<1> QED
  BY <1>3

-----------------------------------------------------------------------------
(* Where the executor is *)

Places == {"loop", "group", "running", "sweeping", "returned", "thrown"}

\* Only steps of the group that is due are in flight; a group begins where the
\* planner begins one.
PlaceInvariant ==
    /\ flow \in [Indices -> Steps]
    /\ Rewrites \/ \A i, j \in Indices : i # j => flow[i].writes # flow[j].writes
    /\ pc \in Places /\ pass \in 0..MaxIterations /\ next \in 1..(Length + 1)
    /\ pc = "loop" /\ pass # 0 => next = Length + 1
    /\ pc \in {"group", "running", "sweeping"} => pass # 0
    /\ pc \in {"running", "sweeping"} => next \in Indices
    /\ next \in Indices => next \in Group
    /\ running \subseteq Group
    /\ pc \in {"loop", "group", "returned"} => running = {}

\* What the group looks like; m is its last step.
Ends(m) ==
    /\ m \in Indices /\ next <= m /\ Group = next..m /\ Max(Group) = m
    /\ parallel /\ m + 1 \in Indices => m + 1 \in GroupAt(flow, m + 1)
    /\ \A i, j \in next..m : j < i => Independent(flow[i], flow[j])
    /\ Shared <=> next < m

LEMMA GroupEnds ==
    ASSUME PlaceInvariant, next \in Indices
    PROVE  \E m : Ends(m)
<1>0. Length \in Nat \ {0} /\ next \in Nat \ {0}
  BY ConstantsAssumption DEF Indices
<1>1. CASE parallel
  <2>1. Group = GroupAt(flow, next)
    BY <1>1 DEF Group, GroupAt
  <2>2. next \in GroupAt(flow, next)
    BY <2>1 DEF PlaceInvariant
  <2>3. PICK m \in Indices :
          /\ next <= m /\ GroupAt(flow, next) = next..m /\ Max(GroupAt(flow, next)) = m
          /\ m + 1 \in Indices => m + 1 \in GroupAt(flow, m + 1)
          /\ \A i, j \in next..m : j < i => Independent(flow[i], flow[j])
    BY <2>2, GroupShape
  <2>4. m \in Nat
    BY DEF Indices
  <2>5. Cardinality(next..m) = m - next + 1
    BY <1>0, <2>3, <2>4, FS_Interval
  <2>6. Shared <=> next < m
    BY <1>0, <2>1, <2>3, <2>4, <2>5 DEF Shared
  <2> QED
    BY <2>1, <2>3, <2>6 DEF Ends
<1>2. CASE ~parallel
  <2>1. Group = {next}
    BY <1>2 DEF Group
  <2>2. next..next = {next}
    BY <1>0
  <2>3. Cardinality({next}) = 1
    BY FS_Singleton
  <2>4. Max({next}) = next
    <3>1. next \in 1..next /\ {next} \in SUBSET (1..next)
      BY <1>0
    <3> QED
      BY <1>0, <3>1, MaxOfPrefix
  <2>5. ~Shared
    BY <2>1, <2>3 DEF Shared
  <2>6. \A i, j \in next..next : ~(j < i)
    BY <1>0, <2>2
  <2>7. Ends(next)
    BY <1>0, <1>2, <2>1, <2>2, <2>4, <2>5, <2>6 DEF Ends
  <2> QED
    BY <2>7
<1> QED
  BY <1>1, <1>2

LEMMA PlaceInit == Init => PlaceInvariant
<1> SUFFICES ASSUME Init PROVE PlaceInvariant
  OBVIOUS
<1>0. Length \in Nat \ {0} /\ MaxIterations \in Nat
  BY ConstantsAssumption
<1>1. next = 1 /\ 1 \in Indices
  BY <1>0 DEF Init, Indices
<1>2. 1 \in Group
  <2>1. GroupStarts(flow)[1] = 1
    BY <1>1, GroupStartsRecursion DEF GroupsOf
  <2> QED
    BY <1>1, <2>1 DEF Group
<1> QED
  BY <1>0, <1>1, <1>2 DEF Init, PlaceInvariant, Places

LEMMA FirstGroup ==
    ASSUME NEW b
    PROVE  1 \in Indices /\ 1 \in GroupAt(b, 1)
<1>1. 1 \in Indices
  BY ConstantsAssumption DEF Indices
<1> QED
  BY <1>1, GroupStartsRecursion DEF GroupsOf, GroupAt

LEMMA PlaceStep ==
    ASSUME PlaceInvariant, [Next]_vars
    PROVE  PlaceInvariant'
<1> USE DEF PlaceInvariant, Places
<1>0. Length \in Nat \ {0} /\ MaxIterations \in Nat
  BY ConstantsAssumption
<1>1. UNCHANGED <<flow, parallel, next>> => Group' = Group
  BY DEF Group
<1>2. CASE EnterLoop
  <2>1. 1 \in Indices /\ 1 \in GroupAt(flow', 1)
    BY FirstGroup
  <2>2. 1 \in Group'
    BY <1>2, <2>1 DEF EnterLoop, Group, GroupAt
  <2> QED
    BY <1>0, <1>2, <2>1, <2>2 DEF EnterLoop, Unstarted
<1>3. CASE LeaveLoop \/ ExceedLoop \/ AbortedBetween \/ EndBody
  <2>1. EndBody => next = Length + 1
    BY <1>0 DEF EndBody
  <2> QED
    BY <1>1, <1>3, <2>1 DEF LeaveLoop, ExceedLoop, AbortedBetween, EndBody, Unstarted
<1>4. CASE Stop \/ Settled
  BY <1>1, <1>4 DEF Stop, Settled, vars
<1>5. CASE StartGroup
  <2>1. Batch(next) \subseteq Group
    BY DEF Batch
  <2> QED
    BY <1>1, <1>5, <2>1 DEF StartGroup
<1>6. CASE NextBatch
  <2>1. Batch(Min(Remaining)) \subseteq Group
    BY DEF Batch
  <2> QED
    BY <1>1, <1>6, <2>1 DEF NextBatch, BatchSettled
<1>7. CASE Sweep
  BY <1>1, <1>7 DEF Sweep
<1>8. CASE EndGroup
  <2>1. next \in Indices
    BY <1>8 DEF EndGroup, BatchSettled
  <2>2. PICK m : Ends(m)
    BY <2>1, GroupEnds
  <2>3. next' = m + 1 /\ m \in Indices
    BY <1>8, <2>2 DEF EndGroup, Ends
  <2>4. next' \in 1..(Length + 1)
    BY <1>0, <2>3 DEF Indices
  <2>5. next' \in Indices => next' \in Group'
    <3>1. CASE parallel
      BY <1>8, <2>2, <2>3, <3>1 DEF EndGroup, Ends, Group, GroupAt
    <3>2. CASE ~parallel
      BY <1>8, <3>2 DEF EndGroup, Group
    <3> QED
      BY <3>1, <3>2
  <2> QED
    BY <1>8, <2>4, <2>5 DEF EndGroup, BatchSettled
<1>9. ASSUME NEW i \in Indices, Finish(i) \/ Fail(i) \/ CreateTask(i)
      PROVE  PlaceInvariant'
  <2>1. pc \notin {"loop", "group", "returned"}
    BY <1>9 DEF Finish, Fail, CreateTask
  <2>2. CASE Finish(i)
    BY <1>1, <2>1, <2>2 DEF Finish
  <2>3. CASE Fail(i)
    BY <1>1, <2>1, <2>3 DEF Fail
  <2>4. CASE CreateTask(i)
    BY <1>1, <2>1, <2>4 DEF CreateTask
  <2> QED
    BY <1>9, <2>2, <2>3, <2>4
<1>10. ASSUME NEW t \in TaskIds, CompleteTask(t)
       PROVE  PlaceInvariant'
  BY <1>1, <1>10 DEF CompleteTask
<1>11. CASE UNCHANGED vars
  BY <1>1, <1>11 DEF vars
<1> QED
  BY <1>2, <1>3, <1>4, <1>5, <1>6, <1>7, <1>8, <1>9, <1>10, <1>11 DEF Next
-----------------------------------------------------------------------------
(* What is between two groups *)

LEMMA SequentiallyAfter == Sequentially = After(flow, pass, initial)
BY DEF Sequentially, After, Result, ResultOf, Value, ValueOf

LEMMA SequentiallyAfterStep == Sequentially' = After(flow', pass', initial')
BY DEF Sequentially, After, Result, ResultOf, Value, ValueOf, Seen

LEMMA ResultIs ==
    ASSUME NEW n, NEW i, NEW s
    PROVE  Result(n, i, s) = ResultOf(flow, n, i, s)
BY DEF Result, ResultOf, Value, ValueOf

\* Steps that write fields of their own, declare what they read, and run once.
Simple == ~Rewrites /\ ~HiddenReads /\ pass <= 1

StateInvariant ==
    /\ state = [f \in DOMAIN state |-> state[f]]
    /\ pass = 0 => DOMAIN state = Inputs
    /\ pass = 1 => DOMAIN initial = Inputs
    /\ Simple /\ pc \in {"group", "running"} =>
         /\ next - 1 \in 0..Length
         /\ state = Sequentially[next - 1]
    /\ pc = "running" =>
         \A j \in DOMAIN results : j \in Group /\ results[j] = Result(pass, j, state)

LEMMA StateInit == Init => StateInvariant
BY DEF Init, StateInvariant

\* A group that has ended leaves what its steps leave one by one.
LEMMA GroupEndsSequentially ==
    ASSUME PlaceInvariant, StateInvariant, EndGroup, Simple, NEW m, Ends(m)
    PROVE  state' = Sequentially[m]
<1> DEFINE S == Sequentially
<1>0. /\ Length \in Nat /\ next \in Nat \ {0} /\ m \in Nat /\ m \in Indices
      /\ next \in Indices /\ next <= m /\ pass = 1
  <2>1. next \in Indices /\ pass = 1
    BY ConstantsAssumption DEF EndGroup, BatchSettled, PlaceInvariant, Simple
  <2> QED
    BY <2>1, ConstantsAssumption DEF Ends, Indices
<1>1. S = After(flow, pass, initial)
  BY SequentiallyAfter
<1>2. \A i \in Indices : S[i] = ResultOf(flow, pass, i, S[i - 1])
  BY <1>1, AfterRecursion
<1>3. state = S[next - 1] /\ next - 1 \in 0..Length
  BY DEF StateInvariant, EndGroup, BatchSettled
<1>4. /\ DOMAIN results = Group
      /\ \A j \in Group : results[j] = ResultOf(flow, pass, j, state)
  <2>1. Group \subseteq DOMAIN results
    BY DEF EndGroup, Remaining
  <2> QED
    BY <2>1, ResultIs DEF StateInvariant, EndGroup, BatchSettled
<1>5. Group = next..m /\ next..m \subseteq Indices
  BY <1>0 DEF Ends, Indices
<1> HIDE DEF S
<1>6. CASE next < m
  <2>1. Plain(flow)
    BY DEF Plain, PlaceInvariant, Simple
  <2>2. DOMAIN state \subseteq Inputs \union {flow[j].writes : j \in 1..(next - 1)}
    <3>1. DOMAIN After(flow, pass, initial)[next - 1]
            \subseteq DOMAIN initial \union {flow[j].writes : j \in 1..(next - 1)}
      BY <1>3, AfterDomain
    <3> QED
      BY <1>0, <1>1, <1>3, <3>1 DEF StateInvariant, S
  <2>3. \A i \in next..m : flow[i].writes \notin DOMAIN state
    <3> SUFFICES ASSUME NEW i \in next..m, flow[i].writes \in DOMAIN state
                 PROVE  FALSE
      OBVIOUS
    <3>1. flow[i] \in Steps
      BY <1>5 DEF PlaceInvariant
    <3>2. flow[i].writes \in Outputs
      BY <3>1 DEF Steps, Step
    <3>3. flow[i].writes \notin Inputs
      BY <3>2, ConstantsAssumption
    <3>4. PICK j \in 1..(next - 1) : flow[j].writes = flow[i].writes
      BY <2>2, <3>3
    <3>5. j \in Indices /\ i \in Indices /\ j # i
      BY <1>0, <1>5 DEF Indices
    <3> QED
      BY <2>1, <3>4, <3>5 DEF Plain
  <2>4. InTurn(flow, pass, next, m, state, S)
    BY <1>2, <1>3, <1>5, <2>3 DEF InTurn, Ends
  <2>5. state = [f \in DOMAIN state |-> state[f]]
    BY DEF StateInvariant
  <2>6. DOMAIN results = next..m /\ \A i \in next..m : results[i] = ResultOf(flow, pass, i, state)
    BY <1>4, <1>5
  <2>7. Merge(state, results) = S[m]
    BY <1>0, <1>6, <2>1, <2>4, <2>5, <2>6, GroupIsSequence
  <2>8. state' = Merge(state, results)
    BY <1>6 DEF EndGroup, Ends
  <2> QED
    BY <2>7, <2>8 DEF S
<1>7. CASE next = m
  <2>1. state' = results[next]
    BY <1>0, <1>7 DEF EndGroup, Ends
  <2>2. results[next] = ResultOf(flow, pass, next, state)
    BY <1>0, <1>4, <1>5
  <2> QED
    BY <1>0, <1>2, <1>3, <1>7, <2>1, <2>2 DEF S
<1> QED
  BY <1>0, <1>6, <1>7

LEMMA ResultIsState ==
    ASSUME NEW n, NEW i, NEW s
    PROVE  Result(n, i, s) = [f \in DOMAIN Result(n, i, s) |-> Result(n, i, s)[f]]
BY DEF Result

LEMMA MergeIsState ==
    ASSUME NEW s, NEW rs
    PROVE  Merge(s, rs) = [f \in DOMAIN Merge(s, rs) |-> Merge(s, rs)[f]]
<1> DEFINE having(f) == {i \in DOMAIN rs : f \in DOMAIN rs[i]}
           Entry(f) == IF having(f) = {} THEN s[f] ELSE rs[Max(having(f))][f]
           D == DOMAIN s \union UNION {DOMAIN rs[i] : i \in DOMAIN rs}
<1>1. Merge(s, rs) = [f \in D |-> Entry(f)]
  BY DEF Merge
<1> HIDE DEF Entry, D
<1> QED
  BY <1>1

LEMMA StateStep ==
    ASSUME PlaceInvariant, PlaceInvariant', StateInvariant, [Next]_vars
    PROVE  StateInvariant'
<1>0. Length \in Nat \ {0} /\ MaxIterations \in Nat /\ pass \in Nat
  BY ConstantsAssumption DEF PlaceInvariant
<1>1. /\ UNCHANGED <<flow, parallel, next>> => Group' = Group
      /\ UNCHANGED <<flow, pass, initial>> => Sequentially' = Sequentially
  BY SequentiallyAfter, SequentiallyAfterStep DEF Group
<1>2. ASSUME UNCHANGED <<flow, pass, initial, state>>,
             pc' \in {"group", "running"} =>
               /\ pc \in {"group", "running"} /\ next' = next
               /\ pc' = "running" => \/ results' = Empty
                                     \/ pc = "running" /\ UNCHANGED <<results, parallel>>
      PROVE  StateInvariant'
  <2>1. Sequentially' = Sequentially
    BY <1>1, <1>2
  <2>2. pc' = "running" =>
          \A j \in DOMAIN results' : j \in Group' /\ results'[j] = Result(pass, j, state)'
    <3>1. CASE results' = Empty
      BY <3>1 DEF Empty
    <3>2. CASE pc = "running" /\ UNCHANGED <<results, parallel, next>>
      <4>1. Group' = Group
        BY <1>1, <1>2, <3>2
      <4> QED
        BY <1>2, <3>2, <4>1 DEF StateInvariant, Result, Value, Seen
    <3> QED
      BY <1>2, <3>1, <3>2
  <2> QED
    BY <1>2, <2>1, <2>2 DEF StateInvariant, Simple
<1>3. CASE EnterLoop
  <2>1. Sequentially'[0] = initial'
    BY SequentiallyAfterStep, AfterRecursion
  <2>2. /\ pc' = "group" /\ pass' = pass + 1 /\ next' = 1 /\ initial' = state
        /\ state' = state
    BY <1>3 DEF EnterLoop
  <2>3. next' - 1 = 0 /\ 0 \in 0..Length /\ pass' # 0 /\ (pass' = 1 => pass = 0)
    BY <1>0, <2>2
  <2> QED
    BY <2>1, <2>2, <2>3 DEF StateInvariant, Simple
<1>4. CASE LeaveLoop \/ ExceedLoop \/ AbortedBetween \/ EndBody
  BY <1>2, <1>4 DEF LeaveLoop, ExceedLoop, AbortedBetween, EndBody, Unstarted
<1>5. CASE Stop \/ Settled \/ Sweep \/ StartGroup \/ NextBatch \/ UNCHANGED vars
  BY <1>2, <1>5 DEF Stop, Settled, Sweep, StartGroup, NextBatch, BatchSettled, vars
<1>6. CASE EndGroup
  <2>1. next \in Indices
    BY <1>6 DEF EndGroup, BatchSettled, PlaceInvariant
  <2>2. PICK m : Ends(m)
    BY <2>1, GroupEnds
  <2>3. /\ next' = m + 1 /\ m \in Indices /\ pc' = "group" /\ next \in Group
        /\ UNCHANGED <<flow, pass, initial>>
    BY <1>6, <2>1, <2>2 DEF EndGroup, Ends, PlaceInvariant
  <2>4. next' - 1 = m /\ m \in 0..Length
    BY <1>0, <2>3 DEF Indices
  <2>5. Simple => state' = Sequentially[m]
    BY <1>6, <2>2, GroupEndsSequentially
  <2>6. state' = [f \in DOMAIN state' |-> state'[f]]
    <3>1. CASE Shared
      BY <1>6, <3>1, MergeIsState DEF EndGroup
    <3>2. CASE ~Shared
      <4>1. next \in DOMAIN results /\ results[next] = Result(pass, next, state)
        BY <1>6, <2>3 DEF EndGroup, Remaining, StateInvariant, BatchSettled
      <4> QED
        BY <1>6, <3>2, <4>1, ResultIsState DEF EndGroup
    <3> QED
      BY <3>1, <3>2
  <2>7. pass' # 0
    BY <2>3 DEF PlaceInvariant
  <2>8. Sequentially' = Sequentially
    BY <1>1, <2>3
  <2> QED
    BY <2>3, <2>4, <2>5, <2>6, <2>7, <2>8 DEF StateInvariant, Simple
<1>7. ASSUME NEW i \in Indices, Finish(i)
      PROVE  StateInvariant'
  <2>1. /\ UNCHANGED <<flow, parallel, pc, pass, next, state, initial>>
        /\ i \in Group
    BY <1>7 DEF Finish, PlaceInvariant
  <2>2. Sequentially' = Sequentially /\ Group' = Group
    BY <1>1, <2>1
  <2>3. pc = "running" =>
          \A j \in DOMAIN results' : j \in Group /\ results'[j] = Result(pass, j, state)
    BY <1>7, <2>1 DEF Finish, StateInvariant
  <2>4. pc = "running" =>
          \A j \in DOMAIN results' : j \in Group' /\ results'[j] = Result(pass, j, state)'
    <3> SUFFICES ASSUME pc = "running", NEW j \in DOMAIN results'
                 PROVE  j \in Group' /\ results'[j] = Result(pass, j, state)'
      OBVIOUS
    <3>1. Result(pass, j, state)' = Result(pass, j, state)
      BY <2>1 DEF Result, Value, Seen
    <3> QED
      BY <2>2, <2>3, <3>1
  <2> QED
    BY <2>1, <2>2, <2>4 DEF StateInvariant, Simple
<1>8. ASSUME NEW i \in Indices, Fail(i) \/ CreateTask(i)
      PROVE  StateInvariant'
  BY <1>2, <1>8 DEF Fail, CreateTask
<1>9. ASSUME NEW t \in TaskIds, CompleteTask(t)
      PROVE  StateInvariant'
  BY <1>2, <1>9 DEF CompleteTask
<1> QED
  BY <1>3, <1>4, <1>5, <1>6, <1>7, <1>8, <1>9 DEF Next

-----------------------------------------------------------------------------
(* Remote tasks *)

Begun(t) == t[1] < pass \/ (t[1] = pass /\ t[2] < next)
OfGroup(t) == t[1] = pass /\ t[2] \in Group

\* Tasks are those of earlier groups, and of the one that is due when it has
\* started; the snapshot tells them apart.
TaskInvariant ==
    /\ tasks \in [TaskIds -> {"none", "working", "completed", "cancelled"}]
    /\ \A t \in TaskIds : tasks[t] # "none" =>
         Begun(t) \/ (pc \in {"running", "sweeping", "thrown"} /\ OfGroup(t))
    /\ pc \in {"running", "sweeping"} =>
         \A t \in TaskIds : /\ t \in snapshot => ~OfGroup(t)
                            /\ tasks[t] # "none" => t \in snapshot \/ OfGroup(t)
    /\ \A t \in TaskIds : tasks[t] = "cancelled" => pc = "thrown" /\ OfGroup(t)
    /\ AbandonedTasksSwept

LEMMA GroupFollows ==
    ASSUME PlaceInvariant, next \in Indices, NEW t \in TaskIds, Begun(t)
    PROVE  ~OfGroup(t)
<1>1. PICK m : Ends(m)
  BY GroupEnds
<1> QED
  BY <1>1, ConstantsAssumption DEF Ends, Begun, OfGroup, Indices, TaskIds, PlaceInvariant

LEMMA TaskInit == Init => TaskInvariant
BY DEF Init, TaskInvariant, AbandonedTasksSwept

LEMMA TaskStep ==
    ASSUME PlaceInvariant, TaskInvariant, [Next]_vars
    PROVE  TaskInvariant'
<1>0. /\ Length \in Nat \ {0} /\ MaxIterations \in Nat /\ pass \in Nat /\ next \in Nat
      /\ \A t \in TaskIds : t[1] \in Nat \ {0} /\ t[2] \in 1..Length
  BY ConstantsAssumption DEF PlaceInvariant, TaskIds, Indices
<1>1. UNCHANGED <<flow, parallel, next>> => Group' = Group /\ (Shared' <=> Shared)
  BY DEF Group, Shared
<1>2. UNCHANGED <<flow, parallel, next, pass>> =>
        \A t \in TaskIds : /\ (Begun(t)' <=> Begun(t)) /\ (OfGroup(t)' <=> OfGroup(t))
  BY <1>1 DEF Begun, OfGroup
<1>3. CASE EnterLoop
  <2>1. \A t \in TaskIds : tasks[t] # "none" => Begun(t)'
    <3> SUFFICES ASSUME NEW t \in TaskIds, tasks[t] # "none" PROVE Begun(t)'
      OBVIOUS
    <3>1. Begun(t) /\ pass' = pass + 1
      BY <1>3 DEF EnterLoop, TaskInvariant
    <3> QED
      BY <1>0, <3>1 DEF Begun
  <2> QED
    BY <1>3, <2>1 DEF EnterLoop, Unstarted, TaskInvariant, AbandonedTasksSwept
<1>4. CASE LeaveLoop \/ EndBody \/ Stop
  BY <1>1, <1>2, <1>4 DEF LeaveLoop, EndBody, Stop, Unstarted, TaskInvariant,
                          AbandonedTasksSwept
<1>5. CASE ExceedLoop \/ AbortedBetween
  <2>1. /\ pc \in {"loop", "group"} /\ pc' = "thrown"
        /\ UNCHANGED <<flow, parallel, next, pass, tasks, late, snapshot>>
    BY <1>5 DEF ExceedLoop, AbortedBetween, Unstarted
  <2>2. \A t \in TaskIds : tasks[t] # "none" => Begun(t)
    BY <2>1 DEF TaskInvariant
  <2>3. \A t \in TaskIds : tasks[t] # "none" => ~(OfGroup(t) /\ next <= Length)
    <3> SUFFICES ASSUME NEW t \in TaskIds, tasks[t] # "none", OfGroup(t), next <= Length
                 PROVE  FALSE
      OBVIOUS
    <3>1. next \in Indices
      BY <1>0 DEF PlaceInvariant, Indices
    <3> QED
      BY <2>2, <3>1, GroupFollows
  <2>4. \A t \in TaskIds : tasks[t] # "cancelled"
    BY <2>1 DEF TaskInvariant
  <2>5. AbandonedTasksSwept'
    BY <1>1, <2>1, <2>3, <2>4 DEF AbandonedTasksSwept, OfGroup, TaskInvariant
  <2> QED
    BY <1>2, <2>1, <2>2, <2>4, <2>5 DEF TaskInvariant
<1>6. CASE StartGroup
  <2>1. /\ pc = "group" /\ pc' = "running" /\ next \in Indices /\ snapshot' = KnownTasks
        /\ UNCHANGED <<flow, parallel, next, pass, tasks, late>>
    BY <1>6 DEF StartGroup
  <2>2. \A t \in TaskIds : tasks[t] # "none" => Begun(t) /\ ~OfGroup(t)
    BY <2>1, GroupFollows DEF TaskInvariant
  <2>3. \A t \in TaskIds : t \in snapshot' <=> tasks[t] # "none"
    BY <2>1 DEF KnownTasks
  <2> QED
    BY <1>2, <2>1, <2>2, <2>3 DEF TaskInvariant, AbandonedTasksSwept
<1>7. CASE NextBatch
  <2>1. /\ pc = "running" /\ pc' \in {"running", "sweeping"}
        /\ UNCHANGED <<flow, parallel, next, pass, tasks, late, snapshot>>
    BY <1>7 DEF NextBatch, BatchSettled
  <2> QED
    BY <1>2, <2>1 DEF TaskInvariant, AbandonedTasksSwept
<1>8. CASE Sweep
  <2>1. /\ pc = "sweeping" /\ pc' = "thrown"
        /\ UNCHANGED <<flow, parallel, next, pass, late, snapshot>>
        /\ tasks' = [t \in TaskIds |->
                       IF t \notin snapshot /\ tasks[t] = "working"
                       THEN "cancelled" ELSE tasks[t]]
    BY <1>8 DEF Sweep
  <2>2. ASSUME NEW t \in TaskIds
        PROVE  /\ tasks'[t] \in {"none", "working", "completed", "cancelled"}
               /\ tasks'[t] # "none" => tasks[t] # "none"
               /\ tasks'[t] = "cancelled" => OfGroup(t)
               /\ OfGroup(t) => tasks'[t] # "working"
    BY <2>1 DEF TaskInvariant
  <2>3. AbandonedTasksSwept'
    BY <1>1, <2>1, <2>2 DEF AbandonedTasksSwept, OfGroup
  <2> QED
    BY <1>2, <2>1, <2>2, <2>3 DEF TaskInvariant
<1>9. CASE EndGroup
  <2>1. next \in Indices
    BY <1>9 DEF EndGroup, BatchSettled, PlaceInvariant
  <2>2. PICK m : Ends(m)
    BY <2>1, GroupEnds
  <2>3. /\ next' = m + 1 /\ m \in Indices /\ Group = next..m /\ next <= m
        /\ pc = "running" /\ pc' = "group"
        /\ UNCHANGED <<flow, parallel, pass, tasks, late, snapshot>>
    BY <1>9, <2>2 DEF EndGroup, Ends, BatchSettled
  <2>4. \A t \in TaskIds : Begun(t) \/ OfGroup(t) => Begun(t)'
    BY <1>0, <2>3 DEF Begun, OfGroup, Indices
  <2> QED
    BY <2>3, <2>4 DEF TaskInvariant, AbandonedTasksSwept
<1>10. ASSUME NEW i \in Indices, Finish(i)
       PROVE  TaskInvariant'
  BY <1>1, <1>2, <1>10 DEF Finish, TaskInvariant, AbandonedTasksSwept
<1>11. ASSUME NEW i \in Indices, Fail(i)
       PROVE  TaskInvariant'
  <2>1. UNCHANGED <<flow, parallel, next, pass, tasks, late, snapshot>>
    BY <1>11 DEF Fail
  <2>2. pc \notin {"loop", "group", "returned"} /\ pc \in Places
    BY <1>11 DEF Fail, PlaceInvariant
  <2>3. pc' = pc \/ (pc = "running" /\ pc' = "sweeping")
          \/ (pc = "running" /\ pc' = "thrown" /\ ~Shared)
    BY <1>11 DEF Fail
  <2>4. AbandonedTasksSwept'
    BY <1>1, <2>1, <2>3 DEF AbandonedTasksSwept, TaskInvariant
  <2> QED
    BY <1>2, <2>1, <2>2, <2>3, <2>4 DEF TaskInvariant
<1>12. ASSUME NEW i \in Indices, CreateTask(i)
       PROVE  TaskInvariant'
  <2> DEFINE new == <<pass, i>>
  <2>1. /\ UNCHANGED <<flow, parallel, next, pass, snapshot, pc>>
        /\ i \in Group /\ tasks' = [tasks EXCEPT ![new] = "working"]
        /\ late' = IF pc = "thrown" THEN late \union {new} ELSE late
        /\ pc \in {"running", "sweeping", "thrown"}
    BY <1>12 DEF CreateTask, PlaceInvariant, Places
  <2>2. new[1] = pass /\ new[2] = i
    OBVIOUS
  <2>3. OfGroup(new)
    BY <2>1, <2>2 DEF OfGroup
  <2>4. \A t \in TaskIds : tasks'[t] = IF t = new THEN "working" ELSE tasks[t]
    BY <2>1 DEF TaskInvariant
  <2>5. tasks' \in [TaskIds -> {"none", "working", "completed", "cancelled"}]
    BY <2>1 DEF TaskInvariant
  <2> HIDE DEF new
  <2>6. AbandonedTasksSwept'
    BY <1>1, <2>1, <2>3, <2>4 DEF AbandonedTasksSwept, TaskInvariant, OfGroup
  <2> QED
    BY <1>2, <2>1, <2>3, <2>4, <2>5, <2>6 DEF TaskInvariant
<1>13. ASSUME NEW t \in TaskIds, CompleteTask(t)
       PROVE  TaskInvariant'
  <2>1. /\ UNCHANGED <<flow, parallel, next, pass, snapshot, pc, late>>
        /\ tasks[t] = "working" /\ tasks' = [tasks EXCEPT ![t] = "completed"]
    BY <1>13 DEF CompleteTask
  <2>2. \A u \in TaskIds : tasks'[u] = IF u = t THEN "completed" ELSE tasks[u]
    BY <2>1 DEF TaskInvariant
  <2>3. AbandonedTasksSwept'
    BY <1>1, <2>1, <2>2 DEF AbandonedTasksSwept, TaskInvariant
  <2>4. tasks' \in [TaskIds -> {"none", "working", "completed", "cancelled"}]
    BY <2>1 DEF TaskInvariant
  <2> QED
    BY <1>2, <2>1, <2>2, <2>3, <2>4 DEF TaskInvariant
<1>14. CASE Settled \/ UNCHANGED vars
  BY <1>1, <1>2, <1>14 DEF Settled, vars, TaskInvariant, AbandonedTasksSwept
<1> QED
  BY <1>3, <1>4, <1>5, <1>6, <1>7, <1>8, <1>9, <1>10, <1>11, <1>12, <1>13, <1>14 DEF Next

-----------------------------------------------------------------------------
(* The theorems *)

FlowInvariant == PlaceInvariant /\ StateInvariant /\ TaskInvariant

\* A group runs only steps of its own, between two groups the state is what
\* its steps leave, and tasks are told apart by the snapshot.
THEOREM FlowAlways == Spec => []FlowInvariant
<1>1. Init => FlowInvariant
  BY PlaceInit, StateInit, TaskInit DEF FlowInvariant
<1>2. FlowInvariant /\ [Next]_vars => FlowInvariant'
  BY PlaceStep, StateStep, TaskStep DEF FlowInvariant
<1> QED
  BY <1>1, <1>2, PTL DEF Spec

\* Grouping is not observable, for every body whose steps write fields of
\* their own and declare what they read, in its first pass: whatever the planner
\* grouped, however batches and results interleaved.
THEOREM GroupingUnobserved ==
    Spec => [](~Rewrites /\ ~HiddenReads /\ pass <= 1 => SequentialResult)
<1>1. FlowInvariant => (~Rewrites /\ ~HiddenReads /\ pass <= 1 => SequentialResult)
  BY DEF FlowInvariant, StateInvariant, Simple, SequentialResult
<1> QED
  BY <1>1, FlowAlways, PTL

\* A group that failed leaves no task of its own at work, except one started
\* after the sweep, and cancels no other.
THEOREM FailuresSweep == Spec => []AbandonedTasksSwept
<1>1. FlowInvariant => AbandonedTasksSwept
  BY DEF FlowInvariant, TaskInvariant
<1> QED
  BY <1>1, FlowAlways, PTL

\* No node is invoked once a step failed or the flow was stopped.
THEOREM NothingAfterFailure == Spec => NoNodeAfterFailure
<1>1. ASSUME FlowInvariant, [Next]_vars
      PROVE  [\A i \in running' \ running :
                /\ pc = "running" \/ pc = "group"
                /\ ~(stopped /\ flow[i].kind = "execute")]_vars
  <2> SUFFICES ASSUME Next, NEW i \in running' \ running
               PROVE  /\ pc = "running" \/ pc = "group"
                      /\ ~(stopped /\ flow[i].kind = "execute")
    BY <1>1
  <2>1. CASE StartGroup
    BY <2>1 DEF StartGroup
  <2>2. CASE NextBatch
    BY <2>2 DEF NextBatch, BatchSettled
  <2>3. CASE EnterLoop \/ LeaveLoop \/ ExceedLoop \/ AbortedBetween \/ EndBody
    BY <2>3 DEF EnterLoop, LeaveLoop, ExceedLoop, AbortedBetween, EndBody, Unstarted
  <2>4. CASE Stop \/ Sweep \/ EndGroup \/ Settled
    BY <2>4 DEF Stop, Sweep, EndGroup, Settled, vars
  <2>5. ASSUME NEW j \in Indices, Finish(j) \/ Fail(j) \/ CreateTask(j)
        PROVE  FALSE
    BY <2>5 DEF Finish, Fail, CreateTask
  <2>6. ASSUME NEW t \in TaskIds, CompleteTask(t)
        PROVE  FALSE
    BY <2>6 DEF CompleteTask
  <2> QED
    BY <2>1, <2>2, <2>3, <2>4, <2>5, <2>6 DEF Next
<1> QED
  BY <1>1, FlowAlways, PTL DEF Spec, NoNodeAfterFailure
===============================================================================
