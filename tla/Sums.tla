-------------------------------- MODULE Sums --------------------------------
(***************************************************************************)
(* Facts about data that the proofs of the components share: the least and *)
(* the greatest element of a set of numbers, what the operators of the     *)
(* community modules that look for the first or the last of something in a *)
(* sequence return, and what their folds compute: the sum of a function    *)
(* over a finite set.  Nothing is proved by an induction theorem: a set    *)
(* for which a fact fails has a smallest subset for which it fails, and    *)
(* that one cannot be.                                                     *)
(***************************************************************************)
EXTENDS Integers, Sequences, FiniteSets, FiniteSetsExt, SequencesExt,
        FiniteSetTheorems, WellFoundedInduction, TLAPS

LEMMA LeastExists ==
  ASSUME NEW S \in SUBSET Nat, S # {}
  PROVE  \E m \in S : \A k \in S : m <= k
<1> DEFINE Less == {ss \in Nat \X Nat : ss[1] < ss[2]}
<1>1. IsWellFoundedOn(Less, Nat)
  BY NatLessThanWellFounded DEF OpToRel
<1>2. \A x, y \in Nat : <<y, x>> \in Less <=> y < x
  OBVIOUS
<1> HIDE DEF Less
<1>3. PICK m \in S : \A k \in S : ~(<<k, m>> \in Less)
  BY <1>1, WFMin
<1>4. \A k \in S : m <= k
  <2> SUFFICES ASSUME NEW k \in S PROVE m <= k
    OBVIOUS
  <2>1. m \in Nat /\ k \in Nat
    OBVIOUS
  <2>2. ~(k < m)
    BY <1>2, <1>3, <2>1
  <2> QED BY <2>1, <2>2
<1> QED BY <1>4

LEMMA GreatestExists ==
  ASSUME NEW S \in SUBSET Nat, S # {}, NEW n \in Nat, \A k \in S : k <= n
  PROVE  \E m \in S : \A k \in S : k <= m
<1> DEFINE T == {d \in Nat : \E k \in S : d = n - k}
<1>1. T \in SUBSET Nat
  OBVIOUS
<1>2. \A k \in S : k \in Nat /\ n - k \in T
  OBVIOUS
<1>3. \A d \in T : \E k \in S : d = n - k
  OBVIOUS
<1>4. T # {}
  BY <1>2
<1> HIDE DEF T
<1>5. PICK t \in T : \A u \in T : t <= u
  BY <1>1, <1>4, LeastExists
<1>6. PICK m \in S : t = n - m
  BY <1>3
<1>7. ASSUME NEW k \in S PROVE k <= m
  <2>1. m \in Nat /\ k \in Nat
    BY <1>2
  <2>2. n - m <= n - k
    BY <1>2, <1>5, <1>6
  <2> QED BY <2>1, <2>2
<1> QED BY <1>7

LEMMA MaxIsGreatest ==
  ASSUME NEW S \in SUBSET Nat, S # {}, NEW n \in Nat, \A k \in S : k <= n
  PROVE  Max(S) \in S /\ \A k \in S : k <= Max(S)
<1>1. \E m \in S : \A k \in S : k <= m
  BY GreatestExists
<1> QED BY <1>1 DEF Max

LEMMA MinIsLeast ==
  ASSUME NEW S \in SUBSET Nat, S # {}
  PROVE  Min(S) \in S /\ \A k \in S : Min(S) <= k
<1>1. \E m \in S : \A k \in S : m <= k
  BY LeastExists
<1> QED BY <1>1 DEF Min

-----------------------------------------------------------------------------
Pick(s) == CHOOSE x \in s : TRUE

(* g holds the sum of F over each set of the family D.                      *)
Solves(g, F, D) ==
  g = [s \in D |-> IF s = {} THEN 0 ELSE F[Pick(s)] + g[s \ {Pick(s)}]]

SumsOf(g, F, S) == Solves(g, F, SUBSET S)

LEMMA Unfold ==
  ASSUME NEW F, NEW S
  PROVE  SumFunctionOnSet(F, S) = (CHOOSE g : SumsOf(g, F, S))[S]
BY DEF SumFunctionOnSet, FoldFunctionOnSet, MapThenFoldSet, SumsOf, Solves, Pick

LEMMA PickIsIn == ASSUME NEW s, s # {} PROVE Pick(s) \in s
BY DEF Pick

(* A set of sets that has a member has a smallest one.                      *)
LEMMA SmallestSet ==
  ASSUME NEW S, IsFiniteSet(S), NEW B \in SUBSET SUBSET S, B # {}
  PROVE  \E T \in B : \A U \in SUBSET T : U # T => U \notin B
<1>1. IsWellFoundedOn(StrictSubsetOrdering(S), SUBSET S)
  BY FS_StrictSubsetOrderingWellFounded, FS_FiniteSubsetsOfFinite
<1>2. PICK T \in B : \A U \in B : ~(<<U, T>> \in StrictSubsetOrdering(S))
  BY <1>1, WFMin
<1>3. ASSUME NEW U \in SUBSET T, U # T PROVE U \notin B
  BY <1>2, <1>3 DEF StrictSubsetOrdering
<1> QED BY <1>3

LEMMA SumsExist ==
  ASSUME NEW F, NEW S, IsFiniteSet(S)
  PROVE  \E g : SumsOf(g, F, S)
<1> DEFINE Sub(n) == {s \in SUBSET S : Cardinality(s) <= n}
           Bad == {n \in Nat : ~\E g : Solves(g, F, Sub(n))}
<1>1. \A s \in SUBSET S : IsFiniteSet(s) /\ Cardinality(s) \in Nat
  BY FS_Subset, FS_CardinalityType
<1>2. Bad = {}
  <2> SUFFICES ASSUME Bad # {} PROVE FALSE
    OBVIOUS
  <2>1. PICK m \in Bad : \A k \in Bad : m <= k
    BY LeastExists
  <2>2. CASE m = 0
    <3>1. Sub(0) = {{}}
      BY <1>1, FS_EmptySet
    <3>2. PICK g : g = [s \in {{}} |-> 0]
      OBVIOUS
    <3>3. Solves(g, F, {{}})
      BY <3>2 DEF SumsOf, Solves
    <3> QED BY <2>1, <2>2, <3>1, <3>3
  <2>3. CASE m # 0
    <3>1. m - 1 \in Nat /\ m - 1 \notin Bad
      <4>1. m \in Nat
        BY <2>1
      <4> HIDE DEF Bad
      <4> QED BY <2>1, <2>3, <4>1
    <3>2. PICK h : Solves(h, F, Sub(m - 1))
      BY <3>1
    <3>3. PICK g : g = [s \in Sub(m) |->
                         IF s = {} THEN 0 ELSE F[Pick(s)] + h[s \ {Pick(s)}]]
      OBVIOUS
    <3>4. \A s \in Sub(m - 1) : s \in Sub(m) /\ g[s] = h[s]
      <4>1. m \in Nat
        BY <2>1
      <4>2. ASSUME NEW s \in Sub(m - 1) PROVE s \in Sub(m)
        BY <1>1, <4>1
      <4>3. ASSUME NEW s \in Sub(m - 1) PROVE g[s] = h[s]
        <5> HIDE DEF Sub
        <5> QED BY <3>2, <3>3, <4>2 DEF SumsOf, Solves
      <4> QED BY <4>2, <4>3
    <3>5. ASSUME NEW s \in Sub(m), s # {} PROVE s \ {Pick(s)} \in Sub(m - 1)
      <4>1. Cardinality(s \ {Pick(s)}) = Cardinality(s) - 1
        BY <1>1, <3>5, PickIsIn, FS_RemoveElement
      <4> QED BY <1>1, <2>1, <4>1
    <3>6. g = [s \in Sub(m) |->
                IF s = {} THEN 0 ELSE F[Pick(s)] + g[s \ {Pick(s)}]]
      BY <3>3, <3>4, <3>5
    <3> QED BY <2>1, <3>6 DEF SumsOf, Solves
  <2> QED BY <2>2, <2>3
<1>3. PICK n \in Nat : n = Cardinality(S)
  BY FS_CardinalityType
<1>4. Sub(n) = SUBSET S
  BY <1>1, <1>3, FS_Subset
<1>5. n \notin Bad
  BY <1>2
<1> QED BY <1>4, <1>5 DEF SumsOf

(* Two functions that agree have the same sums, whatever set they were      *)
(* computed for.                                                            *)
LEMMA SumsAgree ==
  ASSUME NEW F, NEW G, NEW S, NEW T, NEW g, NEW h, IsFiniteSet(S), T \subseteq S,
         \A x \in T : F[x] = G[x], SumsOf(g, F, S), SumsOf(h, G, T)
  PROVE  \A s \in SUBSET T : g[s] = h[s]
<1> DEFINE Bad == {s \in SUBSET T : g[s] # h[s]}
<1> SUFFICES ASSUME Bad # {} PROVE FALSE
  OBVIOUS
<1>0. Bad \in SUBSET SUBSET T /\ IsFiniteSet(T)
  BY FS_Subset
<1>1. PICK s \in Bad : \A U \in SUBSET s : U # s => U \notin Bad
  <2> HIDE DEF Bad
  <2> QED BY <1>0, SmallestSet
<1>2. s # {}
  BY <1>1 DEF SumsOf, Solves
<1>3. Pick(s) \in s
  BY <1>2, PickIsIn
<1>4. PICK u : u = s \ {Pick(s)}
  OBVIOUS
<1>5. u \in SUBSET T /\ u \in SUBSET S /\ g[u] = h[u]
  BY <1>1, <1>3, <1>4
<1>6. g[s] = F[Pick(s)] + g[u] /\ h[s] = G[Pick(s)] + h[u]
  BY <1>1, <1>2, <1>4 DEF SumsOf, Solves
<1> QED BY <1>1, <1>3, <1>5, <1>6

LEMMA SumCongruence ==
  ASSUME NEW F, NEW G, NEW S, IsFiniteSet(S), \A x \in S : F[x] = G[x]
  PROVE  SumFunctionOnSet(F, S) = SumFunctionOnSet(G, S)
<1>1. PICK g : g = (CHOOSE f : SumsOf(f, F, S))
  OBVIOUS
<1>2. PICK h : h = (CHOOSE f : SumsOf(f, G, S))
  OBVIOUS
<1>3. SumsOf(g, F, S) /\ SumsOf(h, G, S)
  BY <1>1, <1>2, SumsExist
<1>4. g[S] = h[S]
  <2>1. S \subseteq S
    OBVIOUS
  <2>2. \A v \in SUBSET S : g[v] = h[v]
    BY <1>3, <2>1, SumsAgree
  <2> QED BY <2>2
<1> QED BY <1>1, <1>2, <1>4, Unfold

LEMMA SumOfNothing == ASSUME NEW F PROVE SumFunctionOnSet(F, {}) = 0
<1>1. PICK g : g = (CHOOSE f : SumsOf(f, F, {}))
  OBVIOUS
<1>2. SumsOf(g, F, {})
  BY <1>1, SumsExist, FS_EmptySet
<1>3. g[{}] = 0
  BY <1>2 DEF SumsOf, Solves
<1> QED BY <1>1, <1>3, Unfold

LEMMA SumPicks ==
  ASSUME NEW F, NEW S, IsFiniteSet(S), S # {}
  PROVE  SumFunctionOnSet(F, S) = F[Pick(S)] + SumFunctionOnSet(F, S \ {Pick(S)})
<1>1. PICK g : g = (CHOOSE f : SumsOf(f, F, S))
  OBVIOUS
<1>2. PICK u : u = S \ {Pick(S)}
  OBVIOUS
<1>3. PICK h : h = (CHOOSE f : SumsOf(f, F, u))
  OBVIOUS
<1>4. IsFiniteSet(u) /\ u \in SUBSET S
  BY <1>2, FS_Subset
<1>5. SumsOf(g, F, S) /\ SumsOf(h, F, u)
  BY <1>1, <1>3, <1>4, SumsExist
<1>6. g[u] = h[u]
  <2>0. u \subseteq S /\ \A x \in u : F[x] = F[x]
    BY <1>4
  <2>1. \A v \in SUBSET u : g[v] = h[v]
    BY <2>0, <1>5, SumsAgree
  <2> QED BY <2>1
<1>7. g[S] = F[Pick(S)] + g[u]
  BY <1>2, <1>5 DEF SumsOf, Solves
<1> QED BY <1>1, <1>2, <1>3, <1>6, <1>7, Unfold

LEMMA SumType ==
  ASSUME NEW F, NEW S, IsFiniteSet(S), \A x \in S : F[x] \in Int
  PROVE  SumFunctionOnSet(F, S) \in Int
<1> DEFINE Bad == {s \in SUBSET S : SumFunctionOnSet(F, s) \notin Int}
<1> SUFFICES ASSUME Bad # {} PROVE FALSE
  OBVIOUS
<1>0. Bad \in SUBSET SUBSET S
  OBVIOUS
<1>1. PICK s \in Bad : \A U \in SUBSET s : U # s => U \notin Bad
  <2> HIDE DEF Bad
  <2> QED BY <1>0, SmallestSet
<1>2. s # {} /\ IsFiniteSet(s)
  <2>1. SumFunctionOnSet(F, {}) \in Int
    BY SumOfNothing
  <2> QED BY <1>1, <2>1, FS_Subset
<1>3. Pick(s) \in s
  BY <1>2, PickIsIn
<1>4. PICK u : u = s \ {Pick(s)}
  OBVIOUS
<1>5. u \in SUBSET S /\ u \notin Bad
  BY <1>1, <1>3, <1>4
<1>6. SumFunctionOnSet(F, s) = F[Pick(s)] + SumFunctionOnSet(F, u)
  BY <1>2, <1>4, SumPicks
<1> QED BY <1>1, <1>3, <1>5, <1>6

(* The order in which the elements are taken makes no difference.           *)
LEMMA SumRemoves ==
  ASSUME NEW F, NEW S, IsFiniteSet(S), \A x \in S : F[x] \in Int, NEW a \in S
  PROVE  SumFunctionOnSet(F, S) = F[a] + SumFunctionOnSet(F, S \ {a})
<1> DEFINE Sum(s) == SumFunctionOnSet(F, s)
           Bad == {s \in SUBSET S : \E b \in s : Sum(s) # F[b] + Sum(s \ {b})}
<1> SUFFICES ASSUME Bad # {} PROVE FALSE
  OBVIOUS
<1>0. Bad \in SUBSET SUBSET S
  OBVIOUS
<1>1. PICK s \in Bad : \A U \in SUBSET s : U # s => U \notin Bad
  <2> HIDE DEF Bad
  <2> QED BY <1>0, SmallestSet
<1>2. PICK b \in s : Sum(s) # F[b] + Sum(s \ {b})
  BY <1>1
<1>3. s # {} /\ IsFiniteSet(s)
  BY <1>1, <1>2, FS_Subset
<1>4. PICK c \in s : c = Pick(s)
  BY <1>3, PickIsIn
<1>5. Sum(s) = F[c] + Sum(s \ {c})
  BY <1>3, <1>4, SumPicks
<1>6. b # c
  BY <1>2, <1>5
<1>7. /\ s \ {c} \in SUBSET S /\ s \ {c} \notin Bad /\ b \in s \ {c}
      /\ s \ {b} \in SUBSET S /\ s \ {b} \notin Bad /\ c \in s \ {b}
  BY <1>1, <1>2, <1>4, <1>6
<1>8. /\ Sum(s \ {c}) = F[b] + Sum((s \ {c}) \ {b})
      /\ Sum(s \ {b}) = F[c] + Sum((s \ {b}) \ {c})
  BY <1>7
<1>9. PICK u : u = (s \ {c}) \ {b} /\ u = (s \ {b}) \ {c}
  OBVIOUS
<1>10. IsFiniteSet(u) /\ \A x \in u : F[x] \in Int
  BY <1>1, <1>3, <1>9, FS_Subset
<1>11. PICK n : n = Sum(u)
  OBVIOUS
<1>12. n \in Int
  BY <1>10, <1>11, SumType
<1>13. F[b] \in Int /\ F[c] \in Int
  BY <1>1, <1>2, <1>4
<1>14. Sum(s) = F[c] + (F[b] + n) /\ Sum(s \ {b}) = F[c] + n
  BY <1>5, <1>8, <1>9, <1>11
<1> HIDE DEF Sum
<1> QED BY <1>2, <1>12, <1>13, <1>14

LEMMA SumAdds ==
  ASSUME NEW F, NEW S, IsFiniteSet(S), NEW a, a \notin S,
         \A x \in S \union {a} : F[x] \in Int
  PROVE  SumFunctionOnSet(F, S \union {a}) = F[a] + SumFunctionOnSet(F, S)
<1>1. PICK T : T = S \union {a}
  OBVIOUS
<1>2. IsFiniteSet(T) /\ a \in T /\ T \ {a} = S
  BY <1>1, FS_AddElement
<1>3. SumFunctionOnSet(F, T) = F[a] + SumFunctionOnSet(F, T \ {a})
  BY <1>1, <1>2, SumRemoves
<1> QED BY <1>1, <1>2, <1>3

LEMMA SumNegates ==
  ASSUME NEW F, NEW G, NEW S, IsFiniteSet(S),
         \A x \in S : F[x] \in Int /\ G[x] = -F[x]
  PROVE  SumFunctionOnSet(G, S) = -SumFunctionOnSet(F, S)
<1> DEFINE Bad == {s \in SUBSET S : SumFunctionOnSet(G, s) # -SumFunctionOnSet(F, s)}
<1> SUFFICES ASSUME Bad # {} PROVE FALSE
  OBVIOUS
<1>0. Bad \in SUBSET SUBSET S
  OBVIOUS
<1>1. PICK s \in Bad : \A U \in SUBSET s : U # s => U \notin Bad
  <2> HIDE DEF Bad
  <2> QED BY <1>0, SmallestSet
<1>2. s # {} /\ IsFiniteSet(s)
  <2>1. SumFunctionOnSet(G, {}) = -SumFunctionOnSet(F, {})
    BY SumOfNothing
  <2> QED BY <1>1, <2>1, FS_Subset
<1>3. PICK a \in s : a = Pick(s)
  BY <1>2, PickIsIn
<1>4. PICK u : u = s \ {a}
  OBVIOUS
<1>5. IsFiniteSet(u) /\ u \in SUBSET S /\ u \notin Bad
  BY <1>1, <1>2, <1>4, FS_Subset
<1>6. PICK m : m = SumFunctionOnSet(F, u)
  OBVIOUS
<1>7. m \in Int
  BY <1>5, <1>6, SumType
<1>8. /\ SumFunctionOnSet(F, s) = F[a] + m
      /\ SumFunctionOnSet(G, s) = G[a] + SumFunctionOnSet(G, u)
  BY <1>2, <1>3, <1>4, <1>6, SumPicks
<1>9. SumFunctionOnSet(G, u) = -m
  BY <1>5, <1>6
<1>10. F[a] \in Int /\ G[a] = -F[a]
  BY <1>1
<1>11. SumFunctionOnSet(G, s) = -SumFunctionOnSet(F, s)
  BY <1>7, <1>8, <1>9, <1>10
<1> QED BY <1>1, <1>11

(* A sum does not depend on how its elements are named.                     *)
LEMMA SumRenames ==
  ASSUME NEW F, NEW G, NEW f, NEW S, IsFiniteSet(S),
         \A x \in S : F[x] \in Int /\ G[f[x]] = F[x],
         \A x, y \in S : f[x] = f[y] => x = y
  PROVE  SumFunctionOnSet(G, {f[x] : x \in S}) = SumFunctionOnSet(F, S)
<1> DEFINE Img(s) == {f[x] : x \in s}
           Bad == {s \in SUBSET S : SumFunctionOnSet(G, Img(s)) # SumFunctionOnSet(F, s)}
<1> SUFFICES ASSUME Bad # {} PROVE FALSE
  OBVIOUS
<1>0. Bad \in SUBSET SUBSET S
  OBVIOUS
<1>1. PICK s \in Bad : \A U \in SUBSET s : U # s => U \notin Bad
  <2> HIDE DEF Bad
  <2> QED BY <1>0, SmallestSet
<1>2. s # {} /\ IsFiniteSet(s)
  <2>1. Img({}) = {}
    OBVIOUS
  <2>2. SumFunctionOnSet(G, Img({})) = SumFunctionOnSet(F, {})
    BY <2>1, SumOfNothing
  <2> QED BY <1>1, <2>2, FS_Subset
<1>3. PICK a \in s : TRUE
  BY <1>2
<1>4. PICK u : u = s \ {a}
  OBVIOUS
<1>5. IsFiniteSet(u) /\ u \in SUBSET S /\ u \notin Bad
  BY <1>1, <1>2, <1>3, <1>4, FS_Subset
<1>6. SumFunctionOnSet(G, Img(u)) = SumFunctionOnSet(F, u)
  BY <1>5
<1>7. PICK w : w = Img(u)
  OBVIOUS
<1>8. IsFiniteSet(w)
  <2>1. PICK g : g = [x \in u |-> f[x]]
    OBVIOUS
  <2>2. g \in Surjection(u, w)
    BY <1>7, <2>1 DEF Surjection
  <2> QED BY <1>5, <2>2, FS_Surjection
<1>9. f[a] \notin w /\ Img(s) = w \union {f[a]}
  BY <1>1, <1>3, <1>4, <1>7
<1>10. \A z \in w \union {f[a]} : G[z] \in Int
  BY <1>1, <1>3, <1>5, <1>7
<1>11. SumFunctionOnSet(G, Img(s)) = G[f[a]] + SumFunctionOnSet(G, w)
  <2> HIDE DEF Img
  <2> QED BY <1>8, <1>9, <1>10, SumAdds
<1>12. SumFunctionOnSet(F, s) = F[a] + SumFunctionOnSet(F, u)
  BY <1>1, <1>2, <1>3, <1>4, SumRemoves
<1>13. G[f[a]] = F[a]
  BY <1>1, <1>3
<1>14. SumFunctionOnSet(G, Img(s)) = SumFunctionOnSet(F, s)
  BY <1>6, <1>7, <1>11, <1>12, <1>13
<1> QED BY <1>1, <1>14

LEMMA SumOfUnion ==
  ASSUME NEW F, NEW A, NEW B, IsFiniteSet(A), IsFiniteSet(B), A \intersect B = {},
         \A x \in A \union B : F[x] \in Int
  PROVE  SumFunctionOnSet(F, A \union B)
           = SumFunctionOnSet(F, A) + SumFunctionOnSet(F, B)
<1> DEFINE Sum(s) == SumFunctionOnSet(F, s)
           Bad == {s \in SUBSET B : Sum(A \union s) # Sum(A) + Sum(s)}
<1> SUFFICES ASSUME Bad # {} PROVE FALSE
  OBVIOUS
<1>0. Bad \in SUBSET SUBSET B
  OBVIOUS
<1>1. PICK s \in Bad : \A U \in SUBSET s : U # s => U \notin Bad
  <2> HIDE DEF Bad
  <2> QED BY <1>0, SmallestSet
<1>2. \A s2 \in SUBSET B : IsFiniteSet(s2) /\ \A x \in s2 : F[x] \in Int
  BY FS_Subset
<1>3. Sum(A) \in Int
  BY SumType
<1>4. CASE s = {}
  <2>1. A \union s = A /\ Sum({}) = 0
    BY <1>4, SumOfNothing
  <2> QED BY <1>1, <1>3, <1>4, <2>1
<1>5. CASE s # {}
  <2>1. PICK a \in s : TRUE
    BY <1>5
  <2>2. PICK u : u = s \ {a}
    OBVIOUS
  <2>3. u \in SUBSET B /\ u # s /\ u \in SUBSET s
    BY <1>1, <2>1, <2>2
  <2>4. Sum(A \union u) = Sum(A) + Sum(u)
    BY <1>1, <2>3
  <2>5. Sum(s) = F[a] + Sum(u)
    BY <1>1, <1>2, <2>1, <2>2, SumRemoves
  <2>6. PICK v : v = A \union u
    OBVIOUS
  <2>7. IsFiniteSet(v) /\ a \notin v /\ v \union {a} = A \union s
    BY <1>1, <1>2, <2>1, <2>2, <2>3, <2>6, FS_Union
  <2>8. \A x \in v \union {a} : F[x] \in Int
    BY <1>1, <2>7
  <2>9. SumFunctionOnSet(F, v \union {a}) = F[a] + SumFunctionOnSet(F, v)
    BY <2>7, <2>8, SumAdds
  <2>10. PICK m, n, f : m = Sum(A) /\ n = Sum(u) /\ f = F[a]
    OBVIOUS
  <2>11. n \in Int /\ f \in Int
    BY <1>1, <1>2, <2>1, <2>3, <2>10, SumType
  <2>12. Sum(A \union s) = f + (m + n) /\ Sum(s) = f + n
    BY <2>4, <2>5, <2>6, <2>7, <2>9, <2>10
  <2>13. Sum(A \union s) # m + Sum(s)
    BY <1>1, <2>10
  <2> HIDE DEF Sum
  <2> QED BY <1>3, <2>10, <2>11, <2>12, <2>13
<1> QED BY <1>4, <1>5

(* Amounts that are not negative make a part no greater than the whole.     *)
LEMMA SumsGrow ==
  ASSUME NEW F, NEW S, IsFiniteSet(S), \A x \in S : F[x] \in Nat, NEW T \in SUBSET S
  PROVE  /\ SumFunctionOnSet(F, T) \in Nat
         /\ SumFunctionOnSet(F, T) <= SumFunctionOnSet(F, S)
<1> DEFINE Sum(s) == SumFunctionOnSet(F, s)
           Bad == {s \in SUBSET S : ~(Sum(s) \in Nat /\ \A t \in SUBSET s : Sum(t) <= Sum(s))}
<1>1. Bad = {}
  <2> SUFFICES ASSUME Bad # {} PROVE FALSE
    OBVIOUS
  <2>0. Bad \in SUBSET SUBSET S
    OBVIOUS
  <2>1. PICK s \in Bad : \A U \in SUBSET s : U # s => U \notin Bad
    <3> HIDE DEF Bad
    <3> QED BY <2>0, SmallestSet
  <2>2. IsFiniteSet(s)
    BY <2>1, FS_Subset
  <2>3. CASE s = {}
    <3>1. Sum({}) = 0 /\ SUBSET {} = {{}}
      BY SumOfNothing
    <3> QED BY <2>1, <2>3, <3>1
  <2>4. ASSUME NEW a \in s
        PROVE  /\ Sum(s) = F[a] + Sum(s \ {a})
               /\ F[a] \in Nat /\ Sum(s \ {a}) \in Nat
               /\ \A t \in SUBSET (s \ {a}) : Sum(t) <= Sum(s \ {a})
    <3>1. Sum(s) = F[a] + Sum(s \ {a})
      BY <2>1, <2>2, SumRemoves
    <3>2. s \ {a} \in SUBSET S /\ s \ {a} \notin Bad
      BY <2>1
    <3>3. Sum(s \ {a}) \in Nat /\ \A t \in SUBSET (s \ {a}) : Sum(t) <= Sum(s \ {a})
      BY <3>2
    <3> QED BY <2>1, <3>1, <3>3
  <2>5. CASE s # {}
    <3>1. PICK b \in s : TRUE
      BY <2>5
    <3>2. Sum(s) \in Nat
      <4>1. PICK m : m = Sum(s \ {b})
        OBVIOUS
      <4>2. Sum(s) = F[b] + m /\ F[b] \in Nat /\ m \in Nat
        BY <2>4, <4>1
      <4> HIDE DEF Sum
      <4> QED BY <4>2
    <3>3. ASSUME NEW t \in SUBSET s PROVE Sum(t) <= Sum(s)
      <4>1. CASE t = s
        BY <3>2, <4>1
      <4>2. CASE t # s
        <5>1. PICK a \in s : a \notin t
          BY <4>2
        <5>2. t \in SUBSET (s \ {a})
          BY <5>1
        <5>3. PICK m : m = Sum(s \ {a})
          OBVIOUS
        <5>4. Sum(s) = F[a] + m /\ F[a] \in Nat /\ m \in Nat /\ Sum(t) <= m
          BY <2>4, <5>2, <5>3
        <5>5. Sum(t) \in Int
          <6>1. IsFiniteSet(t) /\ \A x \in t : F[x] \in Int
            BY <2>1, <2>2, FS_Subset
          <6> QED BY <6>1, SumType
        <5> HIDE DEF Sum
        <5> QED BY <5>4, <5>5
      <4> QED BY <4>1, <4>2
    <3> QED BY <2>1, <3>2, <3>3
  <2> QED BY <2>3, <2>5
<1>2. S \notin Bad /\ T \notin Bad
  BY <1>1
<1> QED BY <1>2

LEMMA SumOfEqual ==
  ASSUME NEW F, NEW c \in Nat, NEW n \in Nat, \A x \in 1..n : F[x] = c
  PROVE  SumFunctionOnSet(F, 1..n) = c * n
<1> DEFINE Bad == {m \in 0..n : SumFunctionOnSet(F, 1..m) # c * m}
<1> SUFFICES ASSUME Bad # {} PROVE FALSE
  OBVIOUS
<1>1. PICK m \in Bad : \A k \in Bad : m <= k
  <2>1. Bad \in SUBSET Nat
    OBVIOUS
  <2> HIDE DEF Bad
  <2> QED BY <2>1, LeastExists
<1>2. m \in Nat /\ m <= n
  BY <1>1
<1>3. m # 0
  <2>1. 1..0 = {} /\ c * 0 = 0
    OBVIOUS
  <2>2. SumFunctionOnSet(F, 1..0) = c * 0
    BY <2>1, SumOfNothing
  <2> QED BY <1>1, <2>2
<1>4. PICK k : k = m - 1
  OBVIOUS
<1>5. k \in Nat /\ k \in 0..n /\ k \notin Bad /\ m = k + 1
  <2>1. ~(m <= k)
    BY <1>2, <1>3, <1>4
  <2>2. k \notin Bad
    <3> HIDE DEF Bad
    <3> QED BY <1>1, <2>1
  <2> QED BY <1>2, <1>3, <1>4, <2>2
<1>6. SumFunctionOnSet(F, 1..k) = c * k
  BY <1>5
<1>7. IsFiniteSet(1..k) /\ m \notin 1..k /\ 1..m = (1..k) \union {m}
  <2>1. IsFiniteSet(1..k)
    BY <1>5, FS_Interval
  <2>2. m \notin 1..k /\ 1..m = (1..k) \union {m}
    BY <1>5
  <2> QED BY <2>1, <2>2
<1>8. \A x \in (1..k) \union {m} : F[x] \in Int
  BY <1>2, <1>5
<1>9. SumFunctionOnSet(F, 1..m) = F[m] + SumFunctionOnSet(F, 1..k)
  BY <1>7, <1>8, SumAdds
<1>10. F[m] = c
  BY <1>2, <1>3
<1>11. c + c * k = c * m
  BY <1>5
<1> QED BY <1>1, <1>6, <1>9, <1>10, <1>11
=============================================================================
