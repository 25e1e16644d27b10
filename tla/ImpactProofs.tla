------------------------------ MODULE ImpactProofs ------------------------------
(***************************************************************************)
(* Theorems about ChangeImpact, the packs of ReportPack and the metrics of *)
(* RiskLens, for every graph, set of funds, companies and documents, every *)
(* interleaving of ingests, packs and an impact and every failure: the     *)
(* figures of a pack agree, a filed report is anchored, the queries shown  *)
(* reproduce the numbers, and an impact is the reach of its change.        *)
(***************************************************************************)
EXTENDS ChangeImpact, FiniteSetTheorems, TLAPS

-------------------------------------------------------------------------------
(* Sums over finite sets.  MapThenSumSet takes the elements out one by one; *)
(* induction is stated with sets, and rests on the pigeonhole principle.   *)

\* Induction over the naturals, as a set: a set that a number is missing from
\* would map into itself without its zero.
LEMMA NatInd ==
    ASSUME NEW V, 0 \in V, \A n \in Nat : n \in V => n + 1 \in V, NEW m \in Nat
    PROVE  m \in V
<1> SUFFICES ASSUME m \notin V PROVE FALSE
  OBVIOUS
<1> DEFINE W == V \cap (0 .. m)
           next == [n \in W |-> n + 1]
<1>1. IsFiniteSet(W) /\ IsFiniteSet(W \ {0}) /\ Cardinality(W \ {0}) < Cardinality(W)
  <2>1. IsFiniteSet(0 .. m) /\ W \subseteq 0 .. m /\ 0 \in W
    BY FS_Interval
  <2>2. IsFiniteSet(W)
    BY <2>1, FS_Subset
  <2>3. IsFiniteSet(W \ {0}) /\ Cardinality(W \ {0}) = Cardinality(W) - 1
    BY <2>1, <2>2, FS_RemoveElement
  <2>4. Cardinality(W) \in Nat
    BY <2>2, FS_CardinalityType
  <2>5. QED
    BY <2>2, <2>3, <2>4
<1>2. next \in [W -> W \ {0}]
  OBVIOUS
<1>3. \A x, y \in W : next[x] = next[y] => x = y
  OBVIOUS
<1> HIDE DEF W, next
<1>4. \E x, y \in W : x # y /\ next[x] = next[y]
  BY <1>1, <1>2, FS_PigeonHole
<1>5. QED
  BY <1>3, <1>4

\* A property of the subsets of a finite set that the empty set has, and a set
\* has when each set with one element less has it.
LEMMA SetInd ==
    ASSUME NEW U, IsFiniteSet(U), NEW V, {} \in V,
           \A s \in SUBSET U : s # {} /\ (\A x \in s : s \ {x} \in V) => s \in V
    PROVE  SUBSET U \subseteq V
<1> DEFINE N == {n \in Nat : \A s \in SUBSET U : Cardinality(s) <= n => s \in V}
<1>1. \A s \in SUBSET U : IsFiniteSet(s) /\ Cardinality(s) \in Nat /\ (Cardinality(s) = 0 => s = {})
  BY FS_Subset, FS_CardinalityType, FS_EmptySet
<1>2. 0 \in N
  BY <1>1
<1>3. ASSUME NEW n \in Nat, n \in N PROVE n + 1 \in N
  <2>1. ASSUME NEW s \in SUBSET U, Cardinality(s) <= n + 1, s # {} PROVE s \in V
    <3>1. ASSUME NEW x \in s PROVE s \ {x} \in V
      <4>1. Cardinality(s \ {x}) = Cardinality(s) - 1
        BY <1>1, FS_RemoveElement
      <4>2. s \ {x} \in SUBSET U /\ Cardinality(s \ {x}) <= n
        BY <1>1, <2>1, <4>1
      <4>3. QED
        BY <1>3, <4>2
    <3>2. QED
      BY <2>1, <3>1
  <2>2. \A s \in SUBSET U : Cardinality(s) <= n + 1 => s \in V
    BY <2>1
  <2>3. n + 1 \in Nat
    OBVIOUS
  <2>4. QED
    BY <2>2, <2>3
<1> HIDE DEF N
<1>4. \A n \in Nat : n \in N
  BY <1>2, <1>3, NatInd
<1>5. ASSUME NEW s \in SUBSET U PROVE s \in V
  BY <1>1, <1>4 DEF N
<1>6. QED
  BY <1>5

\* g sums h over the subsets of U, as MapThenSumSet does.
Sums(h, U, g) ==
    g = [s \in SUBSET U |->
            IF s = {} THEN 0
            ELSE h[CHOOSE x \in s : TRUE] + g[s \ {CHOOSE x \in s : TRUE}]]

SumOver(h, S) == MapThenSumSet(LAMBDA x : h[x], S)

LEMMA SumExists == ASSUME NEW U, IsFiniteSet(U), NEW h PROVE \E g : Sums(h, U, g)
<1> DEFINE Upto(n) == {t \in SUBSET U : Cardinality(t) <= n}
           c(s) == CHOOSE x \in s : TRUE
           Part(n, g) == g = [s \in Upto(n) |-> IF s = {} THEN 0 ELSE h[c(s)] + g[s \ {c(s)}]]
           N == {n \in Nat : \E g : Part(n, g)}
<1>1. \A s \in SUBSET U : IsFiniteSet(s) /\ Cardinality(s) \in Nat /\ (Cardinality(s) = 0 => s = {})
  BY FS_Subset, FS_CardinalityType, FS_EmptySet
<1>2. \A s : s # {} => c(s) \in s
  OBVIOUS
<1> HIDE DEF c
<1>3. ASSUME NEW s \in SUBSET U, s # {}
      PROVE  s \ {c(s)} \in SUBSET U /\ Cardinality(s \ {c(s)}) = Cardinality(s) - 1
  BY <1>1, <1>2, <1>3, FS_RemoveElement
<1>4. 0 \in N
  <2>1. \A s \in Upto(0) : s = {}
    BY <1>1
  <2>2. Part(0, [s \in Upto(0) |-> 0])
    BY <2>1
  <2>3. QED
    BY <2>2
<1>5. ASSUME NEW n \in Nat, n \in N PROVE n + 1 \in N
  <2>1. PICK g : Part(n, g)
    BY <1>5
  <2> DEFINE k == [s \in Upto(n + 1) |-> IF s = {} THEN 0 ELSE h[c(s)] + g[s \ {c(s)}]]
  <2>2. ASSUME NEW t \in Upto(n) PROVE t \in Upto(n + 1) /\ k[t] = g[t]
    <3>1. t \in Upto(n + 1)
      BY <1>1
    <3>2. QED
      BY <2>1, <3>1
  <2>3. ASSUME NEW s \in Upto(n + 1), s # {} PROVE s \ {c(s)} \in Upto(n)
    BY <1>1, <1>3, <2>3
  <2> HIDE DEF Upto
  <2>4. k = [s \in Upto(n + 1) |-> IF s = {} THEN 0 ELSE h[c(s)] + k[s \ {c(s)}]]
    <3>1. \A s \in Upto(n + 1) : s # {} => k[s \ {c(s)}] = g[s \ {c(s)}]
      BY <2>2, <2>3
    <3>2. QED
      BY <3>1
  <2> HIDE DEF k
  <2>5. Part(n + 1, k)
    BY <2>4
  <2>6. n + 1 \in Nat
    OBVIOUS
  <2> HIDE DEF Part
  <2>7. QED
    BY <2>5, <2>6
<1> HIDE DEF N
<1>6. Cardinality(U) \in N
  BY <1>1, <1>4, <1>5, NatInd
<1>7. SUBSET U = Upto(Cardinality(U))
  BY FS_Subset
<1>8. PICK g : Part(Cardinality(U), g)
  BY <1>6 DEF N
<1>9. Sums(h, U, g)
  BY <1>7, <1>8 DEF Sums, c
<1>10. QED
  BY <1>9

LEMMA SumOverIs ==
    ASSUME NEW S, IsFiniteSet(S), NEW h
    PROVE  \E g : Sums(h, S, g) /\ SumOver(h, S) = g[S]
<1> DEFINE P(iter) == iter = [s \in SUBSET S |->
                    IF s = {} THEN 0
                    ELSE h[CHOOSE x \in s : TRUE] + iter[s \ {CHOOSE x \in s : TRUE}]]
           g == CHOOSE iter : P(iter)
<1>1. SumOver(h, S) = g[S]
  BY DEF SumOver, MapThenSumSet, MapThenFoldSet
<1>2. PICK k : Sums(h, S, k)
  BY SumExists
<1>3. P(k)
  BY <1>2 DEF Sums
<1> HIDE DEF P
<1>4. P(g)
  BY <1>3
<1> HIDE DEF g
<1>5. Sums(h, S, g)
  BY <1>4 DEF Sums, P
<1>6. QED
  BY <1>1, <1>5

\* Whatever element is taken out first.
LEMMA SumStep ==
    ASSUME NEW U, IsFiniteSet(U), NEW h, \A x \in U : h[x] \in Int, NEW g, Sums(h, U, g)
    PROVE  /\ g[{}] = 0
           /\ \A s \in SUBSET U : g[s] \in Int /\ \A x \in s : g[s] = h[x] + g[s \ {x}]
<1> DEFINE c(s) == CHOOSE x \in s : TRUE
           I == {s \in SUBSET U : g[s] \in Int}
           V == {s \in SUBSET U : \A x \in s : g[s] = h[x] + g[s \ {x}]}
<1>1. \A s \in SUBSET U : g[s] = IF s = {} THEN 0 ELSE h[c(s)] + g[s \ {c(s)}]
  BY DEF Sums
<1>2. \A s : s # {} => c(s) \in s
  OBVIOUS
<1> HIDE DEF c
<1>3. g[{}] = 0
  BY <1>1
<1>4. \A s \in SUBSET U : s # {} => c(s) \in s /\ h[c(s)] \in Int /\ g[s] = h[c(s)] + g[s \ {c(s)}]
  BY <1>1, <1>2
<1>5. ASSUME NEW s \in SUBSET U, s # {}, \A x \in s : s \ {x} \in I PROVE s \in I
  <2>1. s \ {c(s)} \in I /\ h[c(s)] \in Int /\ g[s] = h[c(s)] + g[s \ {c(s)}]
    BY <1>4, <1>5
  <2>2. QED
    BY <2>1
<1>6. {} \in I
  BY <1>3
<1> HIDE DEF I
<1>7. SUBSET U \subseteq I
  BY <1>5, <1>6, SetInd
<1>8. \A s \in SUBSET U : g[s] \in Int
  BY <1>7 DEF I
<1>9. ASSUME NEW s \in SUBSET U, s # {}, \A x \in s : s \ {x} \in V PROVE s \in V
  <2>1. c(s) \in s /\ h[c(s)] \in Int /\ g[s] = h[c(s)] + g[s \ {c(s)}]
    BY <1>4, <1>9
  <2>2. ASSUME NEW x \in s PROVE g[s] = h[x] + g[s \ {x}]
    <3>1. CASE x = c(s)
      BY <2>1, <3>1
    <3>2. CASE x # c(s)
      <4> DEFINE r == (s \ {x}) \ {c(s)}
      <4>1. x \in s \ {c(s)} /\ c(s) \in s \ {x} /\ (s \ {c(s)}) \ {x} = r
        BY <2>1, <3>2
      <4>2. g[s \ {c(s)}] = h[x] + g[r] /\ g[s \ {x}] = h[c(s)] + g[r]
        BY <1>9, <2>1, <4>1
      <4>3. r \in SUBSET U /\ h[x] \in Int
        OBVIOUS
      <4> HIDE DEF r
      <4>4. g[r] \in Int
        BY <1>8, <4>3
      <4>5. QED
        BY <2>1, <4>2, <4>3, <4>4
    <3>3. QED
      BY <3>1, <3>2
  <2>3. QED
    BY <2>2
<1>10. {} \in V
  OBVIOUS
<1> HIDE DEF V
<1>11. SUBSET U \subseteq V
  BY <1>9, <1>10, SetInd
<1>12. QED
  BY <1>3, <1>8, <1>11 DEF V

\* A sum does not depend on what else could have been summed.
LEMMA SumSame ==
    ASSUME NEW U, IsFiniteSet(U), NEW h, \A x \in U : h[x] \in Int, NEW g, Sums(h, U, g),
           NEW S, S \subseteq U, NEW j, \A x \in S : j[x] = h[x], NEW k, Sums(j, S, k)
    PROVE  \A s \in SUBSET S : k[s] = g[s]
<1> DEFINE V == {s \in SUBSET S : k[s] = g[s]}
<1>1. IsFiniteSet(S) /\ \A x \in S : j[x] \in Int
  BY FS_Subset
<1>2. k[{}] = 0 /\ \A s \in SUBSET S : \A x \in s : k[s] = j[x] + k[s \ {x}]
  BY <1>1, SumStep
<1>3. g[{}] = 0 /\ \A s \in SUBSET U : \A x \in s : g[s] = h[x] + g[s \ {x}]
  BY SumStep
<1>4. ASSUME NEW s \in SUBSET S, s # {}, \A x \in s : s \ {x} \in V PROVE s \in V
  <2>1. PICK x \in s : TRUE
    BY <1>4
  <2>2. k[s] = j[x] + k[s \ {x}] /\ g[s] = h[x] + g[s \ {x}] /\ j[x] = h[x]
    BY <1>2, <1>3
  <2>3. QED
    BY <1>4, <2>2
<1>5. {} \in V
  BY <1>2, <1>3
<1> HIDE DEF V
<1>6. SUBSET S \subseteq V
  BY <1>1, <1>4, <1>5, SetInd
<1>7. QED
  BY <1>6 DEF V

\* The sum of two sets with nothing in common ...
LEMMA SumUnion ==
    ASSUME NEW U, IsFiniteSet(U), NEW h, \A x \in U : h[x] \in Int, NEW g, Sums(h, U, g)
    PROVE  \A s, t \in SUBSET U : s \cap t = {} => g[s \cup t] = g[s] + g[t]
<1> DEFINE V == {s \in SUBSET U : \A t \in SUBSET U : s \cap t = {} => g[s \cup t] = g[s] + g[t]}
<1>1. g[{}] = 0 /\ \A s \in SUBSET U : g[s] \in Int /\ \A x \in s : g[s] = h[x] + g[s \ {x}]
  BY SumStep
<1>2. ASSUME NEW s \in SUBSET U, s # {}, \A x \in s : s \ {x} \in V PROVE s \in V
  <2>1. ASSUME NEW t \in SUBSET U, s \cap t = {} PROVE g[s \cup t] = g[s] + g[t]
    <3>1. PICK x \in s : TRUE
      BY <1>2
    <3>2. /\ (s \cup t) \ {x} = (s \ {x}) \cup t /\ (s \ {x}) \cap t = {}
          /\ s \cup t \in SUBSET U /\ x \in s \cup t /\ h[x] \in Int
      BY <2>1
    <3>3. g[s \cup t] = h[x] + g[(s \ {x}) \cup t] /\ g[s] = h[x] + g[s \ {x}]
      BY <1>1, <3>2
    <3>4. g[(s \ {x}) \cup t] = g[s \ {x}] + g[t]
      BY <1>2, <3>2
    <3>5. g[s \ {x}] \in Int /\ g[t] \in Int
      <4>1. s \ {x} \in SUBSET U
        OBVIOUS
      <4>2. QED
        BY <1>1, <4>1
    <3>6. QED
      BY <3>2, <3>3, <3>4, <3>5
  <2>2. QED
    BY <2>1
<1>3. {} \in V
  <2>1. ASSUME NEW t \in SUBSET U PROVE g[{} \cup t] = g[{}] + g[t]
    <3>1. {} \cup t = t /\ g[t] \in Int
      BY <1>1
    <3>2. QED
      BY <1>1, <3>1
  <2>2. QED
    BY <2>1
<1> HIDE DEF V
<1>4. SUBSET U \subseteq V
  BY <1>2, <1>3, SetInd
<1>5. QED
  BY <1>4 DEF V

\* ... and of nothing but zeros.
LEMMA SumZero ==
    ASSUME NEW U, IsFiniteSet(U), NEW h, \A x \in U : h[x] \in Int, NEW g, Sums(h, U, g),
           NEW Z, Z \subseteq U, \A x \in Z : h[x] = 0
    PROVE  g[Z] = 0
<1> DEFINE V == {s \in SUBSET Z : g[s] = 0}
<1>1. g[{}] = 0 /\ \A s \in SUBSET U : \A x \in s : g[s] = h[x] + g[s \ {x}]
  BY SumStep
<1>2. ASSUME NEW s \in SUBSET Z, s # {}, \A x \in s : s \ {x} \in V PROVE s \in V
  <2>1. PICK x \in s : TRUE
    BY <1>2
  <2>2. g[s] = h[x] + g[s \ {x}] /\ h[x] = 0 /\ g[s \ {x}] = 0
    BY <1>1, <1>2
  <2>3. QED
    BY <2>2
<1>3. {} \in V
  BY <1>1
<1>4. IsFiniteSet(Z)
  BY FS_Subset
<1> HIDE DEF V
<1>5. SUBSET Z \subseteq V
  BY <1>2, <1>3, <1>4, SetInd
<1>6. QED
  BY <1>5 DEF V

\* MapThenSumSet of a sum of h, and of anything that equals h.
LEMMA SumAdds ==
    ASSUME NEW A, NEW B, IsFiniteSet(A), IsFiniteSet(B), A \cap B = {},
           NEW h, \A x \in A \cup B : h[x] \in Int
    PROVE  SumOver(h, A \cup B) = SumOver(h, A) + SumOver(h, B)
<1> DEFINE U == A \cup B
<1>1. IsFiniteSet(U)
  BY FS_Union
<1>2. PICK g : Sums(h, U, g) /\ SumOver(h, U) = g[U]
  BY <1>1, SumOverIs
<1>3. PICK a : Sums(h, A, a) /\ SumOver(h, A) = a[A]
  BY SumOverIs
<1>4. PICK b : Sums(h, B, b) /\ SumOver(h, B) = b[B]
  BY SumOverIs
<1>5. A \subseteq U /\ B \subseteq U /\ A \in SUBSET A /\ B \in SUBSET B
  OBVIOUS
<1>6. \A x \in U : h[x] \in Int
  OBVIOUS
<1> HIDE DEF U
<1>7. a[A] = g[A] /\ b[B] = g[B]
  BY <1>1, <1>2, <1>3, <1>4, <1>5, <1>6, SumSame
<1>8. g[A \cup B] = g[A] + g[B]
  <2>1. \A s, t \in SUBSET U : s \cap t = {} => g[s \cup t] = g[s] + g[t]
    BY <1>1, <1>2, <1>6, SumUnion
  <2>2. A \in SUBSET U /\ B \in SUBSET U
    BY <1>5
  <2>3. QED
    BY <2>1, <2>2
<1>9. QED
  BY <1>2, <1>3, <1>4, <1>7, <1>8 DEF U

LEMMA SumOverZero ==
    ASSUME NEW S, IsFiniteSet(S), NEW h, \A x \in S : h[x] = 0
    PROVE  SumOver(h, S) = 0
<1>1. PICK g : Sums(h, S, g) /\ SumOver(h, S) = g[S]
  BY SumOverIs
<1>2. g[S] = 0
  BY <1>1, SumZero
<1>3. QED
  BY <1>1, <1>2

\* A function that sums like h is a sum of h.
LEMMA SumOfEqual ==
    ASSUME NEW S, IsFiniteSet(S), NEW h, \A x \in S : h[x] \in Int, NEW k, Sums(h, S, k)
    PROVE  k[S] = SumOver(h, S)
<1>1. PICK g : Sums(h, S, g) /\ SumOver(h, S) = g[S]
  BY SumOverIs
<1>2. k[S] = g[S]
  BY <1>1, SumSame
<1>3. QED
  BY <1>1, <1>2

LEMMA SumOverSame ==
    ASSUME NEW S, IsFiniteSet(S), NEW h, \A x \in S : h[x] \in Int, NEW k, \A x \in S : k[x] = h[x]
    PROVE  SumOver(k, S) = SumOver(h, S)
<1>1. PICK g : Sums(h, S, g) /\ SumOver(h, S) = g[S]
  BY SumOverIs
<1>2. PICK j : Sums(k, S, j) /\ SumOver(k, S) = j[S]
  BY SumOverIs
<1>3. j[S] = g[S]
  BY <1>1, <1>2, SumSame
<1>4. QED
  BY <1>1, <1>2, <1>3

-------------------------------------------------------------------------------
(* The metrics *)

LEMMA WeightIs == \A sl, companies : Weight(sl, companies) = SumOver(sl.holdings, companies)
  BY DEF Weight, SumOver

LEMMA CoveredWeightIs ==
    ASSUME NEW sl, IsFiniteSet(Covered(sl)), NEW h,
           \A x \in Covered(sl) : h[x] \in Int /\ sl.provenance[x].weight = h[x]
    PROVE  CoveredWeight(sl) = SumOver(h, Covered(sl))
<1> DEFINE S == Covered(sl)
           P(iter) == iter = [s \in SUBSET S |->
                    IF s = {} THEN 0
                    ELSE sl.provenance[CHOOSE x \in s : TRUE].weight
                            + iter[s \ {CHOOSE x \in s : TRUE}]]
           k == CHOOSE iter : P(iter)
<1>1. CoveredWeight(sl) = k[S]
  BY DEF CoveredWeight, MapThenSumSet, MapThenFoldSet
<1> HIDE DEF S
<1>2. \A s \in SUBSET S : s # {} => (CHOOSE x \in s : TRUE) \in S
  OBVIOUS
<1>3. \A s \in SUBSET S : s # {} =>
        sl.provenance[CHOOSE x \in s : TRUE].weight = h[CHOOSE x \in s : TRUE]
  BY <1>2 DEF S
<1>4. \A iter : P(iter) <=> Sums(h, S, iter)
  BY <1>3 DEF Sums
<1>5. PICK g : Sums(h, S, g)
  BY SumExists DEF S
<1> HIDE DEF P
<1>6. P(g)
  BY <1>4, <1>5
<1>7. P(k)
  BY <1>6
<1> HIDE DEF k
<1>8. Sums(h, S, k)
  BY <1>4, <1>7
<1>9. k[S] = SumOver(h, S)
  BY <1>8, SumOfEqual DEF S
<1>10. QED
  BY <1>1, <1>9 DEF S

\* Covered and uncovered weight make the total when both were read of the same
\* holdings, which a request's provenance names one by one.
LEMMA CoverageAddsUp ==
    ASSUME NEW sl, IsFiniteSet(DOMAIN sl.holdings), DOMAIN sl.provenance = DOMAIN sl.holdings,
           \A x \in DOMAIN sl.holdings :
                sl.holdings[x] \in Int /\ sl.provenance[x].weight = sl.holdings[x]
    PROVE  CoveredWeight(sl) + Weight(sl, Uncovered(sl)) = TotalWeight(sl)
<1> DEFINE A == Covered(sl)
           B == Uncovered(sl)
           h == sl.holdings
<1>1. A \cup B = DOMAIN h /\ A \cap B = {}
  BY DEF Covered, Uncovered
<1>2. IsFiniteSet(A) /\ IsFiniteSet(B)
  BY <1>1, FS_Subset
<1>3. CoveredWeight(sl) = SumOver(h, A)
  BY <1>1, <1>2, CoveredWeightIs
<1>4. Weight(sl, B) = SumOver(h, B) /\ TotalWeight(sl) = SumOver(h, DOMAIN h)
  BY WeightIs DEF TotalWeight
<1>5. \A x \in A \cup B : h[x] \in Int
  BY <1>1
<1> HIDE DEF A, B, h
<1>6. SumOver(h, A \cup B) = SumOver(h, A) + SumOver(h, B)
  BY <1>1, <1>2, <1>5, SumAdds
<1>7. QED
  BY <1>1, <1>3, <1>4, <1>6 DEF B

\* What the concentration, and its query, add up over a set of edges.
Terms(sl, S) == MapThenSumSet(LAMBDA e : sl.holdings[e.src] * Multiplier(e), S)
Term(sl) == [e \in Held(sl) |-> sl.holdings[e.src] * Multiplier(e)]
AskedTerms(sl, S) == MapThenSumSet(LAMBDA e : sl.holdings[e.src] * ExplainedMultiplier(e), S)
AskedTerm(sl) == [e \in Held(sl) |-> sl.holdings[e.src] * ExplainedMultiplier(e)]

LEMMA ConcentrationIs ==
    ASSUME NEW sl
    PROVE  /\ SupplierConcentration(sl) =
                [s \in {e.dst : e \in Scored(sl)} |-> Terms(sl, {e \in Scored(sl) : e.dst = s})]
           /\ ExplainedConcentration(sl) =
                [s \in {e.dst : e \in Held(sl)} |-> AskedTerms(sl, {e \in Held(sl) : e.dst = s})]
<1>1. SupplierConcentration(sl) =
        [s \in {e.dst : e \in Scored(sl)} |-> Terms(sl, {e \in Scored(sl) : e.dst = s})]
  BY DEF SupplierConcentration, Terms, MapThenSumSet, MapThenFoldSet
<1>2. ExplainedConcentration(sl) =
        [s \in {e.dst : e \in Held(sl)} |-> AskedTerms(sl, {e \in Held(sl) : e.dst = s})]
  BY DEF ExplainedConcentration, AskedTerms, MapThenSumSet, MapThenFoldSet
<1>3. QED
  BY <1>1, <1>2

\* The two multipliers agree on the words as the ontology spells them, and the
\* query knows no others.
LEMMA MultiplierIs ==
    ASSUME NEW e
    PROVE  /\ Multiplier(e) \in Nat /\ ExplainedMultiplier(e) \in Nat
           /\ Lower(e.criticality) = e.criticality => ExplainedMultiplier(e) = Multiplier(e)
           /\ Lower(e.criticality) # e.criticality => ExplainedMultiplier(e) = 0
           /\ e.criticality = "critical" <=>
                    Lower(e.criticality) = "critical" /\ Lower(e.criticality) = e.criticality
<1>1. Multiplier(e) \in Nat /\ ExplainedMultiplier(e) \in Nat
  BY DEF Multiplier, ExplainedMultiplier
<1>2. Lower("critical") = "critical" /\ Lower("named") = "named" /\ Lower("mentioned") = "mentioned"
  BY DEF Lower
<1>3. Lower(e.criticality) = e.criticality => ExplainedMultiplier(e) = Multiplier(e)
  BY DEF Multiplier, ExplainedMultiplier
<1>4. Lower(e.criticality) # e.criticality => ExplainedMultiplier(e) = 0
  BY <1>2 DEF ExplainedMultiplier
<1>5. QED
  BY <1>1, <1>2, <1>3, <1>4

LEMMA TermsAre ==
    ASSUME NEW sl, \A x \in DOMAIN sl.holdings : sl.holdings[x] \in Int,
           NEW S, S \subseteq Held(sl), IsFiniteSet(S)
    PROVE  /\ Terms(sl, S) = SumOver(Term(sl), S)
           /\ \A e \in S : Term(sl)[e] \in Int
<1> DEFINE h == Term(sl)
           P(iter) == iter = [s \in SUBSET S |->
                    IF s = {} THEN 0
                    ELSE sl.holdings[(CHOOSE x \in s : TRUE).src] * Multiplier(CHOOSE x \in s : TRUE)
                            + iter[s \ {CHOOSE x \in s : TRUE}]]
           k == CHOOSE iter : P(iter)
<1>1. Terms(sl, S) = k[S]
  BY DEF Terms, MapThenSumSet, MapThenFoldSet
<1>2. \A s \in SUBSET S : s # {} => (CHOOSE x \in s : TRUE) \in Held(sl)
  OBVIOUS
<1>3. \A e \in Held(sl) : h[e] = sl.holdings[e.src] * Multiplier(e)
  BY DEF Term
<1>4. \A e \in S : h[e] \in Int
  <2>1. \A e \in S : sl.holdings[e.src] \in Int /\ Multiplier(e) \in Int
    BY MultiplierIs DEF Held
  <2>2. QED
    BY <1>3, <2>1
<1> HIDE DEF h
<1>5. \A s \in SUBSET S : s # {} =>
        sl.holdings[(CHOOSE x \in s : TRUE).src] * Multiplier(CHOOSE x \in s : TRUE)
            = h[CHOOSE x \in s : TRUE]
  BY <1>2, <1>3
<1>6. \A iter : P(iter) <=> Sums(h, S, iter)
  BY <1>5 DEF Sums
<1>7. PICK g : Sums(h, S, g)
  BY SumExists
<1> HIDE DEF P
<1>8. P(g)
  BY <1>6, <1>7
<1>9. P(k)
  BY <1>8
<1> HIDE DEF k
<1>10. Sums(h, S, k)
  BY <1>6, <1>9
<1>11. k[S] = SumOver(h, S)
  BY <1>4, <1>10, SumOfEqual
<1>12. QED
  BY <1>1, <1>4, <1>11 DEF h

LEMMA AskedTermsAre ==
    ASSUME NEW sl, \A x \in DOMAIN sl.holdings : sl.holdings[x] \in Int,
           NEW S, S \subseteq Held(sl), IsFiniteSet(S)
    PROVE  /\ AskedTerms(sl, S) = SumOver(AskedTerm(sl), S)
           /\ \A e \in S : AskedTerm(sl)[e] \in Int
<1> DEFINE h == AskedTerm(sl)
           P(iter) == iter = [s \in SUBSET S |->
                    IF s = {} THEN 0
                    ELSE sl.holdings[(CHOOSE x \in s : TRUE).src] * ExplainedMultiplier(CHOOSE x \in s : TRUE)
                            + iter[s \ {CHOOSE x \in s : TRUE}]]
           k == CHOOSE iter : P(iter)
<1>1. AskedTerms(sl, S) = k[S]
  BY DEF AskedTerms, MapThenSumSet, MapThenFoldSet
<1>2. \A s \in SUBSET S : s # {} => (CHOOSE x \in s : TRUE) \in Held(sl)
  OBVIOUS
<1>3. \A e \in Held(sl) : h[e] = sl.holdings[e.src] * ExplainedMultiplier(e)
  BY DEF AskedTerm
<1>4. \A e \in S : h[e] \in Int
  <2>1. \A e \in S : sl.holdings[e.src] \in Int /\ ExplainedMultiplier(e) \in Int
    BY MultiplierIs DEF Held
  <2>2. QED
    BY <1>3, <2>1
<1> HIDE DEF h
<1>5. \A s \in SUBSET S : s # {} =>
        sl.holdings[(CHOOSE x \in s : TRUE).src] * ExplainedMultiplier(CHOOSE x \in s : TRUE)
            = h[CHOOSE x \in s : TRUE]
  BY <1>2, <1>3
<1>6. \A iter : P(iter) <=> Sums(h, S, iter)
  BY <1>5 DEF Sums
<1>7. PICK g : Sums(h, S, g)
  BY SumExists
<1> HIDE DEF P
<1>8. P(g)
  BY <1>6, <1>7
<1>9. P(k)
  BY <1>8
<1> HIDE DEF k
<1>10. Sums(h, S, k)
  BY <1>6, <1>9
<1>11. k[S] = SumOver(h, S)
  BY <1>4, <1>10, SumOfEqual
<1>12. QED
  BY <1>1, <1>4, <1>11 DEF h

LEMMA SumIsInt ==
    ASSUME NEW S, IsFiniteSet(S), NEW h, \A x \in S : h[x] \in Int
    PROVE  SumOver(h, S) \in Int
<1>1. PICK g : Sums(h, S, g) /\ SumOver(h, S) = g[S]
  BY SumOverIs
<1>2. \A s \in SUBSET S : g[s] \in Int
  BY <1>1, SumStep
<1>3. QED
  BY <1>1, <1>2

LEMMA SourcesFinite ==
    ASSUME NEW S, IsFiniteSet(S) PROVE IsFiniteSet({e.src : e \in S})
<1> DEFINE V == {s \in SUBSET S : IsFiniteSet({e.src : e \in s})}
<1>1. ASSUME NEW s \in SUBSET S, s # {}, \A x \in s : s \ {x} \in V PROVE s \in V
  <2>1. PICK x \in s : TRUE
    BY <1>1
  <2>2. IsFiniteSet({e.src : e \in s \ {x}})
    BY <1>1
  <2>3. IsFiniteSet({e.src : e \in s \ {x}} \cup {x.src})
    BY <2>2, FS_AddElement
  <2>4. {e.src : e \in s} = {e.src : e \in s \ {x}} \cup {x.src}
    OBVIOUS
  <2>5. QED
    BY <2>3, <2>4
<1>2. {} \in V
  <2>1. {e.src : e \in {}} = {}
    OBVIOUS
  <2>2. QED
    BY <2>1, FS_EmptySet
<1> HIDE DEF V
<1>3. SUBSET S \subseteq V
  BY <1>1, <1>2, SetInd
<1>4. QED
  BY <1>3 DEF V

LEMMA TwoOfThem ==
    ASSUME NEW D, IsFiniteSet(D) PROVE Cardinality(D) >= 2 <=> \E x, y \in D : x # y
<1>1. Cardinality(D) \in Nat /\ (Cardinality(D) = 0 <=> D = {})
  BY FS_CardinalityType, FS_EmptySet
<1>2. Cardinality(D) = 1 <=> \E x : D = {x}
  BY FS_Singleton
<1>3. ASSUME Cardinality(D) >= 2 PROVE \E x, y \in D : x # y
  <2>1. D # {} /\ ~ \E x : D = {x}
    BY <1>1, <1>2, <1>3
  <2>2. QED
    BY <2>1
<1>4. ASSUME NEW x \in D, NEW y \in D, x # y PROVE Cardinality(D) >= 2
  <2>1. D # {} /\ ~ \E z : D = {z}
    BY <1>4
  <2>2. Cardinality(D) # 0 /\ Cardinality(D) # 1
    BY <1>1, <1>2, <2>1
  <2>3. QED
    BY <1>1, <2>2
<1>5. QED
  BY <1>3, <1>4

\* The concentration's query differs by the edges that score nothing in it;
\* the clusters' query asks for two different holdings where the metric counts.
LEMMA ExplainedIs ==
    ASSUME NEW sl, DOMAIN sl = {"holdings", "supplies", "exposures", "provenance"},
           \A x \in DOMAIN sl.holdings : sl.holdings[x] \in Int, IsFiniteSet(sl.supplies)
    PROVE  LET scores == SupplierConcentration(AsSpelt(sl))
               explained == ExplainedConcentration(sl)
           IN  /\ DOMAIN scores \subseteq DOMAIN explained
               /\ \A s \in DOMAIN explained :
                    explained[s] = IF s \in DOMAIN scores THEN scores[s] ELSE 0
               /\ SharedSupplierClusters(AsSpelt(sl)) = ExplainedClusters(sl)
<1> DEFINE To(edges, s) == {e \in edges : e.dst = s}
           sp == AsSpelt(sl)
<1>0. /\ sp.holdings = sl.holdings
      /\ \A e : e \in Held(sp) <=> e \in Held(sl) /\ Lower(e.criticality) = e.criticality
  <2>1. sp.holdings = sl.holdings /\ sp.supplies = {e \in sl.supplies : Lower(e.criticality) = e.criticality}
    BY DEF AsSpelt
  <2> HIDE DEF sp
  <2>2. QED
    BY <2>1 DEF Held
<1> HIDE DEF sp
<1>1. Scored(sp) \subseteq Held(sp) /\ Held(sp) \subseteq Held(sl) /\ Held(sl) \subseteq sl.supplies
  BY <1>0 DEF Scored, Held
<1>2. IsFiniteSet(Held(sl))
  BY <1>1, FS_Subset
<1>3. \A S \in SUBSET Held(sl) : IsFiniteSet(S)
  BY <1>2, FS_Subset
<1>4. ASSUME NEW s PROVE AskedTerms(sl, To(Held(sl), s)) = Terms(sp, To(Scored(sp), s))
  <2> DEFINE A == To(Scored(sp), s)
             Z == To(Held(sl), s) \ A
             h == AskedTerm(sl)
             k == Term(sp)
  <2>1. A \subseteq Held(sp) /\ A \subseteq Held(sl) /\ Z \subseteq Held(sl)
        /\ A \cap Z = {} /\ A \cup Z = To(Held(sl), s)
    BY <1>1
  <2>2. IsFiniteSet(A) /\ IsFiniteSet(Z) /\ IsFiniteSet(A \cup Z)
    BY <1>3, <2>1
  <2>3. ASSUME NEW e \in Z PROVE ExplainedMultiplier(e) = 0
    <3>1. e \in Held(sl) /\ e \notin Scored(sp)
      OBVIOUS
    <3>2. e \notin Held(sp) \/ Multiplier(e) = 0
      BY <3>1, MultiplierIs DEF Scored
    <3>3. QED
      BY <1>0, <3>1, <3>2, MultiplierIs
  <2>4. \A e \in Z : h[e] = 0
    <3>1. \A e \in Z : h[e] = sl.holdings[e.src] * 0 /\ sl.holdings[e.src] \in Int
      BY <2>1, <2>3 DEF AskedTerm, Held
    <3>2. QED
      BY <3>1
  <2>5. \A e \in A : h[e] = k[e]
    <3>1. \A e \in A : ExplainedMultiplier(e) = Multiplier(e)
      BY <1>0, <2>1, MultiplierIs
    <3>2. QED
      BY <1>0, <2>1, <3>1 DEF AskedTerm, Term
  <2> HIDE DEF A, Z
  <2>6. AskedTerms(sl, A \cup Z) = SumOver(h, A \cup Z)
    BY <2>1, <2>2, AskedTermsAre
  <2>7. Terms(sp, A) = SumOver(k, A)
    BY <1>0, <2>1, <2>2, TermsAre
  <2>8. \A e \in A \cup Z : h[e] \in Int
    BY <2>1, <2>2, AskedTermsAre
  <2> HIDE DEF h, k
  <2>9. SumOver(h, A \cup Z) = SumOver(h, A) + SumOver(h, Z) /\ SumOver(h, Z) = 0
    BY <2>1, <2>2, <2>4, <2>8, SumAdds, SumOverZero
  <2>10. SumOver(h, A) \in Int /\ SumOver(h, A) = SumOver(k, A)
    BY <2>2, <2>5, <2>8, SumIsInt, SumOverSame
  <2>11. AskedTerms(sl, A \cup Z) = Terms(sp, A)
    BY <2>6, <2>7, <2>9, <2>10
  <2> HIDE DEF To
  <2>12. QED
    BY <2>1, <2>11 DEF A
<1>5. ASSUME NEW s, To(Scored(sp), s) = {} PROVE AskedTerms(sl, To(Held(sl), s)) = 0
  <2>1. Terms(sp, {}) = SumOver(Term(sp), {}) /\ IsFiniteSet({})
    <3>1. {} \subseteq Held(sp) /\ IsFiniteSet({})
      BY <1>3
    <3>2. QED
      BY <1>0, <3>1, TermsAre
  <2>2. SumOver(Term(sp), {}) = 0
    BY <2>1, SumOverZero
  <2>3. QED
    BY <1>4, <1>5, <2>1, <2>2
<1>6. \A s : s \in {e.dst : e \in Scored(sp)} <=> To(Scored(sp), s) # {}
  OBVIOUS
<1>7. SharedSupplierClusters(sp) = ExplainedClusters(sl)
  <2> DEFINE edges == Critical(Held(sp))
  <2>1. edges = {e \in Held(sl) : e.criticality = "critical"}
    BY <1>0, MultiplierIs DEF Critical
  <2>2. edges \subseteq Held(sl)
    BY <2>1
  <2>3. ASSUME NEW s PROVE IsFiniteSet(Dependents(edges, s))
    <3>1. IsFiniteSet({e \in edges : e.dst = s})
      BY <1>3, <2>2
    <3>2. IsFiniteSet({e.src : e \in {x \in edges : x.dst = s}})
      BY <3>1, SourcesFinite
    <3>3. QED
      BY <3>2 DEF Dependents
  <2>4. SharedSupplierClusters(sp) = Shared(edges)
    BY DEF SharedSupplierClusters
  <2> HIDE DEF edges
  <2>5. \A s : Cardinality(Dependents(edges, s)) >= 2
                <=> \E x, y \in Dependents(edges, s) : x # y
    BY <2>3, TwoOfThem
  <2>6. ExplainedClusters(sl) =
            {[supplier |-> s, holdings |-> Dependents(edges, s)] :
                s \in {x \in {e.dst : e \in edges} :
                        \E a, b \in Dependents(edges, x) : a # b}}
    BY <2>1 DEF ExplainedClusters
  <2>7. QED
    BY <2>4, <2>5, <2>6 DEF Shared
<1> DEFINE some == {e.dst : e \in Scored(sp)}
           all == {e.dst : e \in Held(sl)}
<1>8. some \subseteq all
  BY <1>1
<1>9. \A s : s \in some <=> To(Scored(sp), s) # {}
  BY <1>6
<1>10. /\ SupplierConcentration(sp) = [s \in some |-> Terms(sp, To(Scored(sp), s))]
       /\ ExplainedConcentration(sl) = [s \in all |-> AskedTerms(sl, To(Held(sl), s))]
  BY ConcentrationIs
<1> HIDE DEF To, some, all
<1>11. ASSUME NEW s \in all
       PROVE  ExplainedConcentration(sl)[s] = IF s \in some THEN SupplierConcentration(sp)[s] ELSE 0
  <2>1. CASE s \in some
    BY <1>4, <1>10, <2>1
  <2>2. CASE s \notin some
    BY <1>5, <1>9, <1>10, <2>2
  <2>3. QED
    BY <2>1, <2>2
<1>12. QED
  BY <1>7, <1>8, <1>10, <1>11 DEF sp

-------------------------------------------------------------------------------
(* Packs: the invariant *)

SliceFields == {"holdings", "supplies", "exposures", "provenance"}
PackFields == {"pc", "fund", "use", "sl", "exposed", "snapshot", "todo", "alone", "torn"}
PackPc == {"idle", "holdings", "supplies", "exposures", "provenance", "exposed", "covered",
           "register", "node", "link", "done"}

GraphType ==
    /\ DOMAIN graph = Fields /\ DOMAIN graph.holds = Fund
    /\ \A f \in Fund : /\ DOMAIN graph.holds[f] \subseteq Company
                       /\ \A c \in DOMAIN graph.holds[f] : graph.holds[f][c] \in Int
    /\ IsFiniteSet(graph.supplies)

MergeType ==
    merge # None =>
        /\ DOMAIN merge = {"dup", "canonical", "todo"}
        /\ merge.dup \in Company /\ merge.canonical \in Company

\* A request; what it has read before it is complete has no snapshot.
RequestType(r) ==
    /\ DOMAIN r = PackFields /\ DOMAIN r.sl = SliceFields
    /\ r.pc \in PackPc /\ r.alone \in BOOLEAN /\ r.torn \in BOOLEAN
    /\ r.pc # "idle" => r.fund \in Fund
    /\ r.pc \in {"register", "node", "link"} => r.snapshot # None
    /\ r.pc \notin {"register", "node", "link", "done"} => r.snapshot = None

PackType ==
    /\ DOMAIN pack = Pack /\ \A p \in Pack : RequestType(pack[p])
    /\ DOMAIN registry = Fund /\ DOMAIN report = Fund

ProvenanceOf(f) ==
    [c \in DOMAIN graph.holds[f] |-> [weight |-> graph.holds[f][c], docs |-> DocsOn(c)]]

Figures(r) ==
    /\ r.snapshot.covered + Weight(r.sl, r.snapshot.uncovered) = r.snapshot.total
    /\ r.snapshot.gaps \subseteq {x.risk : x \in r.sl.exposures}
    /\ r.exposed = r.sl.exposures

\* Until something is committed, what a request has read is what the graph says.
Untorn(r) ==
    /\ r.pc \in {"supplies", "exposures", "provenance", "exposed", "covered"} =>
            r.sl.holdings = graph.holds[r.fund]
    /\ r.pc \in {"provenance", "exposed", "covered"} => r.sl.exposures = Exposures(r.fund)
    /\ r.pc \in {"exposed", "covered"} => r.sl.provenance = ProvenanceOf(r.fund)
    /\ r.pc = "covered" => r.exposed = Exposures(r.fund)
    /\ r.snapshot # None => Figures(r)

ReadInv == \A p \in Pack : ~pack[p].torn => Untorn(pack[p])

\* A filing that no other touched has left what it has written so far, and a
\* fund with another filing is known to be apart.
FilingAt(p) ==
    LET r == pack[p]  f == pack[p].fund IN
    r.pc \in {"node", "link"} =>
        /\ ~r.alone => f \in apart
        /\ r.alone => /\ Filing(f) = {p} /\ registry[f] = r.snapshot
                      /\ r.pc = "link" => /\ report[f] = r.snapshot
                                          /\ \A d \in (r.snapshot.docs \cap Noded) \ r.todo : <<f, d>> \in links

FilingInv ==
    /\ \A p \in Pack : FilingAt(p) /\ (pack[p].pc = "link" => report[pack[p].fund] # None)
    /\ \A l \in links : l[1] \in Fund /\ report[l[1]] # None
    /\ AuditTrailAnchored

PackInv == GraphType /\ PackType /\ ReadInv /\ FilingInv

\* An action of request p leaves the others as they were.
Changes(p) ==
    /\ DOMAIN pack' = Pack
    /\ \A o \in Pack : o # p => pack'[o] = pack[o]

LEMMA IdleType == RequestType(Idle) /\ Untorn(Idle) /\ Idle.pc = "idle"
<1>1. DOMAIN Idle = PackFields
  BY DEF Idle, PackFields
<1>2. DOMAIN Idle.sl = SliceFields
  BY DEF Idle, EmptySlice, SliceFields
<1>3. Idle.pc = "idle" /\ Idle.alone = TRUE /\ Idle.torn = FALSE /\ Idle.snapshot = None
  BY DEF Idle
<1>4. RequestType(Idle)
  BY <1>1, <1>2, <1>3 DEF RequestType, PackPc
<1>5. QED
  BY <1>3, <1>4 DEF Untorn

\* A request that reads, and neither files before nor after.
LEMMA ReadStep ==
    ASSUME PackInv, NEW p \in Pack, Changes(p), RequestType(pack'[p]),
           UNCHANGED <<graph, registry, report, links, apart>>,
           ~pack'[p].torn => Untorn(pack[p])',
           pack[p].pc \notin {"node", "link"}, pack'[p].pc \notin {"node", "link"}
    PROVE  PackInv'
<1>1. GraphType'
  BY DEF PackInv, GraphType
<1>2. PackType'
  BY DEF PackInv, PackType, Changes
<1>3. ReadInv'
  <2>1. ASSUME NEW o \in Pack, o # p, ~pack'[o].torn PROVE Untorn(pack[o])'
    <3>1. pack'[o] = pack[o] /\ Untorn(pack[o])
      BY <2>1 DEF PackInv, ReadInv, Changes
    <3>2. QED
      BY <3>1 DEF Untorn, Exposures, ProvenanceOf, DocsOn, Figures
  <2>2. QED
    BY <2>1 DEF ReadInv
<1>4. \A f : Filing(f)' = Filing(f)
  BY DEF Filing, Changes
<1>5. \A o \in Pack : FilingAt(o)' /\ (pack'[o].pc = "link" => report'[pack'[o].fund] # None)
  <2>1. ASSUME NEW o \in Pack, o # p
        PROVE  FilingAt(o)' /\ (pack'[o].pc = "link" => report'[pack'[o].fund] # None)
    <3>1. pack'[o] = pack[o] /\ FilingAt(o) /\ (pack[o].pc = "link" => report[pack[o].fund] # None)
      BY <2>1 DEF PackInv, FilingInv, Changes
    <3>2. QED
      BY <1>4, <3>1 DEF FilingAt
  <2>2. FilingAt(p)' /\ (pack'[p].pc = "link" => report'[pack'[p].fund] # None)
    BY DEF FilingAt
  <2>3. QED
    BY <2>1, <2>2
<1>6. AuditTrailAnchored'
  BY <1>4 DEF PackInv, FilingInv, AuditTrailAnchored
<1>7. QED
  BY <1>1, <1>2, <1>3, <1>5, <1>6 DEF PackInv, FilingInv

LEMMA ReadsIs ==
    ASSUME PackInv, NEW p \in Pack, NEW pc, NEW next, NEW field, NEW rows,
           Reads(p, pc, next, field, rows), field \in SliceFields
    PROVE  /\ Changes(p) /\ pack[p].pc = pc /\ pack'[p].pc = next
           /\ DOMAIN pack'[p] = PackFields /\ DOMAIN pack'[p].sl = SliceFields
           /\ \A k \in PackFields \ {"pc", "sl"} : pack'[p][k] = pack[p][k]
           /\ \A k \in SliceFields :
                pack'[p].sl[k] = IF k = field THEN rows ELSE pack[p].sl[k]
<1>1. DOMAIN pack = Pack /\ DOMAIN pack[p] = PackFields /\ DOMAIN pack[p].sl = SliceFields
  BY DEF PackInv, PackType, RequestType
<1>2. pack' = [pack EXCEPT ![p].pc = next, ![p].sl = [@ EXCEPT ![field] = rows]]
  BY DEF Reads
<1>3. PICK z : z = [pack[p].sl EXCEPT ![field] = rows]
  OBVIOUS
<1>4. DOMAIN z = SliceFields /\ \A k \in SliceFields : z[k] = IF k = field THEN rows ELSE pack[p].sl[k]
  BY <1>1, <1>3
<1>5. PICK y : y = [pack[p] EXCEPT !.pc = next, !.sl = z]
  OBVIOUS
<1>6. /\ DOMAIN y = PackFields /\ y.pc = next /\ y.sl = z
      /\ \A k \in PackFields \ {"pc", "sl"} : y[k] = pack[p][k]
  BY <1>1, <1>5 DEF PackFields
<1>7. DOMAIN pack' = Pack /\ pack'[p] = y /\ \A o \in Pack : o # p => pack'[o] = pack[o]
  BY <1>1, <1>2, <1>3, <1>5 DEF PackFields
<1>8. pack[p].pc = pc
  BY DEF Reads
<1>9. QED
  BY <1>4, <1>6, <1>7, <1>8 DEF Changes

LEMMA ReadHoldingsKeeps == ASSUME PackInv, NEW p \in Pack, ReadHoldings(p) PROVE PackInv'
<1>1. Reads(p, "holdings", "supplies", "holdings", graph.holds[pack[p].fund])
  BY DEF ReadHoldings
<1>2. UNCHANGED <<graph, registry, report, links, apart>>
  BY <1>1 DEF Reads
<1>3. /\ Changes(p) /\ pack[p].pc = "holdings" /\ pack'[p].pc = "supplies"
      /\ DOMAIN pack'[p] = PackFields /\ DOMAIN pack'[p].sl = SliceFields
      /\ \A k \in PackFields \ {"pc", "sl"} : pack'[p][k] = pack[p][k]
      /\ \A k \in SliceFields :
            pack'[p].sl[k] = IF k = "holdings" THEN graph.holds[pack[p].fund] ELSE pack[p].sl[k]
  BY <1>1, ReadsIs DEF SliceFields
<1>4. RequestType(pack[p])
  BY DEF PackInv, PackType
<1>5. /\ pack'[p].fund = pack[p].fund /\ pack'[p].torn = pack[p].torn
      /\ pack'[p].alone = pack[p].alone /\ pack'[p].snapshot = pack[p].snapshot
      /\ pack'[p].exposed = pack[p].exposed
  BY <1>3 DEF PackFields
<1>6. RequestType(pack'[p])
  BY <1>3, <1>4, <1>5 DEF RequestType, PackPc
<1>7. ASSUME ~pack'[p].torn PROVE Untorn(pack[p])'
  <2>1. Untorn(pack[p])
    BY <1>5, <1>7 DEF PackInv, ReadInv
  <2>2. pack'[p].snapshot = None
    BY <1>3, <1>4, <1>5 DEF RequestType
  <2>3. \A f : Exposures(f)' = Exposures(f) /\ ProvenanceOf(f)' = ProvenanceOf(f)
    BY <1>2 DEF Exposures, ProvenanceOf, DocsOn
  <2>4. QED
    BY <1>2, <1>3, <1>5, <2>1, <2>2, <2>3 DEF Untorn, SliceFields
<1>8. QED
  BY <1>2, <1>3, <1>6, <1>7, ReadStep

LEMMA ReadSuppliesKeeps == ASSUME PackInv, NEW p \in Pack, ReadSupplies(p) PROVE PackInv'
<1>1. Reads(p, "supplies", "exposures", "supplies", graph.supplies)
  BY DEF ReadSupplies
<1>2. UNCHANGED <<graph, registry, report, links, apart>>
  BY <1>1 DEF Reads
<1>3. /\ Changes(p) /\ pack[p].pc = "supplies" /\ pack'[p].pc = "exposures"
      /\ DOMAIN pack'[p] = PackFields /\ DOMAIN pack'[p].sl = SliceFields
      /\ \A k \in PackFields \ {"pc", "sl"} : pack'[p][k] = pack[p][k]
      /\ \A k \in SliceFields :
            pack'[p].sl[k] = IF k = "supplies" THEN graph.supplies ELSE pack[p].sl[k]
  BY <1>1, ReadsIs DEF SliceFields
<1>4. RequestType(pack[p])
  BY DEF PackInv, PackType
<1>5. /\ pack'[p].fund = pack[p].fund /\ pack'[p].torn = pack[p].torn
      /\ pack'[p].alone = pack[p].alone /\ pack'[p].snapshot = pack[p].snapshot
      /\ pack'[p].exposed = pack[p].exposed
  BY <1>3 DEF PackFields
<1>6. RequestType(pack'[p])
  BY <1>3, <1>4, <1>5 DEF RequestType, PackPc
<1>7. ASSUME ~pack'[p].torn PROVE Untorn(pack[p])'
  <2>1. Untorn(pack[p])
    BY <1>5, <1>7 DEF PackInv, ReadInv
  <2>2. pack'[p].snapshot = None
    BY <1>3, <1>4, <1>5 DEF RequestType
  <2>3. \A f : Exposures(f)' = Exposures(f) /\ ProvenanceOf(f)' = ProvenanceOf(f)
    BY <1>2 DEF Exposures, ProvenanceOf, DocsOn
  <2>4. QED
    BY <1>2, <1>3, <1>5, <2>1, <2>2, <2>3 DEF Untorn, SliceFields
<1>8. QED
  BY <1>2, <1>3, <1>6, <1>7, ReadStep

LEMMA ReadExposuresKeeps == ASSUME PackInv, NEW p \in Pack, ReadExposures(p) PROVE PackInv'
<1>1. Reads(p, "exposures", "provenance", "exposures", Exposures(pack[p].fund))
  BY DEF ReadExposures
<1>2. UNCHANGED <<graph, registry, report, links, apart>>
  BY <1>1 DEF Reads
<1>3. /\ Changes(p) /\ pack[p].pc = "exposures" /\ pack'[p].pc = "provenance"
      /\ DOMAIN pack'[p] = PackFields /\ DOMAIN pack'[p].sl = SliceFields
      /\ \A k \in PackFields \ {"pc", "sl"} : pack'[p][k] = pack[p][k]
      /\ \A k \in SliceFields :
            pack'[p].sl[k] = IF k = "exposures" THEN Exposures(pack[p].fund) ELSE pack[p].sl[k]
  BY <1>1, ReadsIs DEF SliceFields
<1>4. RequestType(pack[p])
  BY DEF PackInv, PackType
<1>5. /\ pack'[p].fund = pack[p].fund /\ pack'[p].torn = pack[p].torn
      /\ pack'[p].alone = pack[p].alone /\ pack'[p].snapshot = pack[p].snapshot
      /\ pack'[p].exposed = pack[p].exposed
  BY <1>3 DEF PackFields
<1>6. RequestType(pack'[p])
  BY <1>3, <1>4, <1>5 DEF RequestType, PackPc
<1>7. ASSUME ~pack'[p].torn PROVE Untorn(pack[p])'
  <2>1. Untorn(pack[p])
    BY <1>5, <1>7 DEF PackInv, ReadInv
  <2>2. pack'[p].snapshot = None
    BY <1>3, <1>4, <1>5 DEF RequestType
  <2>3. \A f : Exposures(f)' = Exposures(f) /\ ProvenanceOf(f)' = ProvenanceOf(f)
    BY <1>2 DEF Exposures, ProvenanceOf, DocsOn
  <2>4. QED
    BY <1>2, <1>3, <1>5, <2>1, <2>2, <2>3 DEF Untorn, SliceFields
<1>8. QED
  BY <1>2, <1>3, <1>6, <1>7, ReadStep

LEMMA ReadProvenanceKeeps == ASSUME PackInv, NEW p \in Pack, ReadProvenance(p) PROVE PackInv'
<1>1. Reads(p, "provenance", "exposed", "provenance", ProvenanceOf(pack[p].fund))
  BY DEF ReadProvenance, ProvenanceOf
<1>2. UNCHANGED <<graph, registry, report, links, apart>>
  BY <1>1 DEF Reads
<1>3. /\ Changes(p) /\ pack[p].pc = "provenance" /\ pack'[p].pc = "exposed"
      /\ DOMAIN pack'[p] = PackFields /\ DOMAIN pack'[p].sl = SliceFields
      /\ \A k \in PackFields \ {"pc", "sl"} : pack'[p][k] = pack[p][k]
      /\ \A k \in SliceFields :
            pack'[p].sl[k] = IF k = "provenance" THEN ProvenanceOf(pack[p].fund) ELSE pack[p].sl[k]
  BY <1>1, ReadsIs DEF SliceFields
<1>4. RequestType(pack[p])
  BY DEF PackInv, PackType
<1>5. /\ pack'[p].fund = pack[p].fund /\ pack'[p].torn = pack[p].torn
      /\ pack'[p].alone = pack[p].alone /\ pack'[p].snapshot = pack[p].snapshot
      /\ pack'[p].exposed = pack[p].exposed
  BY <1>3 DEF PackFields
<1>6. RequestType(pack'[p])
  BY <1>3, <1>4, <1>5 DEF RequestType, PackPc
<1>7. ASSUME ~pack'[p].torn PROVE Untorn(pack[p])'
  <2>1. Untorn(pack[p])
    BY <1>5, <1>7 DEF PackInv, ReadInv
  <2>2. pack'[p].snapshot = None
    BY <1>3, <1>4, <1>5 DEF RequestType
  <2>3. \A f : Exposures(f)' = Exposures(f) /\ ProvenanceOf(f)' = ProvenanceOf(f)
    BY <1>2 DEF Exposures, ProvenanceOf, DocsOn
  <2>4. QED
    BY <1>2, <1>3, <1>5, <2>1, <2>2, <2>3 DEF Untorn, SliceFields
<1>8. QED
  BY <1>2, <1>3, <1>6, <1>7, ReadStep

LEMMA AskKeeps == ASSUME PackInv, NEW p \in Pack, Ask(p) PROVE PackInv'
<1>1. PICK f \in Fund, use \in {"show", "list", "file"} :
        pack' = [pack EXCEPT ![p] = [Idle EXCEPT !.pc = "holdings", !.fund = f, !.use = use]]
  BY Zenon DEF Ask
<1>2. UNCHANGED <<graph, registry, report, links, apart>> /\ pack[p].pc = "idle"
  BY DEF Ask
<1>3. PICK r : r = [Idle EXCEPT !.pc = "holdings", !.fund = f, !.use = use]
  OBVIOUS
<1>4. RequestType(Idle) /\ Idle.snapshot = None
  BY IdleType DEF Idle
<1>5. /\ DOMAIN r = PackFields /\ r.pc = "holdings" /\ r.fund = f /\ r.sl = Idle.sl
      /\ r.alone = Idle.alone /\ r.torn = Idle.torn /\ r.snapshot = None
  BY <1>3, <1>4 DEF RequestType, PackFields
<1>6. RequestType(r)
  BY <1>4, <1>5 DEF RequestType, PackPc
<1>7. Changes(p) /\ pack'[p] = r
  BY <1>1, <1>3 DEF Changes, PackInv, PackType
<1>8. Untorn(pack[p])'
  BY <1>5, <1>7 DEF Untorn
<1>9. QED
  BY <1>2, <1>5, <1>6, <1>7, <1>8, ReadStep

LEMMA RespondKeeps == ASSUME PackInv, NEW p \in Pack, Respond(p) PROVE PackInv'
<1>1. UNCHANGED <<graph, registry, report, links, apart>> /\ pack[p].pc = "done"
  BY DEF Respond
<1>2. Changes(p) /\ pack'[p] = Idle
  BY DEF Respond, Changes, PackInv, PackType
<1>3. Idle.pc = "idle" /\ Idle.snapshot = None /\ RequestType(Idle)
  BY IdleType DEF Idle
<1>4. Untorn(pack[p])'
  BY <1>2, <1>3 DEF Untorn
<1>5. QED
  BY <1>1, <1>2, <1>3, <1>4, ReadStep

LEMMA ReadExposedKeeps == ASSUME PackInv, NEW p \in Pack, ReadExposed(p) PROVE PackInv'
<1>1. /\ UNCHANGED <<graph, registry, report, links, apart>> /\ pack[p].pc = "exposed"
      /\ pack' = [pack EXCEPT ![p].pc = "covered", ![p].exposed = Exposures(pack[p].fund)]
  BY DEF ReadExposed
<1>2. RequestType(pack[p]) /\ DOMAIN pack = Pack
  BY DEF PackInv, PackType
<1>3. PICK r : r = [pack[p] EXCEPT !.pc = "covered", !.exposed = Exposures(pack[p].fund)]
  OBVIOUS
<1>4. /\ DOMAIN r = PackFields /\ r.pc = "covered" /\ r.exposed = Exposures(pack[p].fund)
      /\ r.fund = pack[p].fund /\ r.sl = pack[p].sl /\ r.alone = pack[p].alone
      /\ r.torn = pack[p].torn /\ r.snapshot = pack[p].snapshot
  BY <1>2, <1>3 DEF RequestType, PackFields
<1>5. RequestType(r)
  BY <1>1, <1>2, <1>4 DEF RequestType, PackPc
<1>6. Changes(p) /\ pack'[p] = r
  BY <1>1, <1>2, <1>3 DEF Changes
<1>7. ASSUME ~pack'[p].torn PROVE Untorn(pack[p])'
  <2>1. Untorn(pack[p])
    BY <1>4, <1>6, <1>7 DEF PackInv, ReadInv
  <2>2. pack'[p].snapshot = None
    BY <1>1, <1>2, <1>4, <1>6 DEF RequestType
  <2>3. \A f : Exposures(f)' = Exposures(f) /\ ProvenanceOf(f)' = ProvenanceOf(f)
    BY <1>1 DEF Exposures, ProvenanceOf, DocsOn
  <2>4. QED
    BY <1>1, <1>4, <1>6, <2>1, <2>2, <2>3 DEF Untorn
<1>8. QED
  BY <1>1, <1>4, <1>5, <1>6, <1>7, ReadStep

LEMMA SnapshotIs ==
    ASSUME NEW sl, NEW gaps, NEW cited
    PROVE  LET s == Snapshot(sl, gaps, cited)
           IN  /\ s # None /\ s.total = TotalWeight(sl) /\ s.covered = CoveredWeight(sl)
               /\ s.uncovered = Uncovered(sl) /\ s.gaps = {x.risk : x \in gaps}
<1>1. "total" \in DOMAIN Snapshot(sl, gaps, cited)
  BY DEF Snapshot
<1>2. "total" \notin DOMAIN None
  BY DEF None
<1>3. QED
  BY <1>1, <1>2 DEF Snapshot

LEMMA ReadCoveredKeeps == ASSUME PackInv, NEW p \in Pack, ReadCovered(p) PROVE PackInv'
<1> DEFINE f == pack[p].fund
           sl == pack[p].sl
           gaps == Gaps(f, pack[p].exposed)
<1>1. PICK cited \in CitedDocs(sl) :
        pack' = [pack EXCEPT ![p].snapshot = Snapshot(sl, gaps, cited),
                             ![p].pc = IF pack[p].use = "show" THEN "done" ELSE "register"]
  BY DEF ReadCovered
<1>2. UNCHANGED <<graph, registry, report, links, apart>> /\ pack[p].pc = "covered"
  BY DEF ReadCovered
<1>3. RequestType(pack[p]) /\ DOMAIN pack = Pack
  BY DEF PackInv, PackType
<1>4. PICK s : s = Snapshot(sl, gaps, cited)
  OBVIOUS
<1>5. PICK r : r = [pack[p] EXCEPT !.snapshot = s,
                        !.pc = IF pack[p].use = "show" THEN "done" ELSE "register"]
  OBVIOUS
<1>6. /\ DOMAIN r = PackFields /\ r.pc \in {"done", "register"} /\ r.snapshot = s /\ r.fund = f
      /\ r.sl = sl /\ r.exposed = pack[p].exposed /\ r.alone = pack[p].alone /\ r.torn = pack[p].torn
  BY <1>3, <1>5 DEF RequestType, PackFields
<1>7. /\ s # None /\ s.total = TotalWeight(sl) /\ s.covered = CoveredWeight(sl)
      /\ s.uncovered = Uncovered(sl) /\ s.gaps = {x.risk : x \in gaps}
  BY <1>4, SnapshotIs
<1>8. RequestType(r)
  BY <1>2, <1>3, <1>6, <1>7 DEF RequestType, PackPc
<1>9. Changes(p) /\ pack'[p] = r
  BY <1>1, <1>3, <1>4, <1>5 DEF Changes
<1>10. ASSUME ~pack'[p].torn PROVE Untorn(pack[p])'
  <2>1. /\ sl.holdings = graph.holds[f] /\ sl.exposures = Exposures(f)
        /\ sl.provenance = ProvenanceOf(f) /\ pack[p].exposed = Exposures(f)
    BY <1>2, <1>6, <1>9, <1>10 DEF PackInv, ReadInv, Untorn
  <2>2. f \in Fund
    BY <1>2, <1>3 DEF RequestType
  <2>3. /\ IsFiniteSet(DOMAIN sl.holdings) /\ \A x \in DOMAIN sl.holdings : sl.holdings[x] \in Int
    <3>1. DOMAIN sl.holdings \subseteq Company /\ \A x \in DOMAIN sl.holdings : sl.holdings[x] \in Int
      BY <2>1, <2>2 DEF PackInv, GraphType
    <3>2. QED
      BY <3>1, FS_Subset, ReportAssumption
  <2>4. /\ DOMAIN sl.provenance = DOMAIN sl.holdings
        /\ \A x \in DOMAIN sl.holdings : sl.provenance[x].weight = sl.holdings[x]
    BY <2>1 DEF ProvenanceOf
  <2> HIDE DEF sl
  <2>5. CoveredWeight(sl) + Weight(sl, Uncovered(sl)) = TotalWeight(sl)
    BY <2>3, <2>4, CoverageAddsUp
  <2>6. {x.risk : x \in gaps} \subseteq {x.risk : x \in sl.exposures}
    BY <2>1 DEF Gaps
  <2>7. Figures(r)
    BY <1>6, <1>7, <2>1, <2>5, <2>6 DEF Figures
  <2>8. QED
    BY <1>6, <1>9, <2>7 DEF Untorn, Figures
<1>11. QED
  BY <1>2, <1>6, <1>8, <1>9, <1>10, ReadStep

\* A graph.
IsGraph(g) ==
    /\ DOMAIN g = Fields /\ DOMAIN g.holds = Fund
    /\ \A f \in Fund : /\ DOMAIN g.holds[f] \subseteq Company
                       /\ \A c \in DOMAIN g.holds[f] : g.holds[f][c] \in Int
    /\ IsFiniteSet(g.supplies)

\* A graph with other holdings, or with another set of edges.
LEMMA OtherHoldings ==
    ASSUME NEW g, IsGraph(g), NEW h, DOMAIN h = Fund,
           \A f \in Fund : /\ DOMAIN h[f] \subseteq Company
                          /\ \A c \in DOMAIN h[f] : h[f][c] \in Int
    PROVE  IsGraph([g EXCEPT !.holds = h])
  BY DEF IsGraph, Fields

LEMMA OtherEdges ==
    ASSUME NEW g, IsGraph(g), NEW edges, IsFiniteSet(edges) PROVE IsGraph([g EXCEPT !.supplies = edges])
  BY DEF IsGraph, Fields

LEMMA OtherExposed == ASSUME NEW g, IsGraph(g), NEW rows PROVE IsGraph([g EXCEPT !.exposed = rows])
  BY DEF IsGraph, Fields

LEMMA OtherMentions == ASSUME NEW g, IsGraph(g), NEW rows PROVE IsGraph([g EXCEPT !.mentions = rows])
  BY DEF IsGraph, Fields

LEMMA OtherRows ==
    ASSUME NEW g, IsGraph(g), NEW field \in Fields \ {"holds"}, NEW rows,
           field = "supplies" => IsFiniteSet(rows)
    PROVE  IsGraph([g EXCEPT ![field] = rows])
  BY DEF IsGraph, Fields

\* Edges of a finite set, each put elsewhere, over the rest of it.
LEMMA MergedFinite ==
    ASSUME NEW S, IsFiniteSet(S), NEW T, T \subseteq S, NEW P, IsFiniteSet(P), NEW field
    PROVE  IsFiniteSet(Merged(field, T, P))
<1>1. IsFiniteSet({x \in T : \A y \in P : ~SamePair(field, x, y)})
  BY FS_Subset
<1>2. QED
  BY <1>1, FS_Union DEF Merged

LEMMA PutFromFinite ==
    ASSUME NEW S, IsFiniteSet(S), NEW c PROVE IsFiniteSet({[e EXCEPT !.src = c] : e \in S})
<1> DEFINE Put(s) == {[e EXCEPT !.src = c] : e \in s}
           V == {s \in SUBSET S : IsFiniteSet(Put(s))}
<1>1. ASSUME NEW s \in SUBSET S, s # {}, \A x \in s : s \ {x} \in V PROVE s \in V
  <2>1. PICK x \in s : TRUE
    BY <1>1
  <2>2. IsFiniteSet(Put(s \ {x}))
    BY <1>1
  <2>3. PICK y : y = [x EXCEPT !.src = c]
    OBVIOUS
  <2>4. Put(s) = Put(s \ {x}) \cup {y}
    BY <2>3
  <2> HIDE DEF Put
  <2>5. IsFiniteSet(Put(s \ {x}) \cup {y})
    BY <2>2, FS_AddElement
  <2>6. QED
    BY <2>4, <2>5
<1>2. {} \in V
  <2>1. Put({}) = {}
    OBVIOUS
  <2>2. QED
    BY <2>1, FS_EmptySet
<1> HIDE DEF V
<1>3. SUBSET S \subseteq V
  BY <1>1, <1>2, SetInd
<1>4. QED
  BY <1>3 DEF V

LEMMA PutToFinite ==
    ASSUME NEW S, IsFiniteSet(S), NEW c PROVE IsFiniteSet({[e EXCEPT !.dst = c] : e \in S})
<1> DEFINE Put(s) == {[e EXCEPT !.dst = c] : e \in s}
           V == {s \in SUBSET S : IsFiniteSet(Put(s))}
<1>1. ASSUME NEW s \in SUBSET S, s # {}, \A x \in s : s \ {x} \in V PROVE s \in V
  <2>1. PICK x \in s : TRUE
    BY <1>1
  <2>2. IsFiniteSet(Put(s \ {x}))
    BY <1>1
  <2>3. PICK y : y = [x EXCEPT !.dst = c]
    OBVIOUS
  <2>4. Put(s) = Put(s \ {x}) \cup {y}
    BY <2>3
  <2> HIDE DEF Put
  <2>5. IsFiniteSet(Put(s \ {x}) \cup {y})
    BY <2>2, FS_AddElement
  <2>6. QED
    BY <2>4, <2>5
<1>2. {} \in V
  <2>1. Put({}) = {}
    OBVIOUS
  <2>2. QED
    BY <2>1, FS_EmptySet
<1> HIDE DEF V
<1>3. SUBSET S \subseteq V
  BY <1>1, <1>2, SetInd
<1>4. QED
  BY <1>3 DEF V

LEMMA CommitGraph == ASSUME GraphType, Commit PROVE GraphType'
<1>1. PICK n \in News :
        graph' = IF n[1] = "holds"
                 THEN [graph EXCEPT !.holds[n[2].fund] = Holding(@, n[2].company, n[2].weight)]
                 ELSE [graph EXCEPT ![n[1]] = Merged(n[1], @, {n[2]})]
  BY DEF Commit, Becomes
<1>2. n[1] \in Fields /\ IsGraph(graph)
  BY ReportAssumption DEF GraphType, IsGraph
<1>3. CASE n[1] # "holds"
  <2>1. PICK rows : rows = Merged(n[1], graph[n[1]], {n[2]})
    OBVIOUS
  <2>2. n[1] = "supplies" => IsFiniteSet(rows)
    <3>1. IsFiniteSet({n[2]})
      BY FS_Singleton
    <3>2. n[1] = "supplies" => IsFiniteSet(graph[n[1]])
      BY <1>2 DEF IsGraph
    <3>3. QED
      BY <2>1, <3>1, <3>2, MergedFinite
  <2>3. graph' = [graph EXCEPT ![n[1]] = rows]
    BY <1>1, <1>3, <2>1
  <2>4. IsGraph(graph')
    BY <1>2, <1>3, <2>2, <2>3, OtherRows
  <2>5. QED
    BY <2>4 DEF GraphType, IsGraph
<1>4. CASE n[1] = "holds"
  <2>1. n[2].fund \in Fund /\ n[2].company \in Company /\ n[2].weight \in Int
    BY <1>4, ReportAssumption
  <2>2. PICK held : held = Holding(graph.holds[n[2].fund], n[2].company, n[2].weight)
    OBVIOUS
  <2>3. PICK h : h = [graph.holds EXCEPT ![n[2].fund] = held]
    OBVIOUS
  <2>4. graph' = [graph EXCEPT !.holds = h]
    BY <1>1, <1>4, <2>2, <2>3
  <2>5. DOMAIN held \subseteq Company /\ \A c \in DOMAIN held : held[c] \in Int
    BY <1>2, <2>1, <2>2 DEF IsGraph, Holding
  <2>6. DOMAIN h = Fund /\ \A f \in Fund : h[f] = IF f = n[2].fund THEN held ELSE graph.holds[f]
    BY <1>2, <2>3 DEF IsGraph
  <2>7. ASSUME NEW f \in Fund
        PROVE  /\ DOMAIN h[f] \subseteq Company
               /\ \A c \in DOMAIN h[f] : h[f][c] \in Int
    BY <1>2, <2>5, <2>6 DEF IsGraph
  <2>8. IsGraph(graph')
    BY <1>2, <2>4, <2>6, <2>7, OtherHoldings
  <2>9. QED
    BY <2>8 DEF GraphType, IsGraph
<1>5. QED
  BY <1>3, <1>4

LEMMA WithoutGraph ==
    ASSUME NEW g, IsGraph(g), NEW funds, NEW companies PROVE IsGraph(Without(g, funds, companies))
<1> DEFINE h == [f \in DOMAIN g.holds |->
                    [c \in (IF f \in funds THEN {} ELSE DOMAIN g.holds[f] \ companies) |-> g.holds[f][c]]]
           edges == {e \in g.supplies : e.src \notin companies /\ e.dst \notin companies}
           w == Without(g, funds, companies)
<1>1. DOMAIN w = Fields /\ w.holds = h /\ w.supplies = edges
  BY DEF Without, IsGraph, Fields
<1>2. DOMAIN h = Fund
  BY DEF IsGraph
<1>3. ASSUME NEW f \in Fund
      PROVE  /\ DOMAIN h[f] \subseteq Company
             /\ \A c \in DOMAIN h[f] : h[f][c] \in Int
  <2>1. /\ DOMAIN h[f] = IF f \in funds THEN {} ELSE DOMAIN g.holds[f] \ companies
        /\ \A c \in DOMAIN h[f] : h[f][c] = g.holds[f][c]
    BY DEF IsGraph
  <2> HIDE DEF h
  <2>2. DOMAIN h[f] \subseteq DOMAIN g.holds[f]
    BY <2>1
  <2>3. QED
    BY <2>1, <2>2 DEF IsGraph
<1>4. IsFiniteSet(edges)
  BY FS_Subset DEF IsGraph
<1> HIDE DEF h, edges, w
<1>5. IsGraph(w)
  BY <1>1, <1>2, <1>3, <1>4 DEF IsGraph
<1>6. QED
  BY <1>5 DEF w

LEMMA RepointedGraph ==
    ASSUME NEW g, IsGraph(g), NEW type, NEW d \in Company, NEW c \in Company
    PROVE  IsGraph(Repointed(g, type, d, c))
<1> DEFINE held(h) == IF d \notin DOMAIN h THEN h
                      ELSE [x \in (DOMAIN h \cup {c}) \ {d} |-> h[IF x = c THEN d ELSE x]]
           h2 == [f \in DOMAIN g.holds |-> held(g.holds[f])]
<1>1. \A edges \in SUBSET g.supplies : IsFiniteSet(edges) /\ IsFiniteSet(g.supplies \ edges)
  BY FS_Subset DEF IsGraph
<1>2. CASE type = "out"
  <2>1. PICK out \in SUBSET g.supplies :
            Repointed(g, type, d, c) = [g EXCEPT !.supplies =
                Merged("supplies", g.supplies \ out, {[e EXCEPT !.src = c] : e \in out})]
    <3> DEFINE moved == {e \in g.supplies : e.src = d /\ e.dst # c}
    <3>1. Repointed(g, type, d, c) = [g EXCEPT !.supplies =
                Merged("supplies", g.supplies \ moved, {[e EXCEPT !.src = c] : e \in moved})]
      BY <1>2 DEF Repointed
    <3>2. moved \in SUBSET g.supplies
      OBVIOUS
    <3> HIDE DEF moved
    <3>3. QED
      BY <3>1, <3>2, Zenon
  <2>2. PICK put : put = {[e EXCEPT !.src = c] : e \in out}
    OBVIOUS
  <2>3. IsFiniteSet(put)
    <3>1. IsFiniteSet(out)
      BY <1>1
    <3>2. IsFiniteSet({[e EXCEPT !.src = c] : e \in out})
      BY <3>1, PutFromFinite, Zenon
    <3>3. QED
      BY <2>2, <3>2, Zenon
  <2>4. PICK edges : edges = Merged("supplies", g.supplies \ out, put)
    OBVIOUS
  <2>5. IsFiniteSet(edges)
    BY <1>1, <2>3, <2>4, MergedFinite
  <2>6. Repointed(g, type, d, c) = [g EXCEPT !.supplies = edges]
    BY <2>1, <2>2, <2>4
  <2>7. QED
    BY <2>5, <2>6, OtherEdges
<1>3. CASE type = "in"
  <2>1. PICK in \in SUBSET g.supplies :
            Repointed(g, type, d, c) = [g EXCEPT !.supplies =
                Merged("supplies", g.supplies \ in, {[e EXCEPT !.dst = c] : e \in in})]
    <3> DEFINE moved == {e \in g.supplies : e.dst = d /\ e.src # c}
    <3>1. Repointed(g, type, d, c) = [g EXCEPT !.supplies =
                Merged("supplies", g.supplies \ moved, {[e EXCEPT !.dst = c] : e \in moved})]
      BY <1>3 DEF Repointed
    <3>2. moved \in SUBSET g.supplies
      OBVIOUS
    <3> HIDE DEF moved
    <3>3. QED
      BY <3>1, <3>2, Zenon
  <2>2. PICK put : put = {[e EXCEPT !.dst = c] : e \in in}
    OBVIOUS
  <2>3. IsFiniteSet(put)
    <3>1. IsFiniteSet(in)
      BY <1>1
    <3>2. IsFiniteSet({[e EXCEPT !.dst = c] : e \in in})
      BY <3>1, PutToFinite, Zenon
    <3>3. QED
      BY <2>2, <3>2, Zenon
  <2>4. PICK edges : edges = Merged("supplies", g.supplies \ in, put)
    OBVIOUS
  <2>5. IsFiniteSet(edges)
    BY <1>1, <2>3, <2>4, MergedFinite
  <2>6. Repointed(g, type, d, c) = [g EXCEPT !.supplies = edges]
    BY <2>1, <2>2, <2>4
  <2>7. QED
    BY <2>5, <2>6, OtherEdges
<1>4. CASE type = "exposed"
  <2>1. PICK rows : Repointed(g, type, d, c) = [g EXCEPT !.exposed = rows]
    <3> DEFINE from == {x \in g.exposed : x.company = d}
    <3>1. Repointed(g, type, d, c) = [g EXCEPT !.exposed =
                Merged("exposed", g.exposed \ from, {[x EXCEPT !.company = c] : x \in from})]
      BY <1>4 DEF Repointed
    <3> HIDE DEF from
    <3>2. QED
      BY <3>1, Zenon
  <2>2. QED
    BY <2>1, OtherExposed, Zenon
<1>5. CASE type = "mentions"
  <2>1. PICK rows : Repointed(g, type, d, c) = [g EXCEPT !.mentions = rows]
    <3>1. Repointed(g, type, d, c) = [g EXCEPT !.mentions =
                {<<m[1], IF m[2] = d THEN c ELSE m[2]>> : m \in g.mentions}]
      BY <1>5 DEF Repointed
    <3>2. QED
      BY <3>1, Zenon
  <2>2. QED
    BY <2>1, OtherMentions, Zenon
<1>6. CASE type \notin {"out", "in", "exposed", "mentions"}
  <2>1. Repointed(g, type, d, c) = [g EXCEPT !.holds = h2]
    BY <1>6 DEF Repointed
  <2>2. DOMAIN h2 = Fund /\ \A f \in Fund : h2[f] = held(g.holds[f])
    BY DEF IsGraph
  <2>3. ASSUME NEW f \in Fund
        PROVE  /\ DOMAIN h2[f] \subseteq Company
               /\ \A x \in DOMAIN h2[f] : h2[f][x] \in Int
    <3>1. /\ DOMAIN g.holds[f] \subseteq Company
          /\ \A x \in DOMAIN g.holds[f] : g.holds[f][x] \in Int
      BY DEF IsGraph
    <3>2. h2[f] = held(g.holds[f])
      BY <2>2
    <3> HIDE DEF h2
    <3>3. CASE d \notin DOMAIN g.holds[f]
      BY <3>1, <3>2, <3>3
    <3>4. CASE d \in DOMAIN g.holds[f]
      BY <3>1, <3>2, <3>4
    <3>5. QED
      BY <3>3, <3>4
  <2> HIDE DEF h2
  <2>4. QED
    BY <2>1, <2>2, <2>3, OtherHoldings
<1>7. QED
  BY <1>2, <1>3, <1>4, <1>5, <1>6

\* Whatever changes the graph leaves a graph, and tears what is being read;
\* and a merge under way is of two companies.
LEMMA StepGraph ==
    ASSUME GraphType, MergeType, GraphStep
    PROVE  /\ GraphType' /\ MergeType'
           /\ \/ Becomes(graph')
              \/ UNCHANGED <<graph, registry, report, links, packs, pack, apart>>
<1>1. IsGraph(graph)
  BY DEF GraphType, IsGraph
<1>2. IsGraph(graph') => GraphType'
  BY DEF GraphType, IsGraph
<1>3. CASE Commit
  <2>1. merge' = merge /\ Becomes(graph')
    BY <1>3 DEF Commit, Becomes
  <2>2. QED
    BY <1>3, <2>1, CommitGraph DEF MergeType
<1>4. CASE DeleteFirm
  <2>1. PICK firm \in Firms : Becomes(Without(graph, firm.funds, {firm.company})) /\ merge' = merge
    BY <1>4 DEF DeleteFirm
  <2>2. graph' = Without(graph, firm.funds, {firm.company}) /\ Becomes(graph')
    BY <2>1 DEF Becomes
  <2>3. QED
    BY <1>1, <1>2, <2>1, <2>2, WithoutGraph DEF MergeType
<1>5. CASE Discover
  <2>1. PICK m \in Merges : \E todo : merge' = [dup |-> m[1], canonical |-> m[2], todo |-> todo]
    BY <1>5 DEF Discover
  <2>2. UNCHANGED <<graph, registry, report, links, packs, pack, apart>>
    BY <1>5 DEF Discover
  <2>3. m[1] \in Company /\ m[2] \in Company
    BY ReportAssumption
  <2>4. MergeType'
    BY <2>1, <2>3 DEF MergeType
  <2>5. GraphType'
    BY <2>2 DEF GraphType
  <2>6. QED
    BY <2>2, <2>4, <2>5
<1>6. CASE Move
  <2>1. PICK type \in merge.todo :
            /\ merge' = [merge EXCEPT !.todo = @ \ {type}]
            /\ Becomes(Repointed(graph, type, merge.dup, merge.canonical))
    BY <1>6 DEF Move
  <2>2. merge # None
    BY <1>6 DEF Move
  <2>3. graph' = Repointed(graph, type, merge.dup, merge.canonical) /\ Becomes(graph')
    BY <2>1 DEF Becomes
  <2>4. DOMAIN merge = {"dup", "canonical", "todo"} /\ merge.dup \in Company /\ merge.canonical \in Company
    BY <2>2 DEF MergeType
  <2>5. MergeType'
    BY <2>1, <2>4 DEF MergeType
  <2>6. QED
    BY <1>1, <1>2, <2>3, <2>4, <2>5, RepointedGraph
<1>7. CASE DropDuplicate
  <2>1. merge' = None /\ Becomes(Without(graph, {}, {merge.dup}))
    BY <1>7 DEF DropDuplicate
  <2>2. graph' = Without(graph, {}, {merge.dup}) /\ Becomes(graph')
    BY <2>1 DEF Becomes
  <2>3. QED
    BY <1>1, <1>2, <2>1, <2>2, WithoutGraph DEF MergeType
<1>8. CASE MergeFails
  <2>1. merge' = None /\ UNCHANGED <<graph, registry, report, links, packs, pack, apart>>
    BY <1>8 DEF MergeFails
  <2>2. QED
    BY <2>1 DEF MergeType, GraphType
<1>9. QED
  BY <1>3, <1>4, <1>5, <1>6, <1>7, <1>8 DEF GraphStep

\* What is being read is torn, and nothing is written.
LEMMA BecomesKeeps == ASSUME PackInv, GraphType', Becomes(graph') PROVE PackInv'
<1>2. /\ pack' = [p \in Pack |->
            [pack[p] EXCEPT !.torn = @ \/ (graph' # graph /\ pack[p].pc # "idle")]]
      /\ UNCHANGED <<registry, report, links, apart>>
  BY DEF Becomes
<1>3. ASSUME NEW p \in Pack
      PROVE  /\ DOMAIN pack'[p] = PackFields /\ \A k \in PackFields \ {"torn"} : pack'[p][k] = pack[p][k]
             /\ pack'[p].torn \in BOOLEAN
             /\ (~pack'[p].torn => ~pack[p].torn /\ (graph' = graph \/ pack[p].pc = "idle"))
  <2>1. DOMAIN pack[p] = PackFields /\ pack[p].torn \in BOOLEAN
    BY DEF PackInv, PackType, RequestType
  <2>2. pack'[p] = [pack[p] EXCEPT !.torn = pack[p].torn \/ (graph' # graph /\ pack[p].pc # "idle")]
    BY <1>2
  <2>3. QED
    BY <2>1, <2>2 DEF PackFields
<1>4. ASSUME NEW p \in Pack
      PROVE  /\ pack'[p].pc = pack[p].pc /\ pack'[p].fund = pack[p].fund /\ pack'[p].sl = pack[p].sl
             /\ pack'[p].snapshot = pack[p].snapshot /\ pack'[p].todo = pack[p].todo
             /\ pack'[p].alone = pack[p].alone /\ pack'[p].exposed = pack[p].exposed
  BY <1>3 DEF PackFields
<1>5. PackType'
  <2>1. ASSUME NEW p \in Pack PROVE RequestType(pack[p])'
    <3>1. RequestType(pack[p])
      BY DEF PackInv, PackType
    <3>2. QED
      BY <1>3, <1>4, <3>1 DEF RequestType
  <2>2. QED
    BY <1>2, <2>1 DEF PackInv, PackType
<1>6. ReadInv'
  <2>1. ASSUME NEW p \in Pack, ~pack'[p].torn PROVE Untorn(pack[p])'
    <3>1. RequestType(pack[p]) /\ Untorn(pack[p]) /\ (graph' = graph \/ pack[p].pc = "idle")
      BY <1>3, <2>1 DEF PackInv, PackType, ReadInv
    <3>2. CASE pack[p].pc = "idle"
      <4>1. pack'[p].snapshot = None /\ pack'[p].pc = "idle"
        BY <1>4, <3>1, <3>2 DEF RequestType
      <4>2. QED
        BY <4>1 DEF Untorn
    <3>3. CASE graph' = graph
      <4>1. \A f : Exposures(f)' = Exposures(f) /\ ProvenanceOf(f)' = ProvenanceOf(f)
        BY <3>3 DEF Exposures, ProvenanceOf, DocsOn
      <4>2. QED
        BY <1>4, <3>1, <3>3, <4>1 DEF Untorn, Figures
    <3>4. QED
      BY <3>1, <3>2, <3>3
  <2>2. QED
    BY <2>1 DEF ReadInv
<1>7. \A f : Filing(f)' = Filing(f)
  BY <1>4 DEF Filing
<1>8. ASSUME NEW p \in Pack
      PROVE  FilingAt(p)' /\ (pack'[p].pc = "link" => report'[pack'[p].fund] # None)
  <2>1. FilingAt(p) /\ (pack[p].pc = "link" => report[pack[p].fund] # None)
    BY DEF PackInv, FilingInv
  <2>2. QED
    BY <1>2, <1>4, <1>7, <2>1 DEF FilingAt
<1>9. AuditTrailAnchored'
  BY <1>2, <1>7 DEF PackInv, FilingInv, AuditTrailAnchored
<1>10. QED
  BY <1>2, <1>5, <1>6, <1>8, <1>9 DEF PackInv, FilingInv

\* Writing leaves what was read as it is.
KeepsRead(o) ==
    /\ DOMAIN pack'[o] = PackFields /\ pack'[o].alone \in BOOLEAN
    /\ \A k \in {"fund", "sl", "exposed", "snapshot", "torn"} : pack'[o][k] = pack[o][k]
    /\ \/ pack'[o].pc = pack[o].pc
       \/ pack[o].pc \in {"register", "node", "link"} /\ pack'[o].pc \in {"node", "link", "done"}

LEMMA WriteStep ==
    ASSUME PackInv, graph' = graph, DOMAIN pack' = Pack, \A o \in Pack : KeepsRead(o),
           DOMAIN registry' = Fund, DOMAIN report' = Fund
    PROVE  GraphType' /\ PackType' /\ ReadInv'
<1>1. GraphType'
  BY DEF PackInv, GraphType
<1>2. ASSUME NEW o \in Pack
      PROVE  RequestType(pack'[o]) /\ (~pack'[o].torn => Untorn(pack[o])')
  <2>1. /\ RequestType(pack[o]) /\ (~pack[o].torn => Untorn(pack[o]))
    BY DEF PackInv, PackType, ReadInv
  <2>2. /\ DOMAIN pack'[o] = PackFields /\ pack'[o].alone \in BOOLEAN
        /\ pack'[o].fund = pack[o].fund /\ pack'[o].sl = pack[o].sl
        /\ pack'[o].exposed = pack[o].exposed /\ pack'[o].snapshot = pack[o].snapshot
        /\ pack'[o].torn = pack[o].torn
        /\ \/ pack'[o].pc = pack[o].pc
           \/ pack[o].pc \in {"register", "node", "link"} /\ pack'[o].pc \in {"node", "link", "done"}
    BY DEF KeepsRead
  <2>3. RequestType(pack'[o])
    BY <2>1, <2>2 DEF RequestType, PackPc
  <2>4. ASSUME ~pack'[o].torn PROVE Untorn(pack[o])'
    <3>1. Untorn(pack[o])
      BY <2>1, <2>2, <2>4
    <3>2. \A f : Exposures(f)' = Exposures(f) /\ ProvenanceOf(f)' = ProvenanceOf(f)
      BY DEF Exposures, ProvenanceOf, DocsOn
    <3>3. QED
      BY <2>2, <3>1, <3>2 DEF Untorn, Figures
  <2>5. QED
    BY <2>3, <2>4
<1>3. QED
  BY <1>1, <1>2 DEF PackType, ReadInv

LEMMA RegisterKeeps == ASSUME PackInv, NEW p \in Pack, Register(p) PROVE PackInv'
<1> DEFINE f == pack[p].fund
           files == pack[p].use = "file"
           next == IF files THEN "node" ELSE "done"
           lone == Filing(f) = {}
           still(o) == pack[o].alone /\ o \notin Filing(f)
<1>1. pack' = [o \in Pack |-> IF o = p THEN [pack[p] EXCEPT !.pc = next, !.alone = lone]
                              ELSE [pack[o] EXCEPT !.alone = still(o)]]
  BY Zenon DEF Register
<1>2. /\ pack[p].pc = "register"
      /\ registry' = [registry EXCEPT ![f] = pack[p].snapshot]
      /\ apart' = IF files /\ lone THEN apart ELSE apart \cup {f}
      /\ UNCHANGED <<graph, report, links>>
  BY Zenon DEF Register
<1> HIDE DEF next, lone, still
<1>3. \A o \in Pack : RequestType(pack[o]) /\ DOMAIN pack[o] = PackFields
  BY DEF PackInv, PackType, RequestType
<1>4. DOMAIN registry = Fund /\ DOMAIN report = Fund /\ f \in Fund
  BY <1>2, <1>3 DEF PackInv, PackType, RequestType
<1>5. PICK r : r = [pack[p] EXCEPT !.pc = next, !.alone = lone]
  OBVIOUS
<1>6. /\ DOMAIN r = PackFields /\ r.pc = next /\ r.alone = lone
      /\ \A k \in PackFields \ {"pc", "alone"} : r[k] = pack[p][k]
  BY <1>3, <1>5 DEF PackFields
<1>7. pack'[p] = r /\ DOMAIN pack' = Pack
  BY <1>1, <1>5
<1>8. ASSUME NEW o \in Pack, o # p
      PROVE  /\ DOMAIN pack'[o] = PackFields
             /\ pack'[o].alone = still(o)
             /\ \A k \in PackFields \ {"alone"} : pack'[o][k] = pack[o][k]
  <2>1. pack'[o] = [pack[o] EXCEPT !.alone = still(o)]
    BY <1>1, <1>8
  <2>2. QED
    BY <1>3, <2>1 DEF PackFields
<1>9. /\ pack'[p].fund = f /\ pack'[p].snapshot = pack[p].snapshot /\ pack'[p].todo = pack[p].todo
      /\ pack'[p].sl = pack[p].sl /\ pack'[p].exposed = pack[p].exposed
      /\ pack'[p].torn = pack[p].torn
  BY <1>6, <1>7 DEF PackFields
<1>10. ASSUME NEW o \in Pack, o # p
      PROVE  /\ pack'[o].fund = pack[o].fund /\ pack'[o].snapshot = pack[o].snapshot
             /\ pack'[o].todo = pack[o].todo /\ pack'[o].sl = pack[o].sl
             /\ pack'[o].exposed = pack[o].exposed /\ pack'[o].torn = pack[o].torn
             /\ pack'[o].pc = pack[o].pc
  BY <1>8, <1>10 DEF PackFields
<1>11. next = (IF files THEN "node" ELSE "done") /\ lone \in BOOLEAN /\ \A o : still(o) \in BOOLEAN
  BY DEF next, lone, still
<1>12. lone <=> Filing(f) = {}
  BY DEF lone
<1>13. \A o : still(o) <=> pack[o].alone /\ o \notin Filing(f)
  BY DEF still
<1> HIDE DEF files
<1>14. \A o \in Pack : KeepsRead(o)
  <2>1. KeepsRead(p)
    <3>1. pack'[p].alone \in BOOLEAN
      BY <1>6, <1>7, <1>11
    <3>2. QED
      BY <1>2, <1>6, <1>7, <1>9, <1>11, <3>1 DEF KeepsRead
  <2>2. ASSUME NEW o \in Pack, o # p PROVE KeepsRead(o)
    <3>1. pack'[o].alone \in BOOLEAN
      BY <1>8, <1>11, <2>2
    <3>2. QED
      BY <1>8, <1>10, <2>2, <3>1 DEF KeepsRead
  <2>3. QED
    BY <2>1, <2>2
<1>15. DOMAIN registry' = Fund /\ DOMAIN report' = Fund /\ graph' = graph
  BY <1>2, <1>4
<1>16. GraphType' /\ PackType' /\ ReadInv'
  BY <1>7, <1>14, <1>15, WriteStep
<1>17. /\ files => Filing(f)' = Filing(f) \cup {p}
       /\ \A g : g # f => Filing(g)' = Filing(g)
  <2>1. ASSUME NEW g, NEW o \in Pack
        PROVE  (pack'[o].pc \in {"node", "link"} /\ pack'[o].fund = g)
                <=> \/ pack[o].pc \in {"node", "link"} /\ pack[o].fund = g
                    \/ o = p /\ g = f /\ files
    <3>1. CASE o = p
      BY <1>2, <1>6, <1>7, <1>9, <1>11, <3>1
    <3>2. CASE o # p
      BY <1>10, <3>2
    <3>3. QED
      BY <3>1, <3>2
  <2>2. QED
    BY <2>1 DEF Filing
<1>18. \A g \in Fund : registry'[g] = IF g = f THEN pack[p].snapshot ELSE registry[g]
  BY <1>2, <1>4
<1>19. ASSUME NEW o \in Pack, o # p
       PROVE  FilingAt(o)' /\ (pack'[o].pc = "link" => report'[pack'[o].fund] # None)
  <2>1. /\ FilingAt(o) /\ (pack[o].pc = "link" => report[pack[o].fund] # None)
        /\ (pack[o].pc # "idle" => pack[o].fund \in Fund)
    BY <1>3 DEF PackInv, FilingInv, RequestType
  <2>2. pack'[o].alone <=> pack[o].alone /\ o \notin Filing(f)
    BY <1>8, <1>19, <1>13
  <2>3. CASE pack[o].pc \in {"node", "link"} /\ pack[o].fund = f
    <3>1. o \in Filing(f)
      BY <2>3 DEF Filing
    <3>2. f \in apart'
      BY <1>2, <1>12, <3>1
    <3>3. QED
      BY <1>2, <1>10, <1>19, <2>1, <2>2, <2>3, <3>1, <3>2 DEF FilingAt
  <2>4. CASE pack[o].pc \in {"node", "link"} /\ pack[o].fund # f
    <3>1. o \notin Filing(f)
      BY <2>4 DEF Filing
    <3>2. pack'[o].alone <=> pack[o].alone
      BY <2>2, <3>1
    <3>3. Filing(pack[o].fund)' = Filing(pack[o].fund) /\ registry'[pack[o].fund] = registry[pack[o].fund]
      <4>1. pack[o].fund \in Fund /\ pack[o].fund # f
        BY <2>1, <2>4
      <4>2. Filing(pack[o].fund)' = Filing(pack[o].fund)
        BY <1>10, <1>17, <1>19, <4>1
      <4>3. registry'[pack[o].fund] = registry[pack[o].fund]
        BY <1>18, <4>1
      <4>4. QED
        BY <4>2, <4>3
    <3>4. apart \subseteq apart'
      BY <1>2
    <3>5. QED
      BY <1>2, <1>10, <1>19, <2>1, <3>2, <3>3, <3>4 DEF FilingAt
  <2>5. CASE pack[o].pc \notin {"node", "link"}
    BY <1>10, <1>19, <2>5 DEF FilingAt
  <2>6. QED
    BY <2>3, <2>4, <2>5
<1>20. FilingAt(p)' /\ (pack'[p].pc = "link" => report'[pack'[p].fund] # None)
  <2>1. CASE ~files
    BY <1>6, <1>7, <1>11, <2>1 DEF FilingAt
  <2>2. CASE files /\ Filing(f) = {}
    <3>1. Filing(f)' = {p} /\ registry'[f] = pack[p].snapshot
      <4>1. Filing(f)' = Filing(f) \cup {p}
        BY <1>17, <2>2
      <4>2. Filing(f)' = {p}
        BY <2>2, <4>1
      <4>3. QED
        BY <1>4, <1>18, <4>2
    <3>2. QED
      BY <1>6, <1>7, <1>9, <1>11, <1>12, <2>2, <3>1 DEF FilingAt
  <2>3. CASE files /\ Filing(f) # {}
    BY <1>2, <1>6, <1>7, <1>9, <1>11, <1>12, <2>3 DEF FilingAt
  <2>4. QED
    BY <2>1, <2>2, <2>3
<1>21. AuditTrailAnchored'
  <2>1. ASSUME NEW g \in Fund, g \notin apart', Filing(g)' = {}, report'[g] # None
        PROVE  registry'[g] = report'[g] /\ {g} \X (report'[g].docs \cap Noded) \subseteq links'
    <3>1. g # f
      <4>1. CASE files
        BY <1>9, <1>17, <2>1, <4>1
      <4>2. CASE ~files
        BY <1>2, <2>1, <4>2
      <4>3. QED
        BY <4>1, <4>2
    <3>2. g \notin apart /\ Filing(g) = {} /\ registry'[g] = registry[g]
      BY <1>2, <1>17, <1>18, <2>1, <3>1
    <3>3. QED
      BY <1>2, <2>1, <3>2 DEF PackInv, FilingInv, AuditTrailAnchored
  <2>2. QED
    BY <2>1 DEF AuditTrailAnchored
<1>22. \A l \in links' : l[1] \in Fund /\ report'[l[1]] # None
  BY <1>2 DEF PackInv, FilingInv
<1>23. QED
  BY <1>16, <1>19, <1>20, <1>21, <1>22 DEF PackInv, FilingInv

\* An action on p that leaves the requests that file as many as they were.
LEMMA FilingSame ==
    ASSUME NEW p \in Pack, Changes(p), pack'[p].fund = pack[p].fund,
           pack'[p].pc \in {"node", "link"} <=> pack[p].pc \in {"node", "link"}
    PROVE  \A f : Filing(f)' = Filing(f)
  BY DEF Filing, Changes

LEMMA WriteNodeKeeps == ASSUME PackInv, NEW p \in Pack, WriteNode(p) PROVE PackInv'
<1> DEFINE f == pack[p].fund
           s == pack[p].snapshot
<1>1. /\ pack[p].pc = "node" /\ report' = [report EXCEPT ![f] = s]
      /\ pack' = [pack EXCEPT ![p].pc = "link", ![p].todo = s.docs]
      /\ UNCHANGED <<graph, registry, links, apart>>
  BY DEF WriteNode
<1>2. \A o \in Pack : RequestType(pack[o])
  BY DEF PackInv, PackType
<1>3. DOMAIN registry = Fund /\ DOMAIN report = Fund /\ f \in Fund /\ s # None /\ DOMAIN pack = Pack
  BY <1>1, <1>2 DEF PackInv, PackType, RequestType
<1>4. PICK r : r = [pack[p] EXCEPT !.pc = "link", !.todo = s.docs]
  OBVIOUS
<1>5. /\ DOMAIN r = PackFields /\ r.pc = "link" /\ r.todo = s.docs
      /\ \A k \in PackFields \ {"pc", "todo"} : r[k] = pack[p][k]
  BY <1>2, <1>4 DEF PackFields, RequestType
<1>6. Changes(p) /\ pack'[p] = r
  BY <1>1, <1>3, <1>4 DEF Changes
<1>7. r.fund = f /\ r.snapshot = s /\ r.alone = pack[p].alone
  BY <1>5 DEF PackFields
<1>8. \A o \in Pack : KeepsRead(o)
  <2>1. KeepsRead(p)
    BY <1>1, <1>2, <1>5, <1>6 DEF KeepsRead, PackFields, RequestType
  <2>2. ASSUME NEW o \in Pack, o # p PROVE KeepsRead(o)
    BY <1>2, <1>6, <2>2 DEF KeepsRead, Changes, RequestType
  <2>3. QED
    BY <2>1, <2>2
<1>9. GraphType' /\ PackType' /\ ReadInv'
  <2>1. DOMAIN registry' = Fund /\ DOMAIN report' = Fund /\ graph' = graph /\ DOMAIN pack' = Pack
    BY <1>1, <1>3, <1>6 DEF Changes
  <2>2. QED
    BY <1>8, <2>1, WriteStep
<1>10. \A g : Filing(g)' = Filing(g)
  BY <1>1, <1>5, <1>6, <1>7, FilingSame
<1>11. \A g \in Fund : report'[g] = IF g = f THEN s ELSE report[g]
  BY <1>1, <1>3
<1>12. FilingAt(p)' /\ (pack'[p].pc = "link" => report'[pack'[p].fund] # None)
  <2>1. FilingAt(p)
    BY DEF PackInv, FilingInv
  <2>2. Filing(f)' = Filing(f) /\ report'[f] = s
    BY <1>3, <1>6, <1>7, <1>10, <1>11
  <2>3. QED
    BY <1>1, <1>3, <1>5, <1>6, <1>7, <2>1, <2>2 DEF FilingAt
<1>13. ASSUME NEW o \in Pack, o # p
       PROVE  FilingAt(o)' /\ (pack'[o].pc = "link" => report'[pack'[o].fund] # None)
  <2>1. /\ FilingAt(o) /\ (pack[o].pc = "link" => report[pack[o].fund] # None)
        /\ (pack[o].pc # "idle" => pack[o].fund \in Fund)
    BY <1>2 DEF PackInv, FilingInv, RequestType
  <2>2. pack'[o] = pack[o]
    BY <1>6, <1>13 DEF Changes
  <2>3. CASE pack[o].pc \in {"node", "link"} /\ pack[o].fund = f
    <3>1. p \in Filing(f)
      BY <1>1 DEF Filing
    <3>2. ~pack[o].alone /\ f \in apart
      BY <1>13, <2>1, <2>3, <3>1 DEF FilingAt
    <3>3. QED
      BY <1>1, <1>3, <1>11, <2>2, <2>3, <3>2 DEF FilingAt
  <2>4. CASE pack[o].pc \in {"node", "link"} /\ pack[o].fund # f
    <3>1. report'[pack[o].fund] = report[pack[o].fund]
      BY <1>11, <2>1, <2>4
    <3>2. Filing(pack[o].fund)' = Filing(pack[o].fund)
      BY <1>10, <2>2
    <3>3. links' = links /\ registry' = registry /\ apart' = apart
      BY <1>1
    <3>4. FilingAt(o)'
      BY <2>1, <2>2, <3>1, <3>2, <3>3 DEF FilingAt
    <3>5. QED
      BY <2>1, <2>2, <3>1, <3>4
  <2>5. CASE pack[o].pc \notin {"node", "link"}
    BY <2>2, <2>5 DEF FilingAt
  <2>6. QED
    BY <2>3, <2>4, <2>5
<1>14. AuditTrailAnchored'
  <2>1. ASSUME NEW g \in Fund, g \notin apart', Filing(g)' = {}, report'[g] # None
        PROVE  registry'[g] = report'[g] /\ {g} \X (report'[g].docs \cap Noded) \subseteq links'
    <3>1. Filing(g) = {} /\ g # f
      BY <1>1, <1>10, <2>1 DEF Filing
    <3>2. report'[g] = report[g]
      BY <1>11, <3>1
    <3>3. registry[g] = report[g] /\ {g} \X (report[g].docs \cap Noded) \subseteq links
      BY <1>1, <2>1, <3>1, <3>2 DEF PackInv, FilingInv, AuditTrailAnchored
    <3>4. QED
      BY <1>1, <3>2, <3>3
  <2>2. QED
    BY <2>1 DEF AuditTrailAnchored
<1>15. \A l \in links' : l[1] \in Fund /\ report'[l[1]] # None
  BY <1>1, <1>3, <1>11 DEF PackInv, FilingInv
<1>16. QED
  BY <1>9, <1>12, <1>13, <1>14, <1>15 DEF PackInv, FilingInv

LEMMA LinkKeeps == ASSUME PackInv, NEW p \in Pack, Link(p) PROVE PackInv'
<1> DEFINE f == pack[p].fund
<1>1. PICK d \in pack[p].todo :
        /\ links' = links \cup ({f} \X ({d} \cap Noded))
        /\ pack' = [pack EXCEPT ![p].todo = @ \ {d}]
  BY DEF Link
<1>2. pack[p].pc = "link" /\ UNCHANGED <<graph, registry, report, apart>>
  BY DEF Link
<1>3. (\A o \in Pack : RequestType(pack[o])) /\ DOMAIN pack = Pack
  BY DEF PackInv, PackType
<1>4. PICK r : r = [pack[p] EXCEPT !.todo = @ \ {d}]
  OBVIOUS
<1>5. /\ DOMAIN r = PackFields /\ r.todo = pack[p].todo \ {d}
      /\ \A k \in PackFields \ {"todo"} : r[k] = pack[p][k]
  BY <1>3, <1>4 DEF PackFields, RequestType
<1>6. Changes(p) /\ pack'[p] = r
  BY <1>1, <1>3, <1>4 DEF Changes
<1>7. r.fund = f /\ r.snapshot = pack[p].snapshot /\ r.alone = pack[p].alone /\ r.pc = "link"
  BY <1>2, <1>5 DEF PackFields
<1>8. \A o \in Pack : KeepsRead(o)
  <2>1. KeepsRead(p)
    BY <1>2, <1>3, <1>5, <1>6, <1>7 DEF KeepsRead, PackFields, RequestType
  <2>2. ASSUME NEW o \in Pack, o # p PROVE KeepsRead(o)
    BY <1>3, <1>6, <2>2 DEF KeepsRead, Changes, RequestType
  <2>3. QED
    BY <2>1, <2>2
<1>9. GraphType' /\ PackType' /\ ReadInv'
  <2>1. DOMAIN registry' = Fund /\ DOMAIN report' = Fund /\ graph' = graph /\ DOMAIN pack' = Pack
    BY <1>2, <1>6 DEF Changes, PackInv, PackType
  <2>2. QED
    BY <1>8, <2>1, WriteStep
<1>10. \A g : Filing(g)' = Filing(g)
  BY <1>2, <1>6, <1>7, FilingSame
<1>11. f \in Fund /\ report[f] # None
  BY <1>2, <1>3 DEF PackInv, FilingInv, RequestType
<1>12. ASSUME NEW o \in Pack
       PROVE  FilingAt(o)' /\ (pack'[o].pc = "link" => report'[pack'[o].fund] # None)
  <2>1. FilingAt(o) /\ (pack[o].pc = "link" => report[pack[o].fund] # None)
    BY DEF PackInv, FilingInv
  <2>2. CASE o = p
    <3>1. \A x \in (r.snapshot.docs \cap Noded) \ r.todo :
            (x = d /\ d \in Noded) \/ x \in (pack[p].snapshot.docs \cap Noded) \ pack[p].todo
      BY <1>5, <1>7
    <3>2. QED
      BY <1>1, <1>2, <1>6, <1>7, <1>10, <2>1, <2>2, <3>1 DEF FilingAt
  <2>3. CASE o # p
    <3>1. pack'[o] = pack[o]
      BY <1>6, <2>3 DEF Changes
    <3>2. QED
      BY <1>1, <1>2, <1>10, <2>1, <3>1 DEF FilingAt
  <2>4. QED
    BY <2>2, <2>3
<1>13. AuditTrailAnchored'
  <2>1. links \subseteq links'
    BY <1>1
  <2>2. QED
    BY <1>2, <1>10, <2>1 DEF PackInv, FilingInv, AuditTrailAnchored
<1>14. \A l \in links' : l[1] \in Fund /\ report'[l[1]] # None
  BY <1>1, <1>2, <1>11 DEF PackInv, FilingInv
<1>15. QED
  BY <1>9, <1>12, <1>13, <1>14 DEF PackInv, FilingInv

\* What filings of others know is not disturbed by one that ends.
LEMMA OthersStand ==
    ASSUME PackInv, NEW p \in Pack, Changes(p), UNCHANGED <<registry, report, links>>,
           pack'[p].pc \notin {"node", "link"},
           \A g : g # pack[p].fund \/ p \notin Filing(g) => (g \in apart' <=> g \in apart),
           p \in Filing(pack[p].fund) /\ ~pack[p].alone => pack[p].fund \in apart'
    PROVE  /\ \A o \in Pack :
                FilingAt(o)' /\ (pack'[o].pc = "link" => report'[pack'[o].fund] # None)
           /\ \A l \in links' : l[1] \in Fund /\ report'[l[1]] # None
           /\ \A g \in Fund : g # pack[p].fund /\ g \notin apart' /\ Filing(g)' = {} /\ report'[g] # None =>
                registry'[g] = report'[g] /\ {g} \X (report'[g].docs \cap Noded) \subseteq links'
<1>1. \A o \in Pack : o # p => pack'[o] = pack[o]
  BY DEF Changes
<1>2. \A g : Filing(g)' = Filing(g) \ {p}
  BY <1>1 DEF Filing
<1>3. ASSUME NEW o \in Pack, o # p
      PROVE  FilingAt(o)' /\ (pack'[o].pc = "link" => report'[pack'[o].fund] # None)
  <2>1. FilingAt(o) /\ (pack[o].pc = "link" => report[pack[o].fund] # None)
    BY DEF PackInv, FilingInv
  <2>2. pack'[o] = pack[o]
    BY <1>1, <1>3
  <2>3. CASE pack[o].pc \in {"node", "link"} /\ p \in Filing(pack[o].fund)
    <3>1. ~pack[o].alone
      BY <1>3, <2>1, <2>3 DEF FilingAt
    <3>2. FilingAt(p) /\ pack[p].fund = pack[o].fund /\ pack[p].pc \in {"node", "link"}
      BY <2>3 DEF PackInv, FilingInv, Filing
    <3>3. o \in Filing(pack[p].fund)
      BY <2>3, <3>2 DEF Filing
    <3>4. ~pack[p].alone
      BY <1>3, <3>2, <3>3 DEF FilingAt
    <3>5. pack[o].fund \in apart'
      BY <2>3, <3>2, <3>4
    <3>6. QED
      BY <2>1, <2>2, <3>1, <3>5 DEF FilingAt
  <2>4. CASE pack[o].pc \in {"node", "link"} /\ p \notin Filing(pack[o].fund)
    <3>1. Filing(pack[o].fund)' = Filing(pack[o].fund)
      BY <1>2, <2>2, <2>4
    <3>2. pack[o].fund \in apart' <=> pack[o].fund \in apart
      BY <2>4
    <3>3. QED
      BY <2>1, <2>2, <3>1, <3>2 DEF FilingAt
  <2>5. CASE pack[o].pc \notin {"node", "link"}
    BY <2>2, <2>5 DEF FilingAt
  <2>6. QED
    BY <2>3, <2>4, <2>5
<1>4. FilingAt(p)' /\ (pack'[p].pc = "link" => report'[pack'[p].fund] # None)
  BY DEF FilingAt
<1>5. \A l \in links' : l[1] \in Fund /\ report'[l[1]] # None
  BY DEF PackInv, FilingInv
<1>6. ASSUME NEW g \in Fund, g # pack[p].fund, g \notin apart', Filing(g)' = {}, report'[g] # None
      PROVE  registry'[g] = report'[g] /\ {g} \X (report'[g].docs \cap Noded) \subseteq links'
  <2>1. p \notin Filing(g)
    BY <1>6 DEF Filing
  <2>2. g \notin apart /\ Filing(g) = {}
    BY <1>2, <1>6, <2>1
  <2>3. registry[g] = report[g] /\ {g} \X (report[g].docs \cap Noded) \subseteq links
    BY <1>6, <2>2 DEF PackInv, FilingInv, AuditTrailAnchored
  <2>4. QED
    BY <2>3
<1>7. QED
  BY <1>3, <1>4, <1>5, <1>6

LEMMA FiledKeeps == ASSUME PackInv, NEW p \in Pack, Filed(p) PROVE PackInv'
<1> DEFINE f == pack[p].fund
<1>1. /\ pack[p].pc = "link" /\ pack[p].todo = {}
      /\ pack' = [pack EXCEPT ![p].pc = "done"]
      /\ apart' = IF pack[p].alone THEN apart \ {f} ELSE apart
      /\ UNCHANGED <<graph, registry, report, links>>
  BY DEF Filed
<1>2. (\A o \in Pack : RequestType(pack[o])) /\ DOMAIN pack = Pack
  BY DEF PackInv, PackType
<1>3. PICK r : r = [pack[p] EXCEPT !.pc = "done"]
  OBVIOUS
<1>4. DOMAIN r = PackFields /\ r.pc = "done" /\ \A k \in PackFields \ {"pc"} : r[k] = pack[p][k]
  BY <1>2, <1>3 DEF PackFields, RequestType
<1>5. Changes(p) /\ pack'[p] = r
  BY <1>1, <1>2, <1>3 DEF Changes
<1>6. \A o \in Pack : KeepsRead(o)
  <2>1. KeepsRead(p)
    BY <1>1, <1>2, <1>4, <1>5 DEF KeepsRead, PackFields, RequestType
  <2>2. ASSUME NEW o \in Pack, o # p PROVE KeepsRead(o)
    BY <1>2, <1>5, <2>2 DEF KeepsRead, Changes, RequestType
  <2>3. QED
    BY <2>1, <2>2
<1>7. GraphType' /\ PackType' /\ ReadInv'
  <2>1. DOMAIN registry' = Fund /\ DOMAIN report' = Fund /\ graph' = graph /\ DOMAIN pack' = Pack
    BY <1>1, <1>5 DEF Changes, PackInv, PackType
  <2>2. QED
    BY <1>6, <2>1, WriteStep
<1>8. p \in Filing(f) /\ FilingAt(p)
  BY <1>1 DEF Filing, PackInv, FilingInv
<1>9. \A g : p \in Filing(g) => g = f
  BY DEF Filing
<1>10. f \in apart' <=> ~pack[p].alone
  BY <1>1, <1>8 DEF FilingAt
<1>11. \A g : g # f \/ p \notin Filing(g) => (g \in apart' <=> g \in apart)
  BY <1>1, <1>8
<1>12. /\ \A o \in Pack :
            FilingAt(o)' /\ (pack'[o].pc = "link" => report'[pack'[o].fund] # None)
       /\ \A l \in links' : l[1] \in Fund /\ report'[l[1]] # None
       /\ \A g \in Fund : g # f /\ g \notin apart' /\ Filing(g)' = {} /\ report'[g] # None =>
            registry'[g] = report'[g] /\ {g} \X (report'[g].docs \cap Noded) \subseteq links'
  BY <1>1, <1>4, <1>5, <1>10, <1>11, OthersStand
<1>13. AuditTrailAnchored'
  <2>1. ASSUME f \notin apart', report'[f] # None
        PROVE  registry'[f] = report'[f] /\ \A d \in report'[f].docs \cap Noded : <<f, d>> \in links'
    <3>1. pack[p].alone
      BY <1>10, <2>1
    <3>2. /\ registry[f] = pack[p].snapshot /\ report[f] = pack[p].snapshot
          /\ \A d \in (pack[p].snapshot.docs \cap Noded) \ pack[p].todo : <<f, d>> \in links
      BY <1>1, <1>8, <3>1 DEF FilingAt
    <3>3. registry'[f] = report[f] /\ report'[f] = report[f] /\ links' = links
      BY <1>1, <3>2
    <3>4. QED
      BY <1>1, <3>2, <3>3
  <2>2. ASSUME NEW g \in Fund, g \notin apart', Filing(g)' = {}, report'[g] # None
        PROVE  registry'[g] = report'[g] /\ {g} \X (report'[g].docs \cap Noded) \subseteq links'
    <3>1. CASE g = f
      BY <2>1, <2>2, <3>1
    <3>2. CASE g # f
      BY <1>12, <2>2, <3>2
    <3>3. QED
      BY <3>1, <3>2
  <2>3. QED
    BY <2>2 DEF AuditTrailAnchored
<1>14. QED
  BY <1>7, <1>12, <1>13 DEF PackInv, FilingInv

LEMMA FailKeeps == ASSUME PackInv, NEW p \in Pack, Fail(p) PROVE PackInv'
<1> DEFINE f == pack[p].fund
<1>1. /\ pack[p].pc \notin {"idle", "done"} /\ pack' = [pack EXCEPT ![p] = Idle]
      /\ apart' = apart \cup {g \in {f} : p \in Filing(g)}
      /\ UNCHANGED <<graph, registry, report, links>>
  BY DEF Fail
<1>2. Changes(p) /\ pack'[p] = Idle
  BY <1>1 DEF Changes, PackInv, PackType
<1>3. Idle.pc = "idle" /\ RequestType(Idle) /\ Untorn(Idle) /\ Idle.snapshot = None
  BY IdleType DEF Idle
<1>4. GraphType' /\ PackType'
  <2>1. GraphType'
    BY <1>1 DEF PackInv, GraphType
  <2>2. \A o \in Pack : RequestType(pack'[o])
    BY <1>2, <1>3 DEF Changes, PackInv, PackType
  <2>3. QED
    BY <1>1, <1>2, <2>1, <2>2 DEF Changes, PackInv, PackType
<1>5. ReadInv'
  <2>1. ASSUME NEW o \in Pack, ~pack'[o].torn PROVE Untorn(pack[o])'
    <3>1. CASE o = p
      BY <1>2, <1>3, <3>1 DEF Untorn
    <3>2. CASE o # p
      <4>1. pack'[o] = pack[o] /\ Untorn(pack[o])
        BY <1>2, <2>1, <3>2 DEF Changes, PackInv, ReadInv
      <4>2. \A g : Exposures(g)' = Exposures(g) /\ ProvenanceOf(g)' = ProvenanceOf(g)
        BY <1>1 DEF Exposures, ProvenanceOf, DocsOn
      <4>3. QED
        BY <1>1, <4>1, <4>2 DEF Untorn, Figures
    <3>3. QED
      BY <3>1, <3>2
  <2>2. QED
    BY <2>1 DEF ReadInv
<1>6. \A g : g # f \/ p \notin Filing(g) => (g \in apart' <=> g \in apart)
  BY <1>1
<1>7. p \in Filing(f) => f \in apart'
  BY <1>1
<1>8. /\ \A o \in Pack :
            FilingAt(o)' /\ (pack'[o].pc = "link" => report'[pack'[o].fund] # None)
      /\ \A l \in links' : l[1] \in Fund /\ report'[l[1]] # None
      /\ \A g \in Fund : g # f /\ g \notin apart' /\ Filing(g)' = {} /\ report'[g] # None =>
            registry'[g] = report'[g] /\ {g} \X (report'[g].docs \cap Noded) \subseteq links'
  BY <1>1, <1>2, <1>3, <1>6, <1>7, OthersStand
<1>9. AuditTrailAnchored'
  <2>1. ASSUME NEW g \in Fund, g \notin apart', Filing(g)' = {}, report'[g] # None
        PROVE  registry'[g] = report'[g] /\ {g} \X (report'[g].docs \cap Noded) \subseteq links'
    <3>1. CASE g = f
      <4>1. p \notin Filing(g)
        BY <1>7, <2>1, <3>1
      <4>2. Filing(g)' = Filing(g)
        BY <1>2, <1>3, <4>1 DEF Filing, Changes
      <4>3. g \notin apart
        BY <1>1, <2>1
      <4>4. registry[g] = report[g] /\ {g} \X (report[g].docs \cap Noded) \subseteq links
        BY <1>1, <2>1, <4>2, <4>3 DEF PackInv, FilingInv, AuditTrailAnchored
      <4>5. QED
        BY <1>1, <4>4
    <3>2. CASE g # f
      BY <1>8, <2>1, <3>2
    <3>3. QED
      BY <3>1, <3>2
  <2>2. QED
    BY <2>1 DEF AuditTrailAnchored
<1>10. QED
  BY <1>4, <1>5, <1>8, <1>9 DEF PackInv, FilingInv

LEMMA PackInit == ASSUME ReportInit PROVE PackInv
<1>1. /\ graph = FirstGraph /\ registry = [f \in Fund |-> None] /\ report = [f \in Fund |-> None]
      /\ links = {} /\ pack = [p \in Pack |-> Idle] /\ apart = {}
  BY DEF ReportInit
<1>2. GraphType
  BY <1>1, ReportAssumption DEF GraphType
<1>3. \A p \in Pack : pack[p].pc = "idle" /\ RequestType(pack[p]) /\ Untorn(pack[p])
  <2>1. \A p \in Pack : pack[p] = Idle
    BY <1>1
  <2>2. QED
    BY <2>1, IdleType
<1>4. PackType /\ ReadInv
  BY <1>1, <1>3 DEF PackType, ReadInv
<1>5. FilingInv
  BY <1>1, <1>3 DEF FilingInv, FilingAt, AuditTrailAnchored
<1>6. QED
  BY <1>2, <1>4, <1>5 DEF PackInv

LEMMA PackUnchanged == ASSUME PackInv, UNCHANGED <<graph, registry, report, links, pack, apart>> PROVE PackInv'
<1>1. UNCHANGED <<graph, registry, report, links, pack, apart>>
  OBVIOUS
<1>2. GraphType' /\ PackType'
  BY <1>1 DEF PackInv, GraphType, PackType
<1>3. \A f : Exposures(f)' = Exposures(f) /\ ProvenanceOf(f)' = ProvenanceOf(f)
  BY <1>1 DEF Exposures, ProvenanceOf, DocsOn
<1>4. ASSUME NEW p \in Pack, ~pack'[p].torn PROVE Untorn(pack[p])'
  <2>1. Untorn(pack[p])
    BY <1>1, <1>4 DEF PackInv, ReadInv
  <2>2. QED
    BY <1>1, <1>3, <2>1 DEF Untorn, Figures
<1>5. \A f : Filing(f)' = Filing(f)
  BY <1>1 DEF Filing
<1>6. FilingInv'
  BY <1>1, <1>5 DEF PackInv, FilingInv, FilingAt, AuditTrailAnchored
<1>7. QED
  BY <1>2, <1>4, <1>6 DEF PackInv, ReadInv

\* A pack has no part in a merge.
LEMMA PackMerges == ASSUME NEW p \in Pack, PackStep(p) PROVE merge' = merge
<1>1. /\ Ask(p) => merge' = merge
      /\ ReadHoldings(p) => merge' = merge
      /\ ReadSupplies(p) => merge' = merge
      /\ ReadExposures(p) => merge' = merge
      /\ ReadProvenance(p) => merge' = merge
      /\ ReadExposed(p) => merge' = merge
      /\ ReadCovered(p) => merge' = merge
  <2>1. \A pc, next, field, rows : Reads(p, pc, next, field, rows) => merge' = merge
    BY Zenon DEF Reads
  <2>2. ReadProvenance(p) => merge' = merge
    BY <2>1 DEF ReadProvenance
  <2>3. QED
    BY <2>1, <2>2, Zenon DEF Ask, ReadHoldings, ReadSupplies, ReadExposures, ReadExposed, ReadCovered
<1>2. /\ Register(p) => merge' = merge
      /\ WriteNode(p) => merge' = merge
      /\ Link(p) => merge' = merge
      /\ Filed(p) => merge' = merge
      /\ Respond(p) => merge' = merge
      /\ Fail(p) => merge' = merge
  BY Zenon DEF Register, WriteNode, Link, Filed, Respond, Fail
<1>3. QED
  BY <1>1, <1>2 DEF PackStep

ReportInv == PackInv /\ MergeType

LEMMA ReportStepKeeps == ASSUME ReportInv, ReportNext PROVE ReportInv'
<1>1. CASE GraphStep
  <2>1. /\ GraphType' /\ MergeType'
        /\ \/ Becomes(graph')
           \/ UNCHANGED <<graph, registry, report, links, packs, pack, apart>>
    BY <1>1, StepGraph DEF ReportInv, PackInv
  <2>2. PackInv'
    BY <2>1, BecomesKeeps, PackUnchanged DEF ReportInv
  <2>3. QED
    BY <2>1, <2>2 DEF ReportInv
<1>2. ASSUME NEW p \in Pack, PackStep(p) PROVE ReportInv'
  <2>1. PackInv'
    BY <1>2, AskKeeps, ReadHoldingsKeeps, ReadSuppliesKeeps, ReadExposuresKeeps,
       ReadProvenanceKeeps, ReadExposedKeeps, ReadCoveredKeeps, RegisterKeeps, WriteNodeKeeps,
       LinkKeeps, FiledKeeps, RespondKeeps, FailKeeps DEF PackStep, ReportInv
  <2>2. MergeType'
    BY <1>2, PackMerges DEF ReportInv, MergeType
  <2>3. QED
    BY <2>1, <2>2 DEF ReportInv
<1>3. QED
  BY <1>1, <1>2 DEF ReportNext

LEMMA ReportUnchanged == ASSUME ReportInv, UNCHANGED reportVars PROVE ReportInv'
<1>1. UNCHANGED <<graph, registry, report, links, pack, apart>> /\ merge' = merge
  BY DEF reportVars
<1>2. QED
  BY <1>1, PackUnchanged DEF ReportInv, MergeType

\* An impact only reads what packs, ingests and analysts write.
LEMMA ImpactReads == ASSUME ImpactStep PROVE UNCHANGED reportVars
<1>1. (ReadHolders => UNCHANGED reportVars) /\ (ReadSections => UNCHANGED reportVars)
      /\ (ReadReports => UNCHANGED reportVars)
  BY Zenon DEF ReadHolders, ReadSections, ReadReports, Follow
<1>2. (Request => UNCHANGED reportVars) /\ (ReadDependents => UNCHANGED reportVars)
      /\ (ReadFunds => UNCHANGED reportVars) /\ (Brief => UNCHANGED reportVars)
  BY Zenon DEF Request, ReadDependents, ReadFunds, Brief
<1>3. (FlagSection => UNCHANGED reportVars) /\ (FlagReport => UNCHANGED reportVars)
      /\ (Answer => UNCHANGED reportVars) /\ (Broken => UNCHANGED reportVars)
  BY Zenon DEF FlagSection, FlagReport, Answer, Broken
<1>4. QED
  BY <1>1, <1>2, <1>3 DEF ImpactStep

\* The packs' invariant: what a request has read is what the graph says until
\* the graph changes, and a filing that no other touched has left in the
\* registry, on the node and among the links what it was to write.
THEOREM PackInvariant == Spec => []ReportInv
<1>1. Init => ReportInv
  <2>1. ReportInit => MergeType
    BY DEF ReportInit, MergeType
  <2>2. QED
    BY <2>1, PackInit DEF Init, ReportInv
<1>2. ReportInv /\ [Next]_vars => ReportInv'
  <2> SUFFICES ASSUME ReportInv, [Next]_vars PROVE ReportInv'
    OBVIOUS
  <2>1. CASE Beside
    BY <2>1, ReportStepKeeps DEF Beside
  <2>2. CASE ImpactStep
    BY <2>2, ImpactReads, ReportUnchanged
  <2>3. CASE UNCHANGED vars
    BY <2>3, ReportUnchanged DEF vars
  <2>4. QED
    BY <2>1, <2>2, <2>3 DEF Next
<1>3. QED
  BY <1>1, <1>2, PTL DEF Spec

\* The figures of a pack agree with each other unless the graph changed
\* while it was read: every slice, not only the runs' (coverage.py and
\* risk_lens.py, coverage).
THEOREM FiguresAgreeHolds == Spec => []FiguresAgree
<1>1. ReportInv => FiguresAgree
  <2> SUFFICES ASSUME ReportInv, NEW p \in Pack, pack[p].snapshot # None, ~pack[p].torn
               PROVE  Figures(pack[p])
    BY DEF FiguresAgree, Figures
  <2>1. QED
    BY DEF ReportInv, PackInv, ReadInv, Untorn
<1>2. QED
  BY <1>1, PackInvariant, PTL

\* A report that was filed alone is the one registered, and every document
\* behind it is linked (report_pack.py, write_report_node), whatever was cut,
\* overlapped or was registered again elsewhere.
THEOREM AuditTrailAnchoredHolds == Spec => []AuditTrailAnchored
<1>1. ReportInv => AuditTrailAnchored
  BY DEF ReportInv, PackInv, FilingInv
<1>2. QED
  BY <1>1, PackInvariant, PTL

\* The queries shown beside the concentration and the clusters reproduce them
\* on every graph with integer weights, over the edges whose criticality is
\* spelt as the ontology spells it (risk_lens.py, EXPLAIN_CYPHER).
THEOREM ExplainReproducesHolds == Spec => []ExplainReproduces
<1>1. ReportInv => ExplainReproduces
  <2> SUFFICES ASSUME ReportInv, NEW f \in Fund
               PROVE  LET sl == SliceOf(f)
                          scores == SupplierConcentration(AsSpelt(sl))
                          explained == ExplainedConcentration(sl)
                      IN  /\ DOMAIN scores \subseteq DOMAIN explained
                          /\ \A s \in DOMAIN explained :
                                explained[s] = IF s \in DOMAIN scores THEN scores[s] ELSE 0
                          /\ SharedSupplierClusters(AsSpelt(sl)) = ExplainedClusters(sl)
    BY DEF ExplainReproduces
  <2>1. SliceOf(f).holdings = graph.holds[f] /\ SliceOf(f).supplies = graph.supplies
    BY DEF SliceOf
  <2>2. /\ DOMAIN SliceOf(f) = {"holdings", "supplies", "exposures", "provenance"}
        /\ \A c \in DOMAIN SliceOf(f).holdings : SliceOf(f).holdings[c] \in Int
        /\ IsFiniteSet(SliceOf(f).supplies)
    BY <2>1 DEF ReportInv, PackInv, GraphType, SliceOf
  <2>3. QED
    BY <2>2, ExplainedIs
<1>2. QED
  BY <1>1, PackInvariant, PTL

-------------------------------------------------------------------------------
(* The reach of a change, as what following its differences finds *)

Items == {i \in Diff(V1, V2) : Triggered(i)}

\* What following a difference finds along holdings and supplies, ...
FundsBy(i, paths, scope) ==
    IF RuleOf(i) = "holders" THEN FundsHolding(paths, scope, {i.subject})
    ELSE IF RuleOf(i) = "dependents"
         THEN FundsHolding(paths, scope, Dependents1to(Hops, paths.supplies, i.subject))
    ELSE {}
SectionsBy(i, covers) == IF RuleOf(i) = "sections" THEN SectionsCovering(covers, i.object) ELSE {}
ReportsBy(i, derived) == IF RuleOf(i) = "reports" THEN ReportsDeriving(derived, i.doc) ELSE {}

\* ... which are among others.
PathsIn(a, b) ==
    (\A f \in Fund : a.holds[f] \subseteq b.holds[f]) /\ a.supplies \subseteq b.supplies

\* Funds hold companies.
HoldsCompanies(paths) == \A f \in Fund : paths.holds[f] \subseteq Company

ReachFields == {"funds", "sections", "reports"}
FlagFields == {"sections", "reports"}
ImpactFields == {"pc", "scope", "apply", "todo", "names", "found", "was"}
ImpactPc == {"idle", "next", "funds", "flagSections", "flagReports", "done"}

ImpactType(r) ==
    /\ DOMAIN r = ImpactFields /\ r.pc \in ImpactPc /\ r.scope \subseteq Fund
    /\ DOMAIN r.found = ReachFields /\ DOMAIN r.was = FlagFields

\* A difference that was followed has found all that it reaches by paths that
\* stayed, and what else was reached and is not found yet is to be followed ...
ToCome(r, paths, covers, derived) ==
    /\ r.todo \subseteq Items
    /\ \A i \in Items \ r.todo :
        \/ FundsBy(i, paths, r.scope) \subseteq r.found.funds
        \/ /\ r.pc = "funds" /\ RuleOf(i) = "dependents"
           /\ Dependents1to(Hops, paths.supplies, i.subject) \subseteq r.names
    /\ \A s \in r.was.sections :
        s \in r.found.sections \/ \E i \in r.todo : s \in SectionsBy(i, covers)
    /\ \A f \in r.was.reports :
        f \in r.found.reports \/ \E i \in r.todo : f \in ReportsBy(i, derived)

\* ... what is found is reached by paths that were there, and so are the
\* companies found in between ...
Founded(r, paths, covers, derived) ==
    /\ \A f \in r.found.funds : \E i \in Items : f \in FundsBy(i, paths, r.scope)
    /\ \A s \in r.found.sections : \E i \in Items : s \in SectionsBy(i, covers)
    /\ \A f \in r.found.reports : \E i \in Items : f \in ReportsBy(i, derived)
    /\ r.pc = "funds" => \E i \in Items : RuleOf(i) = "dependents"
                            /\ r.names \subseteq Dependents1to(Hops, paths.supplies, i.subject)

\* ... and, once all is followed, is flagged or about to be.
Flagging(r, paths, sections, reports) ==
    /\ r.pc \in {"flagSections", "flagReports", "done"} =>
        /\ Within(r.was, r.found)
        /\ \A i \in Items : FundsBy(i, paths, r.scope) \subseteq r.found.funds
    /\ r.pc = "flagSections" =>
        /\ r.names \subseteq r.found.sections /\ r.todo = r.found.reports
        /\ r.found.sections \subseteq sections \cup r.names
    /\ r.pc = "flagReports" =>
        /\ r.todo \subseteq r.found.reports /\ r.found.sections \subseteq sections
        /\ r.found.reports \subseteq reports \cup r.todo

Flagged(done, sections, reports, covers, derived) ==
    /\ DOMAIN done = FlagFields
    /\ done.sections \subseteq sections /\ done.reports \subseteq reports
    /\ \A s \in sections : \E i \in Items : s \in SectionsBy(i, covers)
    /\ \A f \in reports : \E i \in Items : f \in ReportsBy(i, derived)

\* The paths of the graph an impact reads are between those that stayed and
\* those that were there.
Between ==
    /\ HoldsCompanies(seen)
    /\ impact.pc # "idle" => PathsIn(stayed, Edges(graph)) /\ PathsIn(Edges(graph), seen)

ImpactInv ==
    /\ ImpactType(impact) /\ Between
    /\ impact.pc \in {"next", "funds"} => ToCome(impact, stayed, graph.covers, links)
    /\ impact.pc # "idle" => Founded(impact, seen, graph.covers, links)
    /\ Flagging(impact, stayed, stale, outOfDate)
    /\ Flagged(applied, stale, outOfDate, graph.covers, links)

\* The companies one edge before those of a set.
Before(edges, companies) == {e.src : e \in {x \in edges : x.dst \in companies}}

LEMMA DependentsAre ==
    ASSUME NEW edges, NEW c
    PROVE  LET one == {c} \cup Before(edges, {c})
           IN  Dependents1to(Hops, edges, c) = one \cup Before(edges, one)
<1> DEFINE one == {c} \cup Before(edges, {c})
           P(r) == r = [n \in 0 .. 2 |->
                IF n = 0 THEN {c}
                ELSE r[n - 1] \cup {e.src : e \in {x \in edges : x.dst \in r[n - 1]}}]
           reach == CHOOSE r : P(r)
<1>1. Dependents1to(Hops, edges, c) = reach[2]
  BY ImpactAssumption DEF Dependents1to
<1>2. PICK w : w = [n \in 0 .. 2 |-> IF n = 0 THEN {c} ELSE IF n = 1 THEN one
                                     ELSE one \cup Before(edges, one)]
  OBVIOUS
<1>3. w[0] = {c} /\ w[1] = one /\ w[2] = one \cup Before(edges, one)
  BY <1>2
<1>4. w = [n \in 0 .. 2 |-> IF n = 0 THEN {c} ELSE w[n - 1] \cup Before(edges, w[n - 1])]
  <2>1. one = {c} \cup Before(edges, {c})
    OBVIOUS
  <2> HIDE DEF one
  <2>2. w[0] = {c} /\ w[1] = w[0] \cup Before(edges, w[0]) /\ w[2] = w[1] \cup Before(edges, w[1])
    BY <1>3, <2>1
  <2>3. ASSUME NEW n \in 0 .. 2
        PROVE  w[n] = IF n = 0 THEN {c} ELSE w[n - 1] \cup Before(edges, w[n - 1])
    <3>1. CASE n = 0
      BY <2>2, <3>1
    <3>2. CASE n = 1
      BY <2>2, <3>2
    <3>3. CASE n = 2
      BY <2>2, <3>3
    <3>4. QED
      BY <3>1, <3>2, <3>3
  <2>4. QED
    BY <1>2, <2>3
<1>5. P(w)
  BY <1>4 DEF Before
<1> HIDE DEF P
<1>6. P(reach)
  BY <1>5
<1> HIDE DEF reach
<1>7. reach = [n \in 0 .. 2 |-> IF n = 0 THEN {c} ELSE reach[n - 1] \cup Before(edges, reach[n - 1])]
  BY <1>6 DEF P, Before
<1>8. reach[0] = {c} /\ reach[1] = {c} \cup Before(edges, {c}) /\ reach[2] = reach[1] \cup Before(edges, reach[1])
  <2>1. \A n \in 0 .. 2 : reach[n] = IF n = 0 THEN {c} ELSE reach[n - 1] \cup Before(edges, reach[n - 1])
    BY <1>7
  <2>2. reach[0] = {c}
    BY <2>1
  <2>3. reach[1] = reach[0] \cup Before(edges, reach[0]) /\ reach[2] = reach[1] \cup Before(edges, reach[1])
    BY <2>1
  <2>4. QED
    BY <2>2, <2>3
<1>9. QED
  BY <1>1, <1>8

\* Followed backwards by the rule, forwards by what the rule's words ask for.
LEMMA DependentsWithinTwo ==
    ASSUME NEW edges, NEW c, NEW x
    PROVE  x \in Dependents1to(Hops, edges, c) <=> x = c \/ c \in WithinTwo(edges, x)
<1> DEFINE one == {c} \cup Before(edges, {c})
<1>1. x \in Dependents1to(Hops, edges, c) <=> x \in one \/ x \in Before(edges, one)
  BY DependentsAre
<1>2. \A y, s : y \in Before(edges, s) <=> \E e \in edges : e.src = y /\ e.dst \in s
  BY DEF Before
<1>3. \A y, z : z \in Suppliers(edges, y) <=> \E e \in edges : e.src = y /\ e.dst = z
  BY DEF Suppliers
<1>4. c \in WithinTwo(edges, x) <=>
        c \in Suppliers(edges, x) \/ \E d \in Suppliers(edges, x) : c \in Suppliers(edges, d)
  BY DEF WithinTwo
<1>5. \A y : y \in Before(edges, {c}) <=> c \in Suppliers(edges, y)
  BY <1>2, <1>3
<1>6. x \in Before(edges, one) <=> x \in Before(edges, {c}) \/ \E d \in Suppliers(edges, x) : d \in Before(edges, {c})
  BY <1>2, <1>3
<1> HIDE DEF one
<1>7. QED
  BY <1>1, <1>4, <1>5, <1>6 DEF one

LEMMA PolicyIs ==
    /\ \A i : Triggered(i) <=>
            \/ i.type \in {"Company", "SUPPLIES_TO"} /\ i.change \in {"added", "removed", "changed"}
            \/ i.type \in {"EXPOSED_TO", "MetricObservation"} /\ i.change \in {"added", "changed"}
    /\ \A i : i.type = "Company" => RuleOf(i) = "holders"
    /\ \A i : i.type = "SUPPLIES_TO" => RuleOf(i) = "dependents"
    /\ \A i : i.type = "EXPOSED_TO" => RuleOf(i) = "sections"
    /\ \A i : i.type = "MetricObservation" => RuleOf(i) = "reports"
<1>1. DOMAIN Policy = {"Company", "SUPPLIES_TO", "EXPOSED_TO", "MetricObservation"}
  BY DEF Policy
<1>2. /\ Policy["Company"].changes = {"added", "removed", "changed"}
      /\ Policy["SUPPLIES_TO"].changes = {"added", "removed", "changed"}
      /\ Policy["EXPOSED_TO"].changes = {"added", "changed"}
      /\ Policy["MetricObservation"].changes = {"added", "changed"}
  BY DEF Policy
<1>3. /\ Policy["Company"].rule = "holders" /\ Policy["SUPPLIES_TO"].rule = "dependents"
      /\ Policy["EXPOSED_TO"].rule = "sections" /\ Policy["MetricObservation"].rule = "reports"
  BY DEF Policy
<1>4. QED
  BY <1>1, <1>2, <1>3 DEF Triggered, RuleOf

LEMMA ItemIs ==
    \A x, change :
        LET i == Item(x, change)
        IN  /\ i.change = change /\ i.type = x.type /\ i.subject = x.subject
            /\ i.object = x.object /\ i.doc = x.doc
            /\ Identity(x)[1] = i.type /\ Identity(x)[2] = i.subject /\ Identity(x)[3] = i.object
  BY DEF Item, Identity

\* A fact of the new version changed if it was added or has another value, for
\* its identity says which fact it was.
LEMMA ChangedIs ==
    ASSUME NEW x \in V2
    PROVE  Identity(x) \in ChangedFacts
                <=> \/ \A o \in V1 : Identity(o) # Identity(x)
                    \/ \E o \in V1 : Identity(o) = Identity(x) /\ o.value # x.value
<1>1. ASSUME Identity(x) \in ChangedFacts
      PROVE  \A o \in V1 : Identity(o) = Identity(x) => o.value # x.value
  BY <1>1 DEF ChangedFacts
<1>2. ASSUME \/ \A o \in V1 : Identity(o) # Identity(x)
             \/ \E o \in V1 : Identity(o) = Identity(x) /\ o.value # x.value
      PROVE  Identity(x) \in ChangedFacts
  <2>1. ASSUME NEW o \in V1, NEW n \in V2, Identity(o) = Identity(x), Identity(n) = Identity(x)
        PROVE  o.value # n.value
    <3>1. n = x
      BY <2>1, ImpactAssumption
    <3>2. PICK p \in V1 : Identity(p) = Identity(x) /\ p.value # x.value
      BY <1>2, <2>1
    <3>3. o = p
      BY <2>1, <3>2, ImpactAssumption
    <3>4. QED
      BY <3>1, <3>2, <3>3
  <2>2. QED
    BY <2>1 DEF ChangedFacts
<1>3. QED
  BY <1>1, <1>2

LEMMA DiffIs ==
    /\ \A i \in Diff(V1, V2) :
        \/ i.change = "removed" /\ \E x \in V1 : i = Item(x, "removed") /\ Identity(x) \in ChangedFacts
        \/ i.change \in {"added", "changed"} /\ \E x \in V2 : i = Item(x, i.change)
                                                              /\ Identity(x) \in ChangedFacts
    /\ \A fact \in ChangedFacts :
        \/ \E x \in V2 : Identity(x) = fact /\ \E change \in {"added", "changed"} :
                            Item(x, change) \in Diff(V1, V2)
        \/ ~StillThere(fact) /\ \E x \in V1 : Identity(x) = fact /\ Item(x, "removed") \in Diff(V1, V2)
<1>1. ASSUME NEW i \in Diff(V1, V2)
      PROVE  \/ i.change = "removed" /\ \E x \in V1 : i = Item(x, "removed") /\ Identity(x) \in ChangedFacts
             \/ i.change \in {"added", "changed"} /\ \E x \in V2 : i = Item(x, i.change)
                                                              /\ Identity(x) \in ChangedFacts
  <2>1. \/ \E x \in V2 : i = Item(x, "added") /\ \A o \in V1 : Identity(o) # Identity(x)
        \/ \E x \in V2 : /\ i = Item(x, "changed")
                         /\ \E o \in V1 : Identity(o) = Identity(x) /\ o.value # x.value
        \/ \E x \in V1 : i = Item(x, "removed") /\ \A n \in V2 : Identity(n) # Identity(x)
    BY DEF Diff
  <2>2. ASSUME NEW x \in V2, NEW change \in {"added", "changed"}, i = Item(x, change),
               \/ \A o \in V1 : Identity(o) # Identity(x)
               \/ \E o \in V1 : Identity(o) = Identity(x) /\ o.value # x.value
        PROVE  i.change = change /\ Identity(x) \in ChangedFacts
    BY <2>2, ItemIs, ChangedIs
  <2>3. ASSUME NEW x \in V1, i = Item(x, "removed"), \A n \in V2 : Identity(n) # Identity(x)
        PROVE  i.change = "removed" /\ Identity(x) \in ChangedFacts
    BY <2>3, ItemIs DEF ChangedFacts
  <2>4. QED
    BY <2>1, <2>2, <2>3
<1>2. ASSUME NEW fact \in ChangedFacts
      PROVE  \/ \E x \in V2 : Identity(x) = fact /\ \E change \in {"added", "changed"} :
                            Item(x, change) \in Diff(V1, V2)
             \/ ~StillThere(fact) /\ \E x \in V1 : Identity(x) = fact /\ Item(x, "removed") \in Diff(V1, V2)
  <2>1. PICK x \in V1 \cup V2 : Identity(x) = fact
    BY DEF ChangedFacts
  <2>2. CASE StillThere(fact)
    <3>1. PICK y \in V2 : Identity(y) = fact
      BY <2>2 DEF StillThere
    <3>2. \/ Item(y, "added") \in Diff(V1, V2)
          \/ Item(y, "changed") \in Diff(V1, V2)
      BY <3>1, ChangedIs DEF Diff
    <3>3. QED
      BY <3>1, <3>2
  <2>3. CASE ~StillThere(fact)
    <3>1. x \in V1 /\ \A n \in V2 : Identity(n) # Identity(x)
      BY <2>1, <2>3 DEF StillThere
    <3>2. Item(x, "removed") \in Diff(V1, V2)
      BY <3>1 DEF Diff
    <3>3. QED
      BY <2>1, <2>3, <3>1, <3>2
  <2>4. QED
    BY <2>2, <2>3
<1>3. QED
  BY <1>1, <1>2

\* What the code follows, and what the rules' words ask for.
LEMMA ItemsAre ==
    /\ \A i \in Items :
        /\ \E fact \in ChangedFacts :
            /\ fact[1] = i.type /\ fact[2] = i.subject /\ fact[3] = i.object
            /\ i.type = "EXPOSED_TO" => StillThere(fact)
        /\ i.type \in {"Company", "SUPPLIES_TO", "EXPOSED_TO", "MetricObservation"}
        /\ i.type = "MetricObservation" =>
                \E n \in V2 : n.type = "MetricObservation" /\ Identity(n) \in ChangedFacts /\ n.doc = i.doc
    /\ \A fact \in ChangedFacts :
        /\ fact[1] \in {"Company", "SUPPLIES_TO"} =>
                \E i \in Items : i.type = fact[1] /\ i.subject = fact[2]
        /\ fact[1] = "EXPOSED_TO" /\ StillThere(fact) =>
                \E i \in Items : i.type = "EXPOSED_TO" /\ i.object = fact[3]
    /\ \A n \in V2 : n.type = "MetricObservation" /\ Identity(n) \in ChangedFacts =>
            \E i \in Items : i.type = "MetricObservation" /\ i.doc = n.doc
<1>1. ASSUME NEW i \in Items
      PROVE  /\ \E fact \in ChangedFacts :
                    /\ fact[1] = i.type /\ fact[2] = i.subject /\ fact[3] = i.object
                    /\ i.type = "EXPOSED_TO" => StillThere(fact)
             /\ i.type \in {"Company", "SUPPLIES_TO", "EXPOSED_TO", "MetricObservation"}
             /\ i.type = "MetricObservation" =>
                    \E n \in V2 : n.type = "MetricObservation" /\ Identity(n) \in ChangedFacts /\ n.doc = i.doc
  <2>1. i \in Diff(V1, V2) /\ Triggered(i)
    BY DEF Items
  <2>2. i.type \in {"Company", "SUPPLIES_TO", "EXPOSED_TO", "MetricObservation"}
        /\ (i.type \in {"EXPOSED_TO", "MetricObservation"} => i.change \in {"added", "changed"})
    BY <2>1, PolicyIs
  <2>3. CASE i.change = "removed"
    <3>1. PICK x \in V1 : i = Item(x, "removed") /\ Identity(x) \in ChangedFacts
      BY <2>1, <2>3, DiffIs
    <3>2. Identity(x)[1] = i.type /\ Identity(x)[2] = i.subject /\ Identity(x)[3] = i.object
      BY <3>1, ItemIs
    <3>3. i.type \notin {"EXPOSED_TO", "MetricObservation"}
      BY <2>2, <2>3
    <3>4. QED
      BY <2>2, <3>1, <3>2, <3>3
  <2>4. CASE i.change # "removed"
    <3>1. PICK x \in V2 : i = Item(x, i.change) /\ Identity(x) \in ChangedFacts
      BY <2>1, <2>4, DiffIs
    <3>2. /\ Identity(x)[1] = i.type /\ Identity(x)[2] = i.subject /\ Identity(x)[3] = i.object
          /\ i.type = x.type /\ i.doc = x.doc
      BY <3>1, ItemIs
    <3>3. StillThere(Identity(x))
      BY DEF StillThere
    <3>4. QED
      BY <2>2, <3>1, <3>2, <3>3
  <2>5. QED
    BY <2>3, <2>4
<1>2. ASSUME NEW x \in V2, NEW change \in {"added", "changed"}, Item(x, change) \in Diff(V1, V2),
             x.type \in {"Company", "SUPPLIES_TO", "EXPOSED_TO", "MetricObservation"}
      PROVE  Item(x, change) \in Items
  <2>1. Item(x, change).type = x.type /\ Item(x, change).change = change
    BY ItemIs
  <2>2. Triggered(Item(x, change))
    BY <1>2, <2>1, PolicyIs
  <2>3. QED
    BY <1>2, <2>2 DEF Items
<1>3. ASSUME NEW x \in V1, Item(x, "removed") \in Diff(V1, V2), x.type \in {"Company", "SUPPLIES_TO"}
      PROVE  Item(x, "removed") \in Items
  <2>1. Item(x, "removed").type = x.type /\ Item(x, "removed").change = "removed"
    BY ItemIs
  <2>2. Triggered(Item(x, "removed"))
    BY <1>3, <2>1, PolicyIs
  <2>3. QED
    BY <1>3, <2>2 DEF Items
<1>4. \A x : Identity(x)[1] = x.type /\ Identity(x)[2] = x.subject /\ Identity(x)[3] = x.object
  BY DEF Identity
<1>5. ASSUME NEW fact \in ChangedFacts
      PROVE  /\ fact[1] \in {"Company", "SUPPLIES_TO"} =>
                    \E i \in Items : i.type = fact[1] /\ i.subject = fact[2]
             /\ fact[1] = "EXPOSED_TO" /\ StillThere(fact) =>
                    \E i \in Items : i.type = "EXPOSED_TO" /\ i.object = fact[3]
  <2>1. CASE \E x \in V2 : Identity(x) = fact /\ \E change \in {"added", "changed"} :
                            Item(x, change) \in Diff(V1, V2)
    <3>1. PICK x \in V2 : Identity(x) = fact /\ \E change \in {"added", "changed"} :
                            Item(x, change) \in Diff(V1, V2)
      BY <2>1
    <3>2. PICK change \in {"added", "changed"} : Item(x, change) \in Diff(V1, V2)
      BY <3>1
    <3>3. fact[1] = x.type /\ fact[2] = x.subject /\ fact[3] = x.object
      BY <1>4, <3>1
    <3>4. QED
      BY <1>2, <3>2, <3>3, ItemIs
  <2>2. CASE ~StillThere(fact) /\ \E x \in V1 : Identity(x) = fact /\ Item(x, "removed") \in Diff(V1, V2)
    <3>1. PICK x \in V1 : Identity(x) = fact /\ Item(x, "removed") \in Diff(V1, V2)
      BY <2>2
    <3>2. fact[1] = x.type /\ fact[2] = x.subject
      BY <1>4, <3>1
    <3>3. QED
      BY <1>3, <2>2, <3>1, <3>2, ItemIs
  <2>3. QED
    BY <2>1, <2>2, DiffIs
<1>6. ASSUME NEW n \in V2, n.type = "MetricObservation", Identity(n) \in ChangedFacts
      PROVE  \E i \in Items : i.type = "MetricObservation" /\ i.doc = n.doc
  <2>1. Item(n, "added") \in Diff(V1, V2) \/ Item(n, "changed") \in Diff(V1, V2)
    BY <1>6, ChangedIs DEF Diff
  <2>2. PICK change \in {"added", "changed"} : Item(n, change) \in Diff(V1, V2)
    BY <2>1
  <2>3. QED
    BY <1>2, <1>6, <2>2, ItemIs
<1>7. QED
  BY <1>1, <1>5, <1>6

LEMMA FundsFollowed ==
    ASSUME NEW g, HoldsCompanies(g), NEW scope, scope \subseteq Fund
    PROVE  \A f : f \in FundsReached(g, scope) <=> \E i \in Items : f \in FundsBy(i, g, scope)
<1>1. \A f : f \in FundsReached(g, scope) <=>
        f \in scope /\ \E fact \in ChangedFacts : \E c \in g.holds[f] : c \in Touched(g, fact)
  BY DEF FundsReached
<1>2. \A f, names : f \in FundsHolding(g, scope, names) <=>
        f \in scope /\ \E c \in g.holds[f] : c \in names
  BY DEF FundsHolding
<1>3. ASSUME NEW i \in Items, NEW f, f \in FundsBy(i, g, scope)
      PROVE  f \in FundsReached(g, scope)
  <2>1. PICK fact \in ChangedFacts : fact[1] = i.type /\ fact[2] = i.subject
    BY ItemsAre
  <2>2. CASE i.type = "Company"
    <3>1. f \in FundsHolding(g, scope, {i.subject})
      BY <1>3, <2>2, PolicyIs DEF FundsBy
    <3>2. Touched(g, fact) = {i.subject}
      BY <2>1, <2>2 DEF Touched
    <3>3. QED
      BY <1>1, <1>2, <2>1, <3>1, <3>2
  <2>3. CASE i.type = "SUPPLIES_TO"
    <3>1. f \in FundsHolding(g, scope, Dependents1to(Hops, g.supplies, i.subject))
      BY <1>3, <2>3, PolicyIs DEF FundsBy
    <3>2. PICK c \in g.holds[f] : f \in scope /\ c \in Dependents1to(Hops, g.supplies, i.subject)
      BY <1>2, <3>1
    <3>3. c = i.subject \/ i.subject \in WithinTwo(g.supplies, c)
      BY <3>2, DependentsWithinTwo
    <3>4. c \in Company
      BY <3>2 DEF HoldsCompanies
    <3>5. Touched(g, fact) = {i.subject} \cup {x \in Company : i.subject \in WithinTwo(g.supplies, x)}
      BY <2>1, <2>3 DEF Touched
    <3>6. QED
      BY <1>1, <2>1, <3>2, <3>3, <3>4, <3>5
  <2>4. CASE i.type \in {"EXPOSED_TO", "MetricObservation"}
    BY <1>3, <2>4, PolicyIs DEF FundsBy
  <2>5. QED
    BY <2>2, <2>3, <2>4, ItemsAre
<1>4. ASSUME NEW f, f \in FundsReached(g, scope)
      PROVE  \E i \in Items : f \in FundsBy(i, g, scope)
  <2>1. PICK fact \in ChangedFacts : f \in scope /\ \E c \in g.holds[f] : c \in Touched(g, fact)
    BY <1>1, <1>4
  <2>2. PICK c \in g.holds[f] : c \in Touched(g, fact)
    BY <2>1
  <2>3. CASE fact[1] = "Company"
    <3>1. c = fact[2]
      BY <2>2, <2>3 DEF Touched
    <3>2. PICK i \in Items : i.type = "Company" /\ i.subject = c
      BY <2>3, <3>1, ItemsAre
    <3>3. f \in FundsHolding(g, scope, {i.subject})
      BY <1>2, <2>1, <3>2
    <3>4. f \in FundsBy(i, g, scope)
      BY <3>2, <3>3, PolicyIs DEF FundsBy
    <3>5. QED
      BY <3>4
  <2>4. CASE fact[1] = "SUPPLIES_TO"
    <3>1. c = fact[2] \/ fact[2] \in WithinTwo(g.supplies, c)
      BY <2>2, <2>4 DEF Touched
    <3>2. PICK i \in Items : i.type = "SUPPLIES_TO" /\ i.subject = fact[2]
      BY <2>4, ItemsAre
    <3>3. c \in Dependents1to(Hops, g.supplies, i.subject)
      BY <3>1, <3>2, DependentsWithinTwo
    <3>4. f \in FundsHolding(g, scope, Dependents1to(Hops, g.supplies, i.subject))
      BY <1>2, <2>1, <3>3
    <3>5. f \in FundsBy(i, g, scope)
      BY <3>2, <3>4, PolicyIs DEF FundsBy
    <3>6. QED
      BY <3>5
  <2>5. CASE fact[1] \notin {"Company", "SUPPLIES_TO"}
    BY <2>2, <2>5 DEF Touched
  <2>6. QED
    BY <2>3, <2>4, <2>5
<1>5. QED
  BY <1>3, <1>4

LEMMA SectionsFollowed ==
    ASSUME NEW covers, NEW derived
    PROVE  \A s : s \in FlagsReached(covers, derived).sections <=> \E i \in Items : s \in SectionsBy(i, covers)
<1>1. \A s : s \in FlagsReached(covers, derived).sections <=>
        \E x \in covers : s = x[1] /\ \E fact \in ChangedFacts :
            fact[1] = "EXPOSED_TO" /\ StillThere(fact) /\ x[3] = fact[3]
  BY DEF FlagsReached
<1>2. \A s, risk : s \in SectionsCovering(covers, risk) <=> \E x \in covers : s = x[1] /\ x[3] = risk
  BY DEF SectionsCovering
<1>3. ASSUME NEW i \in Items, NEW s, s \in SectionsBy(i, covers)
      PROVE  s \in FlagsReached(covers, derived).sections
  <2>1. i.type = "EXPOSED_TO" /\ s \in SectionsCovering(covers, i.object)
    BY <1>3, PolicyIs, ItemsAre DEF SectionsBy
  <2>2. PICK fact \in ChangedFacts : fact[1] = "EXPOSED_TO" /\ StillThere(fact) /\ fact[3] = i.object
    BY <2>1, ItemsAre
  <2>3. QED
    BY <1>1, <1>2, <2>1, <2>2
<1>4. ASSUME NEW s, s \in FlagsReached(covers, derived).sections
      PROVE  \E i \in Items : s \in SectionsBy(i, covers)
  <2>1. PICK x \in covers : s = x[1] /\ \E fact \in ChangedFacts :
            fact[1] = "EXPOSED_TO" /\ StillThere(fact) /\ x[3] = fact[3]
    BY <1>1, <1>4
  <2>2. PICK i \in Items : i.type = "EXPOSED_TO" /\ i.object = x[3]
    BY <2>1, ItemsAre
  <2>3. s \in SectionsBy(i, covers)
    BY <1>2, <2>1, <2>2, PolicyIs DEF SectionsBy
  <2>4. QED
    BY <2>3
<1>5. QED
  BY <1>3, <1>4

LEMMA ReportsFollowed ==
    ASSUME NEW covers, NEW derived
    PROVE  \A f : f \in FlagsReached(covers, derived).reports <=> \E i \in Items : f \in ReportsBy(i, derived)
<1>1. \A f : f \in FlagsReached(covers, derived).reports <=>
        \E x \in derived : f = x[1] /\ \E n \in V2 :
            n.type = "MetricObservation" /\ Identity(n) \in ChangedFacts /\ x[2] = n.doc
  BY DEF FlagsReached
<1>2. \A f, doc : f \in ReportsDeriving(derived, doc) <=> \E x \in derived : f = x[1] /\ x[2] = doc
  BY DEF ReportsDeriving
<1>3. ASSUME NEW i \in Items, NEW f, f \in ReportsBy(i, derived)
      PROVE  f \in FlagsReached(covers, derived).reports
  <2>1. i.type = "MetricObservation" /\ f \in ReportsDeriving(derived, i.doc)
    BY <1>3, PolicyIs, ItemsAre DEF ReportsBy
  <2>2. PICK n \in V2 : n.type = "MetricObservation" /\ Identity(n) \in ChangedFacts /\ n.doc = i.doc
    BY <2>1, ItemsAre
  <2>3. QED
    BY <1>1, <1>2, <2>1, <2>2
<1>4. ASSUME NEW f, f \in FlagsReached(covers, derived).reports
      PROVE  \E i \in Items : f \in ReportsBy(i, derived)
  <2>1. PICK x \in derived : f = x[1] /\ \E n \in V2 :
            n.type = "MetricObservation" /\ Identity(n) \in ChangedFacts /\ x[2] = n.doc
    BY <1>1, <1>4
  <2>2. PICK i \in Items : i.type = "MetricObservation" /\ i.doc = x[2]
    BY <2>1, ItemsAre
  <2>3. f \in ReportsBy(i, derived)
    BY <1>2, <2>1, <2>2, PolicyIs DEF ReportsBy
  <2>4. QED
    BY <2>3
<1>5. QED
  BY <1>3, <1>4

\* More paths, more covers and more links find more.
LEMMA FundsGrow ==
    ASSUME NEW g, NEW h, PathsIn(g, h), NEW scope, scope \subseteq Fund
    PROVE  /\ \A c : Dependents1to(Hops, g.supplies, c) \subseteq Dependents1to(Hops, h.supplies, c)
           /\ \A names : FundsHolding(g, scope, names) \subseteq FundsHolding(h, scope, names)
           /\ \A i : FundsBy(i, g, scope) \subseteq FundsBy(i, h, scope)
<1>1. \A s, t : s \subseteq t => Before(g.supplies, s) \subseteq Before(h.supplies, t)
  BY DEF PathsIn, Before
<1>2. ASSUME NEW c
      PROVE  Dependents1to(Hops, g.supplies, c) \subseteq Dependents1to(Hops, h.supplies, c)
  <2> DEFINE one == {c} \cup Before(g.supplies, {c})
             more == {c} \cup Before(h.supplies, {c})
  <2>1. one \subseteq more
    BY <1>1
  <2>2. /\ Dependents1to(Hops, g.supplies, c) = one \cup Before(g.supplies, one)
        /\ Dependents1to(Hops, h.supplies, c) = more \cup Before(h.supplies, more)
    BY DependentsAre
  <2> HIDE DEF one, more
  <2>3. QED
    BY <1>1, <2>1, <2>2
<1>3. ASSUME NEW s, NEW t, s \subseteq t
      PROVE  FundsHolding(g, scope, s) \subseteq FundsHolding(h, scope, t)
  BY <1>3 DEF FundsHolding, PathsIn
<1>4. ASSUME NEW i PROVE FundsBy(i, g, scope) \subseteq FundsBy(i, h, scope)
  BY <1>2, <1>3 DEF FundsBy
<1>5. QED
  BY <1>2, <1>3, <1>4

LEMMA FlagsGrow ==
    ASSUME NEW c, NEW k, c \subseteq k, NEW d, NEW e, d \subseteq e
    PROVE  /\ \A i : SectionsBy(i, c) \subseteq SectionsBy(i, k)
           /\ \A i : ReportsBy(i, d) \subseteq ReportsBy(i, e)
<1>1. ASSUME NEW i PROVE SectionsBy(i, c) \subseteq SectionsBy(i, k)
  BY DEF SectionsBy, SectionsCovering
<1>2. ASSUME NEW i PROVE ReportsBy(i, d) \subseteq ReportsBy(i, e)
  BY DEF ReportsBy, ReportsDeriving
<1>3. QED
  BY <1>1, <1>2

\* The queries follow edges whatever their properties.
LEMMA EdgesFollowed ==
    ASSUME NEW g, NEW c
    PROVE  Dependents1to(Hops, g.supplies, c) = Dependents1to(Hops, Edges(g).supplies, c)
<1>1. Edges(g).supplies = {[src |-> e.src, dst |-> e.dst] : e \in g.supplies}
  BY DEF Edges
<1>2. ASSUME NEW s PROVE Before(g.supplies, s) = Before(Edges(g).supplies, s)
  <2>1. \A x : x \in Before(g.supplies, s) <=> \E e \in g.supplies : e.dst \in s /\ x = e.src
    BY DEF Before
  <2>2. \A x : x \in Before(Edges(g).supplies, s) <=>
            \E e \in Edges(g).supplies : e.dst \in s /\ x = e.src
    BY DEF Before
  <2>3. ASSUME NEW x
        PROVE  (\E e \in Edges(g).supplies : e.dst \in s /\ x = e.src)
                    <=> (\E e \in g.supplies : e.dst \in s /\ x = e.src)
    <3>1. ASSUME NEW e \in Edges(g).supplies, e.dst \in s, x = e.src
          PROVE  \E d \in g.supplies : d.dst \in s /\ x = d.src
      <4>1. PICK d \in g.supplies : e = [src |-> d.src, dst |-> d.dst]
        BY <1>1, <3>1
      <4>2. e.src = d.src /\ e.dst = d.dst
        BY <4>1
      <4>3. QED
        BY <3>1, <4>2
    <3>2. ASSUME NEW d \in g.supplies, d.dst \in s, x = d.src
          PROVE  \E e \in Edges(g).supplies : e.dst \in s /\ x = e.src
      <4>1. PICK e : e = [src |-> d.src, dst |-> d.dst]
        OBVIOUS
      <4>2. e \in Edges(g).supplies
        BY <1>1, <4>1
      <4>3. e.src = d.src /\ e.dst = d.dst
        BY <4>1
      <4>4. QED
        BY <3>2, <4>2, <4>3
    <3>3. QED
      BY <3>1, <3>2
  <2>4. QED
    BY <2>1, <2>2, <2>3
<1> DEFINE one == {c} \cup Before(g.supplies, {c})
           two == {c} \cup Before(Edges(g).supplies, {c})
<1>3. /\ Dependents1to(Hops, g.supplies, c) = one \cup Before(g.supplies, one)
      /\ Dependents1to(Hops, Edges(g).supplies, c) = two \cup Before(Edges(g).supplies, two)
  BY DependentsAre
<1>4. one = two
  BY <1>2
<1> HIDE DEF one, two
<1>5. QED
  BY <1>2, <1>3, <1>4

\* No section's node loses what it covers, and no report a link.
LEMMA StepCovers == ASSUME GraphType, GraphStep PROVE graph.covers \subseteq graph'.covers /\ links' = links
<1>1. DOMAIN graph = Fields
  BY DEF GraphType
<1>2. \A g : Becomes(g) => graph' = g /\ links' = links
  BY DEF Becomes
<1>3. CASE Commit
  <2>1. PICK n \in News :
            Becomes(IF n[1] = "holds"
                    THEN [graph EXCEPT !.holds[n[2].fund] = Holding(@, n[2].company, n[2].weight)]
                    ELSE [graph EXCEPT ![n[1]] = Merged(n[1], @, {n[2]})])
    BY <1>3 DEF Commit
  <2>2. CASE n[1] = "holds"
    <3>1. PICK h : graph' = [graph EXCEPT !.holds = h]
      BY <1>2, <2>1, <2>2
    <3>2. QED
      BY <1>1, <1>2, <2>1, <3>1 DEF Fields
  <2>3. CASE n[1] = "covers"
    <3>1. PICK rows : rows = Merged("covers", graph.covers, {n[2]})
      OBVIOUS
    <3>2. graph' = [graph EXCEPT !["covers"] = rows] /\ links' = links
      BY <1>2, <2>1, <2>3, <3>1
    <3>3. graph.covers \subseteq rows
      BY <3>1 DEF Merged, SamePair
    <3>4. QED
      BY <1>1, <3>2, <3>3 DEF Fields
  <2>4. CASE n[1] \notin {"holds", "covers"}
    <3>1. PICK rows : rows = Merged(n[1], graph[n[1]], {n[2]})
      OBVIOUS
    <3>2. graph' = [graph EXCEPT ![n[1]] = rows] /\ links' = links
      BY <1>2, <2>1, <2>4, <3>1
    <3>3. QED
      BY <1>1, <2>4, <3>2 DEF Fields
  <2>5. QED
    BY <2>2, <2>3, <2>4
<1>4. ASSUME NEW funds, NEW companies, Becomes(Without(graph, funds, companies))
      PROVE  graph'.covers = graph.covers /\ links' = links
  <2>1. Without(graph, funds, companies).covers = graph.covers
    BY <1>1 DEF Without, Fields
  <2>2. QED
    BY <1>2, <1>4, <2>1
<1>5. CASE DeleteFirm
  BY <1>4, <1>5 DEF DeleteFirm
<1>6. CASE DropDuplicate
  BY <1>4, <1>6 DEF DropDuplicate
<1>7. CASE Move
  <2>1. PICK type \in merge.todo : Becomes(Repointed(graph, type, merge.dup, merge.canonical))
    BY <1>7 DEF Move
  <2>2. Repointed(graph, type, merge.dup, merge.canonical).covers = graph.covers
    <3> DEFINE r == Repointed(graph, type, merge.dup, merge.canonical)
    <3>1. CASE type \in {"out", "in"}
      <4>1. PICK edges : r = [graph EXCEPT !.supplies = edges]
        <5>1. CASE type = "out"
          <6>1. r = [graph EXCEPT !.supplies =
                        Merged("supplies", @ \ {e \in graph.supplies : e.src = merge.dup /\ e.dst # merge.canonical},
                               {[e EXCEPT !.src = merge.canonical] :
                                    e \in {e \in graph.supplies : e.src = merge.dup /\ e.dst # merge.canonical}})]
            BY <5>1 DEF Repointed
          <6>2. QED
            BY <6>1, Zenon
        <5>2. CASE type = "in"
          <6>1. r = [graph EXCEPT !.supplies =
                        Merged("supplies", @ \ {e \in graph.supplies : e.dst = merge.dup /\ e.src # merge.canonical},
                               {[e EXCEPT !.dst = merge.canonical] :
                                    e \in {e \in graph.supplies : e.dst = merge.dup /\ e.src # merge.canonical}})]
            BY <5>2 DEF Repointed
          <6>2. QED
            BY <6>1, Zenon
        <5>3. QED
          BY <3>1, <5>1, <5>2
      <4> HIDE DEF r
      <4>2. r.covers = graph.covers
        BY <1>1, <4>1 DEF Fields
      <4>3. QED
        BY <4>2 DEF r
    <3>2. CASE type \notin {"out", "in"}
      BY <1>1, <3>2 DEF Repointed, Fields
    <3>3. QED
      BY <3>1, <3>2
  <2>3. QED
    BY <1>2, <2>1, <2>2
<1>8. CASE Discover
  BY <1>8, Zenon DEF Discover
<1>9. CASE MergeFails
  BY <1>9 DEF MergeFails
<1>10. QED
  BY <1>3, <1>5, <1>6, <1>7, <1>8, <1>9 DEF GraphStep

LEMMA ReportGrows == ASSUME PackInv, ReportNext PROVE graph.covers \subseteq graph'.covers /\ links \subseteq links'
<1>1. CASE GraphStep
  BY <1>1, StepCovers DEF PackInv
<1>2. ASSUME NEW p \in Pack, PackStep(p) PROVE graph' = graph /\ links \subseteq links'
  <2>1. CASE Link(p)
    BY <2>1 DEF Link
  <2>2. CASE Ask(p) \/ ReadExposed(p) \/ ReadCovered(p) \/ Register(p) \/ WriteNode(p)
    <3>1. (Ask(p) => UNCHANGED <<graph, links>>) /\ (ReadExposed(p) => UNCHANGED <<graph, links>>)
      BY Zenon DEF Ask, ReadExposed
    <3>2. (ReadCovered(p) => UNCHANGED <<graph, links>>) /\ (Register(p) => UNCHANGED <<graph, links>>)
      BY Zenon DEF ReadCovered, Register
    <3>3. WriteNode(p) => UNCHANGED <<graph, links>>
      BY Zenon DEF WriteNode
    <3>4. QED
      BY <2>2, <3>1, <3>2, <3>3
  <2>3. CASE ReadHoldings(p) \/ ReadSupplies(p) \/ ReadExposures(p) \/ ReadProvenance(p)
    BY <2>3 DEF ReadHoldings, ReadSupplies, ReadExposures, ReadProvenance, Reads
  <2>4. CASE Filed(p) \/ Respond(p) \/ Fail(p)
    BY <2>4 DEF Filed, Respond, Fail
  <2>5. QED
    BY <1>2, <2>1, <2>2, <2>3, <2>4 DEF PackStep
<1>3. QED
  BY <1>1, <1>2 DEF ReportNext

\* What impacts rely on stays while the graph changes.
LEMMA ImpactStands ==
    ASSUME ImpactInv, UNCHANGED <<stale, outOfDate, impact, applied>>,
           graph.covers \subseteq graph'.covers, links \subseteq links',
           PathsIn(stayed', stayed), PathsIn(seen, seen'), Between'
    PROVE  ImpactInv'
<1>1. ImpactType(impact) /\ impact.scope \subseteq Fund
  BY DEF ImpactInv, ImpactType
<1>2. /\ \A c : Dependents1to(Hops, stayed'.supplies, c) \subseteq Dependents1to(Hops, stayed.supplies, c)
      /\ \A i : FundsBy(i, stayed', impact.scope) \subseteq FundsBy(i, stayed, impact.scope)
  BY <1>1, FundsGrow
<1>3. /\ \A c : Dependents1to(Hops, seen.supplies, c) \subseteq Dependents1to(Hops, seen'.supplies, c)
      /\ \A i : FundsBy(i, seen, impact.scope) \subseteq FundsBy(i, seen', impact.scope)
  BY <1>1, FundsGrow
<1>4. /\ \A i : SectionsBy(i, graph.covers) \subseteq SectionsBy(i, graph'.covers)
      /\ \A i : ReportsBy(i, links) \subseteq ReportsBy(i, links')
  BY FlagsGrow
<1>5. ASSUME ToCome(impact, stayed, graph.covers, links)
      PROVE  ToCome(impact, stayed', graph'.covers, links')
  <2>1. ASSUME NEW i \in Items \ impact.todo
        PROVE  \/ FundsBy(i, stayed', impact.scope) \subseteq impact.found.funds
               \/ /\ impact.pc = "funds" /\ RuleOf(i) = "dependents"
                  /\ Dependents1to(Hops, stayed'.supplies, i.subject) \subseteq impact.names
    <3>1. \/ FundsBy(i, stayed, impact.scope) \subseteq impact.found.funds
          \/ /\ impact.pc = "funds" /\ RuleOf(i) = "dependents"
             /\ Dependents1to(Hops, stayed.supplies, i.subject) \subseteq impact.names
      BY <1>5 DEF ToCome
    <3>2. /\ FundsBy(i, stayed', impact.scope) \subseteq FundsBy(i, stayed, impact.scope)
          /\ Dependents1to(Hops, stayed'.supplies, i.subject) \subseteq Dependents1to(Hops, stayed.supplies, i.subject)
      BY <1>2
    <3>3. QED
      BY <3>1, <3>2
  <2>2. /\ impact.todo \subseteq Items
        /\ \A s \in impact.was.sections :
            s \in impact.found.sections \/ \E i \in impact.todo : s \in SectionsBy(i, graph'.covers)
        /\ \A f \in impact.was.reports :
            f \in impact.found.reports \/ \E i \in impact.todo : f \in ReportsBy(i, links')
    BY <1>4, <1>5 DEF ToCome
  <2>3. QED
    BY <2>1, <2>2 DEF ToCome
<1>6. ASSUME Founded(impact, seen, graph.covers, links)
      PROVE  Founded(impact, seen', graph'.covers, links')
  <2>1. /\ \A f \in impact.found.funds : \E i \in Items : f \in FundsBy(i, seen', impact.scope)
        /\ \A s \in impact.found.sections : \E i \in Items : s \in SectionsBy(i, graph'.covers)
        /\ \A f \in impact.found.reports : \E i \in Items : f \in ReportsBy(i, links')
    BY <1>3, <1>4, <1>6 DEF Founded
  <2>2. ASSUME impact.pc = "funds"
        PROVE  \E i \in Items : RuleOf(i) = "dependents"
                    /\ impact.names \subseteq Dependents1to(Hops, seen'.supplies, i.subject)
    <3>1. PICK i \in Items : RuleOf(i) = "dependents"
                    /\ impact.names \subseteq Dependents1to(Hops, seen.supplies, i.subject)
      BY <1>6, <2>2 DEF Founded
    <3>2. impact.names \subseteq Dependents1to(Hops, seen'.supplies, i.subject)
      BY <1>3, <3>1
    <3>3. QED
      BY <3>1, <3>2
  <2>3. QED
    BY <2>1, <2>2 DEF Founded
<1>7. Flagging(impact, stayed, stale, outOfDate) => Flagging(impact, stayed', stale, outOfDate)
  BY <1>2 DEF Flagging
<1>8. Flagged(applied, stale, outOfDate, graph.covers, links)
        => Flagged(applied, stale, outOfDate, graph'.covers, links')
  BY <1>4 DEF Flagged
<1>9. QED
  BY <1>1, <1>5, <1>6, <1>7, <1>8 DEF ImpactInv

\* What stayed is less and what was there is more, around the graph.
LEMMA BesideKeeps == ASSUME ReportInv, ImpactInv, Beside PROVE ImpactInv'
<1>1. /\ stayed' = [holds |-> [f \in Fund |-> stayed.holds[f] \cap Edges(graph').holds[f]],
                    supplies |-> stayed.supplies \cap Edges(graph').supplies]
      /\ seen' = IF impact.pc = "idle" THEN seen
                 ELSE [holds |-> [f \in Fund |-> seen.holds[f] \cup Edges(graph').holds[f]],
                       supplies |-> seen.supplies \cup Edges(graph').supplies]
      /\ UNCHANGED <<stale, outOfDate, impact, applied>>
  BY DEF Beside
<1>2. GraphType' /\ graph.covers \subseteq graph'.covers /\ links \subseteq links'
  BY ReportStepKeeps, ReportGrows DEF Beside, ReportInv, PackInv
<1>3. HoldsCompanies(Edges(graph'))
  <2>1. \A f \in Fund : Edges(graph').holds[f] = DOMAIN graph'.holds[f]
    BY DEF Edges
  <2>2. QED
    BY <1>2, <2>1 DEF GraphType, HoldsCompanies
<1>4. PICK g : g = Edges(graph')
  OBVIOUS
<1>5. PathsIn(stayed', stayed) /\ PathsIn(stayed', g)
  BY <1>1, <1>4 DEF PathsIn
<1>6. PathsIn(seen, seen') /\ (impact.pc # "idle" => PathsIn(g, seen'))
  BY <1>1, <1>4 DEF PathsIn
<1>7. HoldsCompanies(seen')
  <2>1. HoldsCompanies(seen) /\ HoldsCompanies(g)
    BY <1>3, <1>4 DEF ImpactInv, Between
  <2>2. QED
    BY <1>1, <1>4, <2>1 DEF HoldsCompanies
<1>8. Between'
  BY <1>1, <1>4, <1>5, <1>6, <1>7 DEF Between
<1>9. QED
  BY <1>1, <1>2, <1>5, <1>6, <1>8, ImpactStands

\* A step of the impact but its first and its last.
Proceeds == UNCHANGED reportVars /\ UNCHANGED <<stayed, seen>> /\ impact.pc # "idle" /\ impact'.pc # "idle"

LEMMA BetweenStays == ASSUME Between, Proceeds PROVE Between' /\ graph' = graph /\ links' = links
  BY DEF Between, Proceeds, reportVars

LEMMA BetweenFinds ==
    ASSUME Between, impact.pc # "idle", ImpactType(impact), NEW names
    PROVE  /\ FundsHolding(stayed, impact.scope, names) \subseteq FundsHolding(Edges(graph), impact.scope, names)
           /\ FundsHolding(Edges(graph), impact.scope, names) \subseteq FundsHolding(seen, impact.scope, names)
           /\ \A c : Dependents1to(Hops, stayed.supplies, c) \subseteq Dependents1to(Hops, graph.supplies, c)
           /\ \A c : Dependents1to(Hops, graph.supplies, c) \subseteq Dependents1to(Hops, seen.supplies, c)
<1>1. impact.scope \subseteq Fund /\ PathsIn(stayed, Edges(graph)) /\ PathsIn(Edges(graph), seen)
  BY DEF Between, ImpactType
<1>2. \A c : Dependents1to(Hops, graph.supplies, c) = Dependents1to(Hops, Edges(graph).supplies, c)
  BY EdgesFollowed
<1>3. /\ FundsHolding(stayed, impact.scope, names) \subseteq FundsHolding(Edges(graph), impact.scope, names)
      /\ \A c : Dependents1to(Hops, stayed.supplies, c) \subseteq Dependents1to(Hops, Edges(graph).supplies, c)
  BY <1>1, FundsGrow
<1>4. /\ FundsHolding(Edges(graph), impact.scope, names) \subseteq FundsHolding(seen, impact.scope, names)
      /\ \A c : Dependents1to(Hops, Edges(graph).supplies, c) \subseteq Dependents1to(Hops, seen.supplies, c)
  BY <1>1, FundsGrow
<1>5. QED
  BY <1>2, <1>3, <1>4

\* Following one difference, whatever its rule.
LEMMA FollowedKeeps ==
    ASSUME ImpactInv, impact.pc = "next", NEW i \in impact.todo, NEW found,
           impact' = [impact EXCEPT !.todo = @ \ {i}, !.found = found],
           DOMAIN found = ReachFields,
           impact.found.funds \cup FundsBy(i, stayed, impact.scope) \subseteq found.funds,
           found.funds \subseteq impact.found.funds \cup FundsBy(i, seen, impact.scope),
           found.sections = impact.found.sections \cup SectionsBy(i, graph.covers),
           found.reports = impact.found.reports \cup ReportsBy(i, links),
           UNCHANGED reportVars, UNCHANGED <<stale, outOfDate, applied, stayed, seen>>
    PROVE  ImpactInv'
<1>1. /\ ImpactType(impact) /\ ToCome(impact, stayed, graph.covers, links)
      /\ Founded(impact, seen, graph.covers, links)
  BY DEF ImpactInv
<1>2. i \in Items
  BY <1>1 DEF ToCome
<1>3. PICK r : r = [impact EXCEPT !.todo = @ \ {i}, !.found = found]
  OBVIOUS
<1>4. /\ DOMAIN r = ImpactFields /\ r.pc = "next" /\ r.scope = impact.scope /\ r.was = impact.was
      /\ r.todo = impact.todo \ {i} /\ r.found = found
  BY <1>1, <1>3 DEF ImpactType, ImpactFields
<1>5. impact' = r
  BY <1>3
<1>6. Between' /\ graph' = graph /\ links' = links
  BY <1>4, <1>5, BetweenStays DEF Proceeds, ImpactInv
<1>7. ImpactType(r)
  BY <1>1, <1>4 DEF ImpactType
<1>8. ToCome(r, stayed, graph.covers, links)
  BY <1>1, <1>4 DEF ToCome
<1>9. Founded(r, seen, graph.covers, links)
  BY <1>1, <1>2, <1>4 DEF Founded
<1>10. Flagging(r, stayed, stale, outOfDate)
  BY <1>4 DEF Flagging
<1>11. Flagged(applied, stale, outOfDate, graph.covers, links)
  BY DEF ImpactInv
<1>12. QED
  BY <1>4, <1>5, <1>6, <1>7, <1>8, <1>9, <1>10, <1>11 DEF ImpactInv

LEMMA ReadHoldersKeeps ==
    ASSUME ImpactInv, ReadHolders, UNCHANGED reportVars PROVE ImpactInv'
<1> DEFINE more(i) == FundsHolding(Edges(graph), impact.scope, {i.subject})
<1>1. PICK i \in impact.todo :
        /\ RuleOf(i) = "holders"
        /\ impact' = [impact EXCEPT !.todo = @ \ {i},
                !.found["funds"] = @ \cup [j \in impact.todo |-> more(j)][i]]
  BY Zenon DEF ReadHolders, Follow
<1>2. impact.pc = "next" /\ UNCHANGED <<stale, outOfDate, applied, stayed, seen>>
  BY Zenon DEF ReadHolders, Follow
<1>3. PICK found : found = [impact.found EXCEPT !["funds"] = @ \cup more(i)]
  OBVIOUS
<1>4. impact' = [impact EXCEPT !.todo = @ \ {i}, !.found = found]
  BY <1>1, <1>3
<1>5. ImpactType(impact) /\ Between
  BY DEF ImpactInv
<1>6. FundsBy(i, stayed, impact.scope) \subseteq more(i) /\ more(i) \subseteq FundsBy(i, seen, impact.scope)
  BY <1>1, <1>2, <1>5, BetweenFinds DEF FundsBy
<1>7. SectionsBy(i, graph.covers) = {} /\ ReportsBy(i, links) = {}
  BY <1>1 DEF SectionsBy, ReportsBy
<1> HIDE DEF more
<1>8. /\ DOMAIN found = ReachFields
      /\ found.funds = impact.found.funds \cup more(i)
      /\ found.sections = impact.found.sections \cup SectionsBy(i, graph.covers)
      /\ found.reports = impact.found.reports \cup ReportsBy(i, links)
  BY <1>3, <1>5, <1>7 DEF ImpactType, ReachFields
<1>9. /\ impact.found.funds \cup FundsBy(i, stayed, impact.scope) \subseteq found.funds
      /\ found.funds \subseteq impact.found.funds \cup FundsBy(i, seen, impact.scope)
  BY <1>6, <1>8
<1>10. QED
  BY <1>2, <1>4, <1>8, <1>9, FollowedKeeps, Zenon

LEMMA ReadSectionsKeeps ==
    ASSUME ImpactInv, ReadSections, UNCHANGED reportVars PROVE ImpactInv'
<1>1. PICK i \in impact.todo :
        /\ RuleOf(i) = "sections"
        /\ impact' = [impact EXCEPT !.todo = @ \ {i},
                !.found["sections"] = @ \cup [j \in impact.todo |-> SectionsCovering(graph.covers, j.object)][i]]
  BY Zenon DEF ReadSections, Follow
<1>2. impact.pc = "next" /\ UNCHANGED <<stale, outOfDate, applied, stayed, seen>>
  BY Zenon DEF ReadSections, Follow
<1>3. PICK found : found = [impact.found EXCEPT !["sections"] = @ \cup SectionsCovering(graph.covers, i.object)]
  OBVIOUS
<1>4. impact' = [impact EXCEPT !.todo = @ \ {i}, !.found = found]
  BY <1>1, <1>3
<1>5. SectionsBy(i, graph.covers) = SectionsCovering(graph.covers, i.object)
  BY <1>1 DEF SectionsBy
<1>6. /\ FundsBy(i, stayed, impact.scope) = {} /\ FundsBy(i, seen, impact.scope) = {}
      /\ ReportsBy(i, links) = {}
  BY <1>1 DEF FundsBy, ReportsBy
<1>7. ImpactType(impact)
  BY DEF ImpactInv
<1>8. /\ DOMAIN found = ReachFields
      /\ found.funds = impact.found.funds
      /\ found.sections = impact.found.sections \cup SectionsBy(i, graph.covers)
      /\ found.reports = impact.found.reports \cup ReportsBy(i, links)
  BY <1>3, <1>5, <1>6, <1>7 DEF ImpactType, ReachFields
<1>9. /\ impact.found.funds \cup FundsBy(i, stayed, impact.scope) \subseteq found.funds
      /\ found.funds \subseteq impact.found.funds \cup FundsBy(i, seen, impact.scope)
  BY <1>6, <1>8
<1>10. QED
  BY <1>2, <1>4, <1>8, <1>9, FollowedKeeps, Zenon

LEMMA ReadReportsKeeps ==
    ASSUME ImpactInv, ReadReports, UNCHANGED reportVars PROVE ImpactInv'
<1>1. PICK i \in impact.todo :
        /\ RuleOf(i) = "reports"
        /\ impact' = [impact EXCEPT !.todo = @ \ {i},
                !.found["reports"] = @ \cup [j \in impact.todo |-> ReportsDeriving(links, j.doc)][i]]
  BY Zenon DEF ReadReports, Follow
<1>2. impact.pc = "next" /\ UNCHANGED <<stale, outOfDate, applied, stayed, seen>>
  BY Zenon DEF ReadReports, Follow
<1>3. PICK found : found = [impact.found EXCEPT !["reports"] = @ \cup ReportsDeriving(links, i.doc)]
  OBVIOUS
<1>4. impact' = [impact EXCEPT !.todo = @ \ {i}, !.found = found]
  BY <1>1, <1>3
<1>5. ReportsBy(i, links) = ReportsDeriving(links, i.doc)
  BY <1>1 DEF ReportsBy
<1>6. /\ FundsBy(i, stayed, impact.scope) = {} /\ FundsBy(i, seen, impact.scope) = {}
      /\ SectionsBy(i, graph.covers) = {}
  BY <1>1 DEF FundsBy, SectionsBy
<1>7. ImpactType(impact)
  BY DEF ImpactInv
<1>8. /\ DOMAIN found = ReachFields
      /\ found.funds = impact.found.funds
      /\ found.sections = impact.found.sections \cup SectionsBy(i, graph.covers)
      /\ found.reports = impact.found.reports \cup ReportsBy(i, links)
  BY <1>3, <1>5, <1>6, <1>7 DEF ImpactType, ReachFields
<1>9. /\ impact.found.funds \cup FundsBy(i, stayed, impact.scope) \subseteq found.funds
      /\ found.funds \subseteq impact.found.funds \cup FundsBy(i, seen, impact.scope)
  BY <1>6, <1>8
<1>10. QED
  BY <1>2, <1>4, <1>8, <1>9, FollowedKeeps, Zenon

LEMMA ReadDependentsKeeps ==
    ASSUME ImpactInv, ReadDependents, UNCHANGED reportVars PROVE ImpactInv'
<1>1. PICK i \in impact.todo :
        /\ RuleOf(i) = "dependents"
        /\ impact' = [impact EXCEPT !.pc = "funds", !.todo = @ \ {i},
                        !.names = Dependents1to(Hops, graph.supplies, i.subject)]
  BY Zenon DEF ReadDependents
<1>2. impact.pc = "next" /\ UNCHANGED <<stale, outOfDate, applied, stayed, seen>>
  BY DEF ReadDependents
<1>3. /\ ImpactType(impact) /\ ToCome(impact, stayed, graph.covers, links) /\ Between
      /\ Founded(impact, seen, graph.covers, links)
  BY <1>2 DEF ImpactInv
<1>4. i \in Items
  BY <1>3 DEF ToCome
<1>5. PICK r : r = [impact EXCEPT !.pc = "funds", !.todo = @ \ {i},
                        !.names = Dependents1to(Hops, graph.supplies, i.subject)]
  OBVIOUS
<1>6. /\ DOMAIN r = ImpactFields /\ r.pc = "funds" /\ r.scope = impact.scope /\ r.was = impact.was
      /\ r.todo = impact.todo \ {i} /\ r.found = impact.found
      /\ r.names = Dependents1to(Hops, graph.supplies, i.subject)
  BY <1>3, <1>5 DEF ImpactType, ImpactFields
<1>7. impact' = r
  BY <1>1, <1>5
<1>8. Between' /\ graph' = graph /\ links' = links
  BY <1>2, <1>3, <1>6, <1>7, BetweenStays DEF Proceeds
<1>9. ImpactType(r)
  BY <1>3, <1>6 DEF ImpactType, ImpactPc
<1>10. /\ Dependents1to(Hops, stayed.supplies, i.subject) \subseteq r.names
       /\ r.names \subseteq Dependents1to(Hops, seen.supplies, i.subject)
  BY <1>2, <1>3, <1>6, BetweenFinds
<1>11. SectionsBy(i, graph.covers) = {} /\ ReportsBy(i, links) = {}
  BY <1>1 DEF SectionsBy, ReportsBy
<1>12. ToCome(r, stayed, graph.covers, links)
  <2>1. ASSUME NEW j \in Items \ r.todo
        PROVE  \/ FundsBy(j, stayed, r.scope) \subseteq r.found.funds
               \/ /\ r.pc = "funds" /\ RuleOf(j) = "dependents"
                  /\ Dependents1to(Hops, stayed.supplies, j.subject) \subseteq r.names
    <3>1. CASE j = i
      BY <1>1, <1>6, <1>10, <3>1
    <3>2. CASE j # i
      BY <1>2, <1>3, <1>6, <3>2 DEF ToCome
    <3>3. QED
      BY <3>1, <3>2
  <2>2. QED
    BY <1>3, <1>6, <1>11, <2>1 DEF ToCome
<1>13. Founded(r, seen, graph.covers, links)
  BY <1>1, <1>3, <1>4, <1>6, <1>10 DEF Founded
<1>14. Flagging(r, stayed, stale, outOfDate) /\ Flagged(applied, stale, outOfDate, graph.covers, links)
  BY <1>6 DEF Flagging, ImpactInv
<1>15. QED
  BY <1>2, <1>6, <1>7, <1>8, <1>9, <1>12, <1>13, <1>14 DEF ImpactInv

LEMMA ReadFundsKeeps ==
    ASSUME ImpactInv, ReadFunds, UNCHANGED reportVars PROVE ImpactInv'
<1> DEFINE more == FundsHolding(Edges(graph), impact.scope, impact.names)
<1>1. impact' = [impact EXCEPT !.pc = "next", !.names = {}, !.found.funds = @ \cup more]
  BY DEF ReadFunds
<1>2. impact.pc = "funds" /\ UNCHANGED <<stale, outOfDate, applied, stayed, seen>>
  BY DEF ReadFunds
<1>3. /\ ImpactType(impact) /\ ToCome(impact, stayed, graph.covers, links) /\ Between
      /\ Founded(impact, seen, graph.covers, links)
  BY <1>2 DEF ImpactInv
<1>4. PICK found : found = [impact.found EXCEPT !.funds = @ \cup more]
  OBVIOUS
<1>5. PICK r : r = [impact EXCEPT !.pc = "next", !.names = {}, !.found = found]
  OBVIOUS
<1>6. impact' = r
  BY <1>1, <1>4, <1>5
<1>7. /\ DOMAIN found = ReachFields /\ found.funds = impact.found.funds \cup more
      /\ found.sections = impact.found.sections /\ found.reports = impact.found.reports
  BY <1>3, <1>4 DEF ImpactType, ReachFields
<1>8. /\ DOMAIN r = ImpactFields /\ r.pc = "next" /\ r.scope = impact.scope /\ r.was = impact.was
      /\ r.todo = impact.todo /\ r.found = found
  BY <1>3, <1>5 DEF ImpactType, ImpactFields
<1>9. Between' /\ graph' = graph /\ links' = links
  BY <1>2, <1>3, <1>6, <1>8, BetweenStays DEF Proceeds
<1>10. ImpactType(r)
  BY <1>3, <1>7, <1>8 DEF ImpactType, ImpactPc
<1>11. /\ FundsHolding(stayed, impact.scope, impact.names) \subseteq more
       /\ more \subseteq FundsHolding(seen, impact.scope, impact.names)
  BY <1>2, <1>3, BetweenFinds
<1> HIDE DEF more
<1>12. ToCome(r, stayed, graph.covers, links)
  <2>1. ASSUME NEW i \in Items \ r.todo PROVE FundsBy(i, stayed, r.scope) \subseteq r.found.funds
    <3>1. CASE FundsBy(i, stayed, impact.scope) \subseteq impact.found.funds
      BY <1>7, <1>8, <3>1
    <3>2. CASE /\ RuleOf(i) = "dependents"
               /\ Dependents1to(Hops, stayed.supplies, i.subject) \subseteq impact.names
      <4>1. FundsBy(i, stayed, impact.scope) \subseteq FundsHolding(stayed, impact.scope, impact.names)
        BY <3>2 DEF FundsBy, FundsHolding
      <4>2. QED
        BY <1>7, <1>8, <1>11, <4>1
    <3>3. QED
      BY <1>3, <1>8, <3>1, <3>2 DEF ToCome
  <2>2. QED
    BY <1>3, <1>7, <1>8, <2>1 DEF ToCome
<1>13. Founded(r, seen, graph.covers, links)
  <2>1. PICK i \in Items : RuleOf(i) = "dependents"
                /\ impact.names \subseteq Dependents1to(Hops, seen.supplies, i.subject)
    BY <1>2, <1>3 DEF Founded
  <2>2. FundsHolding(seen, impact.scope, impact.names) \subseteq FundsBy(i, seen, impact.scope)
    BY <2>1 DEF FundsBy, FundsHolding
  <2>3. QED
    BY <1>3, <1>7, <1>8, <1>11, <2>1, <2>2 DEF Founded
<1>14. Flagging(r, stayed, stale, outOfDate) /\ Flagged(applied, stale, outOfDate, graph.covers, links)
  BY <1>8 DEF Flagging, ImpactInv
<1>15. QED
  BY <1>2, <1>6, <1>8, <1>9, <1>10, <1>12, <1>13, <1>14 DEF ImpactInv

LEMMA UnaskedIs ==
    /\ DOMAIN Unasked = ImpactFields /\ Unasked.pc = "idle" /\ Unasked.scope = {}
    /\ Unasked.found = NoReach /\ Unasked.was = NoFlags
    /\ DOMAIN NoReach = ReachFields /\ DOMAIN NoFlags = FlagFields
    /\ NoReach.funds = {} /\ NoReach.sections = {} /\ NoReach.reports = {}
    /\ NoFlags.sections = {} /\ NoFlags.reports = {}
    /\ HoldsCompanies(NoHistory)
  BY DEF Unasked, NoReach, NoFlags, NoHistory, HoldsCompanies, ImpactFields, ReachFields, FlagFields

LEMMA RequestKeeps ==
    ASSUME PackInv, ImpactInv, Request, UNCHANGED reportVars PROVE ImpactInv'
<1>1. PICK scope \in {DemoFunds, Fund}, apply \in BOOLEAN :
        impact' = [Unasked EXCEPT !.pc = "next", !.scope = scope, !.apply = apply,
                                  !.todo = {i \in Diff(V1, V2) : Triggered(i)},
                                  !.was = FlagsReached(graph.covers, links)]
  BY Zenon DEF Request
<1>2. /\ UNCHANGED <<stale, outOfDate, applied, graph, links>>
      /\ stayed' = Edges(graph) /\ seen' = Edges(graph)
  BY Zenon DEF Request, reportVars
<1>3. PICK was : was = FlagsReached(graph.covers, links)
  OBVIOUS
<1>4. PICK r : r = [Unasked EXCEPT !.pc = "next", !.scope = scope, !.apply = apply,
                                  !.todo = Items, !.was = was]
  OBVIOUS
<1>5. impact' = r
  BY <1>1, <1>3, <1>4 DEF Items
<1>6. /\ DOMAIN r = ImpactFields /\ r.pc = "next" /\ r.scope = scope /\ r.todo = Items
      /\ r.was = was /\ r.found = NoReach
  BY <1>4, UnaskedIs DEF ImpactFields
<1>7. scope \subseteq Fund
  BY ImpactAssumption
<1>8. DOMAIN was = FlagFields
  BY <1>3 DEF FlagsReached, FlagFields
<1>9. ImpactType(r)
  BY <1>6, <1>7, <1>8, UnaskedIs DEF ImpactType, ImpactPc
<1>10. ToCome(r, stayed', graph.covers, links)
  <2>1. \A s \in was.sections : \E i \in Items : s \in SectionsBy(i, graph.covers)
    BY <1>3, SectionsFollowed
  <2>2. \A f \in was.reports : \E i \in Items : f \in ReportsBy(i, links)
    BY <1>3, ReportsFollowed
  <2>3. QED
    BY <1>6, <2>1, <2>2 DEF ToCome
<1>11. Founded(r, seen', graph.covers, links)
  BY <1>6, UnaskedIs DEF Founded
<1>12. Flagging(r, stayed', stale, outOfDate) /\ Flagged(applied, stale, outOfDate, graph.covers, links)
  BY <1>6 DEF Flagging, ImpactInv
<1>13. Between'
  <2>1. \A f \in Fund : Edges(graph).holds[f] = DOMAIN graph.holds[f]
    BY DEF Edges
  <2>2. HoldsCompanies(Edges(graph))
    BY <2>1 DEF PackInv, GraphType, HoldsCompanies
  <2>3. PathsIn(Edges(graph), Edges(graph))
    BY DEF PathsIn
  <2>4. QED
    BY <1>2, <2>2, <2>3 DEF Between
<1>14. QED
  BY <1>2, <1>5, <1>6, <1>9, <1>10, <1>11, <1>12, <1>13 DEF ImpactInv

LEMMA BriefKeeps == ASSUME ImpactInv, Brief, UNCHANGED reportVars PROVE ImpactInv'
<1>1. /\ impact.pc = "next" /\ impact.todo = {}
      /\ impact' = [impact EXCEPT !.pc = IF impact.apply THEN "flagSections" ELSE "done",
                            !.todo = impact.found.reports, !.names = impact.found.sections]
  BY DEF Brief
<1>2. UNCHANGED <<stale, outOfDate, applied, stayed, seen>>
  BY DEF Brief
<1>3. ImpactType(impact) /\ ToCome(impact, stayed, graph.covers, links) /\ Founded(impact, seen, graph.covers, links)
  BY <1>1 DEF ImpactInv
<1>4. PICK r : r = [impact EXCEPT !.pc = IF impact.apply THEN "flagSections" ELSE "done",
                            !.todo = impact.found.reports, !.names = impact.found.sections]
  OBVIOUS
<1>5. impact' = r
  BY <1>1, <1>4
<1>6. /\ DOMAIN r = ImpactFields /\ r.pc \in {"flagSections", "done"} /\ r.scope = impact.scope
      /\ r.was = impact.was /\ r.found = impact.found /\ r.todo = impact.found.reports
      /\ r.names = impact.found.sections
  BY <1>3, <1>4 DEF ImpactType, ImpactFields
<1>7. ImpactType(r)
  BY <1>3, <1>6 DEF ImpactType, ImpactPc
<1>8. Founded(r, seen, graph.covers, links)
  BY <1>3, <1>6 DEF Founded
<1>9. Within(impact.was, impact.found)
  <2>1. /\ impact.was.sections \subseteq impact.found.sections
        /\ impact.was.reports \subseteq impact.found.reports
    BY <1>1, <1>3 DEF ToCome
  <2>2. QED
    BY <1>3, <2>1 DEF Within, ImpactType, FlagFields
<1>10. \A i \in Items : FundsBy(i, stayed, impact.scope) \subseteq impact.found.funds
  BY <1>1, <1>3 DEF ToCome
<1>11. Flagging(r, stayed, stale, outOfDate)
  BY <1>6, <1>9, <1>10 DEF Flagging
<1>12. Flagged(applied, stale, outOfDate, graph.covers, links)
  BY DEF ImpactInv
<1>13. Between' /\ graph' = graph /\ links' = links
  BY <1>1, <1>2, <1>5, <1>6, BetweenStays DEF Proceeds, ImpactInv
<1>14. QED
  BY <1>2, <1>5, <1>6, <1>7, <1>8, <1>11, <1>12, <1>13 DEF ImpactInv

LEMMA FlagSectionKeeps == ASSUME ImpactInv, FlagSection, UNCHANGED reportVars PROVE ImpactInv'
<1>1. impact.pc = "flagSections" /\ UNCHANGED <<outOfDate, applied, stayed, seen>>
  BY DEF FlagSection
<1>2. /\ ImpactType(impact) /\ Founded(impact, seen, graph.covers, links) /\ Flagging(impact, stayed, stale, outOfDate)
      /\ Flagged(applied, stale, outOfDate, graph.covers, links) /\ Between
  BY <1>1 DEF ImpactInv
<1>3. CASE \E s \in impact.names : /\ stale' = stale \cup {s}
                                   /\ impact' = [impact EXCEPT !.names = @ \ {s}]
  <2>1. PICK s \in impact.names : stale' = stale \cup {s} /\ impact' = [impact EXCEPT !.names = @ \ {s}]
    BY <1>3
  <2>2. PICK r : r = [impact EXCEPT !.names = @ \ {s}]
    OBVIOUS
  <2>3. /\ DOMAIN r = ImpactFields /\ r.pc = "flagSections" /\ r.scope = impact.scope
        /\ r.was = impact.was /\ r.found = impact.found /\ r.todo = impact.todo
        /\ r.names = impact.names \ {s}
    BY <1>1, <1>2, <2>2 DEF ImpactType, ImpactFields
  <2>4. s \in impact.found.sections
    BY <1>1, <1>2 DEF Flagging
  <2>5. ImpactType(r) /\ Founded(r, seen, graph.covers, links)
    BY <1>2, <2>3 DEF ImpactType, ImpactPc, Founded
  <2>6. Flagging(r, stayed, stale', outOfDate)
    BY <1>1, <1>2, <2>1, <2>3 DEF Flagging
  <2>7. Flagged(applied, stale', outOfDate, graph.covers, links)
    BY <1>2, <2>1, <2>4 DEF Flagged, Founded
  <2>8. Between' /\ graph' = graph /\ links' = links
    BY <1>1, <1>2, <2>1, <2>2, <2>3, BetweenStays DEF Proceeds
  <2>9. QED
    BY <1>1, <2>1, <2>2, <2>3, <2>5, <2>6, <2>7, <2>8 DEF ImpactInv
<1>4. CASE impact.names = {} /\ impact' = [impact EXCEPT !.pc = "flagReports"] /\ stale' = stale
  <2>1. PICK r : r = [impact EXCEPT !.pc = "flagReports"]
    OBVIOUS
  <2>2. /\ DOMAIN r = ImpactFields /\ r.pc = "flagReports" /\ r.scope = impact.scope
        /\ r.was = impact.was /\ r.found = impact.found /\ r.todo = impact.todo
    BY <1>2, <2>1 DEF ImpactType, ImpactFields
  <2>3. ImpactType(r) /\ Founded(r, seen, graph.covers, links)
    BY <1>2, <2>2 DEF ImpactType, ImpactPc, Founded
  <2>4. Flagging(r, stayed, stale, outOfDate)
    BY <1>1, <1>2, <1>4, <2>2 DEF Flagging
  <2>5. Between' /\ graph' = graph /\ links' = links
    BY <1>1, <1>2, <1>4, <2>1, <2>2, BetweenStays DEF Proceeds
  <2>6. QED
    BY <1>1, <1>2, <1>4, <2>1, <2>2, <2>3, <2>4, <2>5 DEF ImpactInv
<1>5. QED
  BY <1>3, <1>4 DEF FlagSection

LEMMA FlagReportKeeps ==
    ASSUME PackInv, ImpactInv, FlagReport, UNCHANGED reportVars PROVE ImpactInv'
<1>1. impact.pc = "flagReports" /\ UNCHANGED <<stale, stayed, seen>>
  BY DEF FlagReport
<1>2. /\ ImpactType(impact) /\ Founded(impact, seen, graph.covers, links) /\ Flagging(impact, stayed, stale, outOfDate)
      /\ Flagged(applied, stale, outOfDate, graph.covers, links) /\ Between
  BY <1>1 DEF ImpactInv
<1>3. CASE \E f \in impact.todo : /\ outOfDate' = outOfDate \cup {g \in {f} : report[g] # None}
                                  /\ impact' = [impact EXCEPT !.todo = @ \ {f}]
                                  /\ applied' = applied
  <2>1. PICK f \in impact.todo : /\ outOfDate' = outOfDate \cup {g \in {f} : report[g] # None}
                                 /\ impact' = [impact EXCEPT !.todo = @ \ {f}]
                                 /\ applied' = applied
    BY <1>3
  <2>2. PICK r : r = [impact EXCEPT !.todo = @ \ {f}]
    OBVIOUS
  <2>3. /\ DOMAIN r = ImpactFields /\ r.pc = "flagReports" /\ r.scope = impact.scope
        /\ r.was = impact.was /\ r.found = impact.found /\ r.todo = impact.todo \ {f}
    BY <1>1, <1>2, <2>2 DEF ImpactType, ImpactFields
  <2>4. PICK i \in Items : f \in ReportsBy(i, links)
    BY <1>1, <1>2 DEF Flagging, Founded
  <2>5. report[f] # None
    <3>1. \E l \in links : f = l[1]
      BY <2>4 DEF ReportsBy, ReportsDeriving
    <3>2. QED
      BY <3>1 DEF PackInv, FilingInv
  <2>6. outOfDate' = outOfDate \cup {f}
    BY <2>1, <2>5
  <2>7. ImpactType(r) /\ Founded(r, seen, graph.covers, links)
    BY <1>2, <2>3 DEF ImpactType, ImpactPc, Founded
  <2>8. Flagging(r, stayed, stale, outOfDate')
    BY <1>1, <1>2, <2>3, <2>6 DEF Flagging
  <2>9. Flagged(applied, stale, outOfDate', graph.covers, links)
    BY <1>2, <2>4, <2>6 DEF Flagged
  <2>10. Between' /\ graph' = graph /\ links' = links
    BY <1>1, <1>2, <2>1, <2>2, <2>3, BetweenStays DEF Proceeds
  <2>11. QED
    BY <1>1, <2>1, <2>2, <2>3, <2>7, <2>8, <2>9, <2>10 DEF ImpactInv
<1>4. CASE /\ impact.todo = {} /\ impact' = [impact EXCEPT !.pc = "done"]
           /\ applied' = [k \in DOMAIN applied |-> applied[k] \cup impact.was[k]]
           /\ outOfDate' = outOfDate
  <2>1. PICK r : r = [impact EXCEPT !.pc = "done"]
    OBVIOUS
  <2>2. /\ DOMAIN r = ImpactFields /\ r.pc = "done" /\ r.scope = impact.scope
        /\ r.was = impact.was /\ r.found = impact.found
    BY <1>2, <2>1 DEF ImpactType, ImpactFields
  <2>3. ImpactType(r) /\ Founded(r, seen, graph.covers, links)
    BY <1>2, <2>2 DEF ImpactType, ImpactPc, Founded
  <2>4. /\ Within(impact.was, impact.found)
        /\ \A i \in Items : FundsBy(i, stayed, impact.scope) \subseteq impact.found.funds
    BY <1>1, <1>2 DEF Flagging
  <2>5. Flagging(r, stayed, stale, outOfDate)
    BY <2>2, <2>4 DEF Flagging
  <2>6. DOMAIN applied = FlagFields /\ DOMAIN impact.was = FlagFields
    BY <1>2 DEF Flagged, ImpactType
  <2>7. /\ DOMAIN applied' = FlagFields
        /\ applied'.sections = applied.sections \cup impact.was.sections
        /\ applied'.reports = applied.reports \cup impact.was.reports
    BY <1>4, <2>6 DEF FlagFields
  <2>8. impact.was.sections \subseteq stale /\ impact.was.reports \subseteq outOfDate
    <3>1. impact.was.sections \subseteq impact.found.sections /\ impact.was.reports \subseteq impact.found.reports
      BY <2>4, <2>6 DEF Within, FlagFields
    <3>2. impact.found.sections \subseteq stale /\ impact.found.reports \subseteq outOfDate
      BY <1>1, <1>2, <1>4 DEF Flagging
    <3>3. QED
      BY <3>1, <3>2
  <2>9. Flagged(applied', stale, outOfDate, graph.covers, links)
    BY <1>2, <2>7, <2>8 DEF Flagged
  <2>10. Between' /\ graph' = graph /\ links' = links
    BY <1>1, <1>2, <1>4, <2>1, <2>2, BetweenStays DEF Proceeds
  <2>11. QED
    BY <1>1, <1>4, <2>1, <2>2, <2>3, <2>5, <2>9, <2>10 DEF ImpactInv
<1>5. QED
  BY <1>3, <1>4 DEF FlagReport

\* Answered or cut: the flags set so far stay.
LEMMA EndKeeps ==
    ASSUME ImpactInv, impact' = Unasked, UNCHANGED <<stale, outOfDate, applied>>, UNCHANGED reportVars,
           seen' = NoHistory
    PROVE  ImpactInv'
<1>1. graph' = graph /\ links' = links
  BY DEF reportVars
<1>2. ImpactType(Unasked) /\ \A p : Flagging(Unasked, p, stale, outOfDate)
  BY UnaskedIs DEF ImpactType, ImpactPc, Flagging
<1>3. Flagged(applied, stale, outOfDate, graph.covers, links)
  BY DEF ImpactInv
<1>4. Between'
  BY UnaskedIs DEF Between
<1>5. QED
  BY <1>1, <1>2, <1>3, <1>4, UnaskedIs DEF ImpactInv

\* The impact's invariant: what a change reached when an impact was asked for
\* is found or can still be found by following what is left, along paths that
\* stayed where firms are deleted and companies merged meanwhile; what is found
\* was reached, and is flagged in the order of the statements.
THEOREM ImpactInvariant == Spec => []ImpactInv
<1>1. Init => ImpactInv
  <2> SUFFICES ASSUME Init PROVE ImpactInv
    OBVIOUS
  <2>1. impact = Unasked /\ applied = NoFlags /\ stale = {} /\ outOfDate = {} /\ seen = NoHistory
    BY DEF Init
  <2>2. ImpactType(Unasked) /\ Flagging(Unasked, stayed, stale, outOfDate) /\ Between
    BY <2>1, UnaskedIs DEF ImpactType, ImpactPc, Flagging, Between
  <2>3. Flagged(applied, stale, outOfDate, graph.covers, links)
    BY <2>1, UnaskedIs DEF Flagged
  <2>4. QED
    BY <2>1, <2>2, <2>3, UnaskedIs DEF ImpactInv
<1>2. ReportInv /\ ImpactInv /\ [Next]_vars => ImpactInv'
  <2> SUFFICES ASSUME ReportInv, ImpactInv, [Next]_vars PROVE ImpactInv'
    OBVIOUS
  <2>1. CASE Beside
    BY <2>1, BesideKeeps
  <2>2. CASE ImpactStep
    <3>1. UNCHANGED reportVars /\ PackInv
      BY <2>2, ImpactReads DEF ReportInv
    <3>2. Answer \/ Broken =>
            impact' = Unasked /\ UNCHANGED <<stale, outOfDate, applied>> /\ seen' = NoHistory
      BY DEF Answer, Broken
    <3>3. QED
      BY <2>2, <3>1, <3>2, RequestKeeps, ReadHoldersKeeps, ReadSectionsKeeps, ReadReportsKeeps,
         ReadDependentsKeeps, ReadFundsKeeps, BriefKeeps, FlagSectionKeeps, FlagReportKeeps,
         EndKeeps DEF ImpactStep
  <2>3. CASE UNCHANGED vars
    <3>1. UNCHANGED impactVars /\ graph' = graph /\ links' = links
      BY <2>3 DEF vars, reportVars
    <3>2. UNCHANGED <<stale, outOfDate, impact, applied, stayed, seen>>
      BY <3>1 DEF impactVars
    <3>3. PathsIn(stayed', stayed) /\ PathsIn(seen, seen')
      BY <3>2 DEF PathsIn
    <3>4. Between'
      BY <3>1, <3>2 DEF ImpactInv, Between
    <3>5. QED
      BY <3>1, <3>2, <3>3, <3>4, ImpactStands
  <2>4. QED
    BY <2>1, <2>2, <2>3 DEF Next
<1>3. QED
  BY <1>1, <1>2, PackInvariant, PTL DEF Spec

\* An impact answered holds every fund the change reached along holdings and
\* supplies that stayed, only funds it reaches along some that were there, the
\* sections and reports it reached when it was asked for and none it does not
\* reach now: for every graph, whatever is committed, deleted and merged
\* meanwhile (change_impact.py, compute_impact).
THEOREM ImpactIsTheReachHolds == Spec => []ImpactIsTheReach
<1>1. ImpactInv => ImpactIsTheReach
  <2> SUFFICES ASSUME ImpactInv, impact.pc \in {"flagSections", "flagReports", "done"}
               PROVE  /\ FundsReached(stayed, impact.scope) \subseteq impact.found.funds
                      /\ impact.found.funds \subseteq FundsReached(seen, impact.scope)
                      /\ Within(impact.was, impact.found)
                      /\ Within(FlagsFound(impact), FlagsReached(graph.covers, links))
    BY DEF ImpactIsTheReach
  <2>1. /\ ImpactType(impact) /\ Founded(impact, seen, graph.covers, links)
        /\ Flagging(impact, stayed, stale, outOfDate) /\ Between
    BY DEF ImpactInv
  <2>2. HoldsCompanies(seen) /\ HoldsCompanies(stayed) /\ impact.scope \subseteq Fund
    <3>1. HoldsCompanies(seen) /\ PathsIn(stayed, Edges(graph)) /\ PathsIn(Edges(graph), seen)
      BY <2>1 DEF Between
    <3>2. HoldsCompanies(stayed)
      BY <3>1 DEF PathsIn, HoldsCompanies
    <3>3. QED
      BY <2>1, <3>1, <3>2 DEF ImpactType
  <2>3. FundsReached(stayed, impact.scope) \subseteq impact.found.funds
    <3>1. \A f : f \in FundsReached(stayed, impact.scope) => \E i \in Items : f \in FundsBy(i, stayed, impact.scope)
      BY <2>2, FundsFollowed
    <3>2. \A i \in Items : FundsBy(i, stayed, impact.scope) \subseteq impact.found.funds
      BY <2>1 DEF Flagging
    <3>3. QED
      BY <3>1, <3>2
  <2>4. impact.found.funds \subseteq FundsReached(seen, impact.scope)
    <3>1. \A f : (\E i \in Items : f \in FundsBy(i, seen, impact.scope)) => f \in FundsReached(seen, impact.scope)
      BY <2>2, FundsFollowed
    <3>2. QED
      BY <2>1, <3>1 DEF Founded
  <2>5. Within(impact.was, impact.found)
    BY <2>1 DEF Flagging
  <2>6. Within(FlagsFound(impact), FlagsReached(graph.covers, links))
    <3>1. \A s \in impact.found.sections : s \in FlagsReached(graph.covers, links).sections
      BY <2>1, SectionsFollowed DEF Founded
    <3>2. \A f \in impact.found.reports : f \in FlagsReached(graph.covers, links).reports
      BY <2>1, ReportsFollowed DEF Founded
    <3>3. PICK g : g = FlagsReached(graph.covers, links)
      OBVIOUS
    <3>4. QED
      BY <3>1, <3>2, <3>3 DEF Within, FlagsFound
  <2>7. QED
    BY <2>3, <2>4, <2>5, <2>6
<1>2. QED
  BY <1>1, ImpactInvariant, PTL

\* Whatever was cut half-way, what a change reached is flagged once its flags
\* are applied, and nothing is that no change reaches (apply_flags).
THEOREM FlagsFollowTheImpactHolds == Spec => []FlagsFollowTheImpact
<1>1. ImpactInv => FlagsFollowTheImpact
  <2> SUFFICES ASSUME ImpactInv PROVE FlagsFollowTheImpact
    OBVIOUS
  <2>1. Flagged(applied, stale, outOfDate, graph.covers, links)
    BY DEF ImpactInv
  <2>2. PICK g : g = FlagsReached(graph.covers, links)
    OBVIOUS
  <2>3. stale \subseteq g.sections
    BY <2>1, <2>2, SectionsFollowed DEF Flagged
  <2>4. outOfDate \subseteq g.reports
    BY <2>1, <2>2, ReportsFollowed DEF Flagged
  <2>5. Within([sections |-> stale, reports |-> outOfDate], g)
    BY <2>3, <2>4 DEF Within
  <2>6. QED
    BY <2>1, <2>2, <2>5 DEF Flagged, FlagsFollowTheImpact
<1>2. QED
  BY <1>1, ImpactInvariant, PTL
===============================================================================
