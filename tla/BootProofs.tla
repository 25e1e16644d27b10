------------------------------- MODULE BootProofs -------------------------------
(***************************************************************************)
(* Theorems about Boot and the GoldenRecord it serves, for any systems,    *)
(* records, rules, requests, statements and number of boots: the seed is   *)
(* whole, one golden record is published, its lineage explains it, and the *)
(* graph that is served is the whole snapshot.                             *)
(***************************************************************************)
EXTENDS Boot, FiniteSetTheorems, WellFoundedInduction, TLAPS

-------------------------------------------------------------------------------
(* Least and greatest *)

LEMMA LeastNat ==
    ASSUME NEW T, T \subseteq Nat, T # {}
    PROVE  \E x \in T : \A y \in T : x <= y
<1> DEFINE R == {p \in Nat \X Nat : p[1] < p[2]}
<1>1. IsWellFoundedOn(R, Nat)
  BY NatLessThanWellFounded DEF OpToRel
<1>2. \A x, y \in Nat : <<y, x>> \in R <=> y < x
  OBVIOUS
<1> HIDE DEF R
<1>3. PICK x \in T : \A y \in T : ~(<<y, x>> \in R)
  BY <1>1, WFMin
<1>4. ASSUME NEW y \in T PROVE x <= y
  <2>1. x \in Nat /\ y \in Nat
    OBVIOUS
  <2>2. ~(y < x)
    BY <1>2, <1>3, <2>1
  <2>3. QED
    BY <2>1, <2>2
<1>5. QED
  BY <1>4

LEMMA MinIn ==
    ASSUME NEW T, T \subseteq Nat, T # {}
    PROVE  Min(T) \in T /\ \A y \in T : Min(T) <= y
  BY LeastNat DEF Min

LEMMA MaxOfTwo ==
    ASSUME NEW m \in Nat, NEW n \in Nat
    PROVE  Max({m, n}) = IF n <= m THEN m ELSE n
<1> DEFINE top == IF n <= m THEN m ELSE n
<1>1. top \in {m, n} /\ \A y \in {m, n} : top >= y
  OBVIOUS
<1>2. \A x \in {m, n} : (\A y \in {m, n} : x >= y) => x = top
  OBVIOUS
<1>3. QED
  BY <1>1, <1>2 DEF Max

\* Of finitely many keys one is the greatest: were there a first m up to which
\* none is, m itself would have to exceed the greatest of those before it.
LEMMA GreatestKey ==
    ASSUME NEW n \in Nat, NEW C, C \subseteq 1 .. n, C # {}, NEW key, \A i \in C : key[i] \in Nat
    PROVE  \E i \in C : \A j \in C : key[j] <= key[i]
<1> DEFINE Top(i, m) == i \in C /\ i <= m /\ \A j \in C : j <= m => key[j] <= key[i]
           Bad == {m \in 0 .. n : (\E i \in C : i <= m) /\ ~\E i \in C : Top(i, m)}
<1>1. ASSUME Bad # {} PROVE FALSE
  <2>1. PICK m \in Bad : \A k \in Bad : m <= k
    <3>1. Bad \subseteq Nat
      OBVIOUS
    <3> HIDE DEF Bad
    <3>2. QED
      BY <1>1, <3>1, LeastNat
  <2>2. PICK i \in C : i <= m
    OBVIOUS
  <2>3. m \in 1 .. n /\ m - 1 \in 0 .. n /\ m - 1 \notin Bad
    <3>1. m \in 0 .. n /\ i \in 1 .. n /\ i <= m
      BY <2>2
    <3>2. m - 1 \notin Bad
      <4> HIDE DEF Bad
      <4>1. QED
        BY <2>1, <3>1
    <3>3. QED
      BY <3>1, <3>2
  <2>4. CASE \E j \in C : j <= m - 1
    <3>1. PICK j \in C : Top(j, m - 1)
      BY <2>3, <2>4
    <3>2. CASE m \in C /\ key[j] < key[m]
      <4>1. \A k \in C : k <= m => k <= m - 1 \/ k = m
        BY <2>3
      <4>2. Top(m, m)
        BY <2>3, <3>1, <3>2, <4>1
      <4>3. QED
        BY <2>1, <3>2, <4>2
    <3>3. CASE ~(m \in C /\ key[j] < key[m])
      <4>1. \A k \in C : k <= m => k <= m - 1 \/ k = m
        BY <2>3
      <4>2. Top(j, m)
        BY <2>3, <3>1, <3>3, <4>1
      <4>3. QED
        BY <2>1, <3>1, <4>2
    <3>4. QED
      BY <3>2, <3>3
  <2>5. CASE ~\E j \in C : j <= m - 1
    <3>1. \A k \in C : k <= m => k = m
      BY <2>3, <2>5
    <3>2. Top(m, m)
      BY <2>2, <2>3, <3>1
    <3>3. QED
      BY <2>1, <3>2
  <2>6. QED
    BY <2>4, <2>5
<1>2. n \notin Bad
  BY <1>1
<1>3. \E i \in C : i <= n
  <2>1. PICK i : i \in C
    OBVIOUS
  <2>2. QED
    BY <2>1
<1>4. PICK i \in C : Top(i, n)
  BY <1>2, <1>3
<1>5. \A j \in C : j <= n
  OBVIOUS
<1>6. QED
  BY <1>4, <1>5

-------------------------------------------------------------------------------
(* Survivorship *)

Records == 1 .. Len(Bronze)
SystemIds == {SourceSystems[i].id : i \in 1 .. Len(SourceSystems)}

LEMMA TrustIsNat == \A n \in 0 .. Len(SourceSystems) : TrustOf(n) \in [SystemIds -> Nat]
<1> SUFFICES ASSUME NEW n \in 0 .. Len(SourceSystems), NEW s \in SystemIds
             PROVE  (LET at == {i \in 1 .. n : SourceSystems[i].id = s}
                     IN  IF at = {} THEN 0 ELSE SourceSystems[Min(at)].trust) \in Nat
  BY DEF TrustOf, SystemIds
<1> DEFINE at == {i \in 1 .. n : SourceSystems[i].id = s}
<1>1. CASE at = {}
  BY <1>1
<1>2. CASE at # {}
  <2>1. Min(at) \in at
    <3>1. at \subseteq Nat
      OBVIOUS
    <3> HIDE DEF at
    <3>2. QED
      BY <1>2, <3>1, MinIn
  <2>2. Min(at) \in 1 .. Len(SourceSystems)
    BY <2>1, GoldenAssumption
  <2>3. QED
    BY <1>2, <2>2, GoldenAssumption
<1>3. QED
  BY <1>1, <1>2

\* max(cands, key) is one of the candidates.
LEMMA MostTrustedIn ==
    ASSUME NEW cands, cands \subseteq Records, cands # {}, NEW trust \in [SystemIds -> Nat]
    PROVE  MostTrusted(cands, trust) \in cands
<1> DEFINE best == {i \in cands : \A j \in cands :
                        trust[Bronze[j].system] <= trust[Bronze[i].system]}
           key == [i \in cands |-> trust[Bronze[i].system]]
<1>1. \A i \in cands : key[i] \in Nat
  BY GoldenAssumption DEF Records, SystemIds
<1>2. \E i \in cands : \A j \in cands : key[j] <= key[i]
  <2> HIDE DEF key
  <2>1. QED
    BY <1>1, GreatestKey, GoldenAssumption DEF Records
<1>3. best # {} /\ best \subseteq cands /\ best \subseteq Nat
  <2>1. \A i \in cands : key[i] = trust[Bronze[i].system]
    OBVIOUS
  <2>2. best # {}
    <3> HIDE DEF key
    <3>1. QED
      BY <1>2, <2>1
  <2>3. cands \subseteq Nat
    BY DEF Records
  <2>4. best \subseteq cands
    OBVIOUS
  <2>5. QED
    BY <2>2, <2>3, <2>4
<1>4. MostTrusted(cands, trust) = Min(best)
  BY DEF MostTrusted, FirstBest
<1> HIDE DEF best
<1>5. QED
  BY <1>3, <1>4, MinIn

LEMMA TrustWinsFrom ==
    ASSUME NEW recs, recs \subseteq Records, NEW trust \in [SystemIds -> Nat], NEW a \in Attr
    PROVE  TrustWins(a, recs, trust) = None \/ \E i \in recs : TrustWins(a, recs, trust) = From(i, a)
<1> DEFINE cands == Candidates(recs, a)
<1>1. cands \subseteq recs
  BY DEF Candidates
<1>2. CASE cands = {}
  BY <1>2 DEF TrustWins
<1>3. CASE cands # {}
  <2>1. MostTrusted(cands, trust) \in recs
    <3> HIDE DEF cands
    <3>1. QED
      BY <1>1, <1>3, MostTrustedIn
  <2>2. TrustWins(a, recs, trust) = From(MostTrusted(cands, trust), a)
    BY <1>3 DEF TrustWins
  <2>3. QED
    BY <2>1, <2>2
<1>4. QED
  BY <1>2, <1>3

LEMMA MinOwn ==
    ASSUME NEW cands, cands \subseteq Records, NEW a, Own(cands, a) # {}
    PROVE  Min(Own(cands, a)) \in cands
<1>1. Own(cands, a) \subseteq cands /\ cands \subseteq Nat
  BY DEF Own, Records
<1>2. QED
  BY <1>1, MinIn

LEMMA SystemOfRecordFrom ==
    ASSUME NEW recs, recs \subseteq Records, NEW trust \in [SystemIds -> Nat], NEW a \in Attr
    PROVE  LET s == SystemOfRecord(a, recs, trust) IN s = None \/ \E i \in recs : s = From(i, a)
<1> DEFINE cands == Candidates(recs, a)
<1>1. cands \subseteq recs
  BY DEF Candidates
<1>2. CASE Own(cands, a) # {}
  <2>1. Min(Own(cands, a)) \in recs
    <3> HIDE DEF cands
    <3>1. QED
      BY <1>1, <1>2, MinOwn
  <2>2. SystemOfRecord(a, recs, trust) = From(Min(Own(cands, a)), a)
    BY <1>2 DEF SystemOfRecord
  <2>3. QED
    BY <2>1, <2>2
<1>3. CASE Own(cands, a) = {}
  BY <1>3, TrustWinsFrom DEF SystemOfRecord
<1>4. QED
  BY <1>2, <1>3

LEMMA MostCompleteFrom ==
    ASSUME NEW recs, recs \subseteq Records, NEW trust \in [SystemIds -> Nat], NEW a \in Attr
    PROVE  LET s == MostComplete(a, recs, trust) IN s = None \/ \E i \in recs : s = From(i, a)
<1> DEFINE cands == Candidates(recs, a)
           score(i) == 1000 * Completeness(Bronze[i].attributes[a]) + trust[Bronze[i].system]
           best == {i \in cands : \A j \in cands : score(j) <= score(i)}
           key == [i \in cands |-> score(i)]
<1>1. CASE cands = {}
  BY <1>1 DEF MostComplete
<1>2. CASE cands # {}
  <2>1. cands \subseteq recs /\ cands \subseteq 1 .. Len(Bronze) /\ cands \subseteq Nat
    <3>1. cands \subseteq recs
      BY DEF Candidates
    <3> HIDE DEF cands
    <3>2. QED
      BY <3>1 DEF Records
  <2>2. \A i \in cands : key[i] = score(i) /\ score(i) \in Nat
    <3> SUFFICES ASSUME NEW i \in cands PROVE score(i) \in Nat
      OBVIOUS
    <3>1. Bronze[i].attributes[a] # NoValue /\ i \in 1 .. Len(Bronze)
      BY DEF Candidates, Records
    <3>2. Completeness(Bronze[i].attributes[a]) \in Nat
      BY <3>1, GoldenAssumption
    <3>3. trust[Bronze[i].system] \in Nat
      BY <3>1, GoldenAssumption DEF SystemIds
    <3>4. QED
      <4> DEFINE m == Completeness(Bronze[i].attributes[a])
                 t == trust[Bronze[i].system]
      <4>1. m \in Nat /\ t \in Nat
        BY <3>2, <3>3
      <4>2. score(i) = 1000 * m + t
        OBVIOUS
      <4> HIDE DEF m, t, score
      <4>3. QED
        BY <4>1, <4>2
  <2>3. \E i \in cands : \A j \in cands : key[j] <= key[i]
    <3> HIDE DEF key, cands, score
    <3>1. \A i \in cands : key[i] \in Nat
      BY <2>2
    <3>2. QED
      BY <1>2, <2>1, <3>1, GreatestKey, GoldenAssumption
  <2>4. best # {}
    <3> HIDE DEF key, cands, score
    <3>1. PICK i \in cands : \A j \in cands : key[j] <= key[i]
      BY <2>3
    <3>2. \A j \in cands : score(j) <= score(i)
      BY <2>2, <3>1
    <3>3. QED
      BY <3>2
  <2>5. best \subseteq cands
    OBVIOUS
  <2>6. MostComplete(a, recs, trust) = From(Min(best), a)
    BY <1>2 DEF MostComplete, FirstBest
  <2>7. Min(best) \in recs
    <3> HIDE DEF best, cands
    <3>1. QED
      BY <2>1, <2>4, <2>5, MinIn
  <2>8. QED
    BY <2>6, <2>7
<1>3. QED
  BY <1>1, <1>2

LEMMA NumericToleranceFrom ==
    ASSUME NEW recs, recs \subseteq Records, NEW trust \in [SystemIds -> Nat], NEW a \in Attr
    PROVE  LET s == NumericTolerance(a, recs, trust) IN s = None \/ \E i \in recs : s = From(i, a)
<1> DEFINE cands == {i \in recs : Number(Bronze[i].attributes[a]) # NoValue}
<1>1. cands \subseteq recs
  OBVIOUS
<1>2. CASE cands = {}
  BY <1>2, TrustWinsFrom DEF NumericTolerance
<1>3. CASE cands # {} /\ Own(cands, a) # {}
  <2>1. Min(Own(cands, a)) \in recs
    <3> HIDE DEF cands
    <3>1. QED
      BY <1>1, <1>3, MinOwn
  <2>2. NumericTolerance(a, recs, trust) = From(Min(Own(cands, a)), a)
    BY <1>3 DEF NumericTolerance
  <2>3. QED
    BY <2>1, <2>2
<1>4. CASE cands # {} /\ Own(cands, a) = {}
  <2>1. MostTrusted(cands, trust) \in recs
    <3> HIDE DEF cands
    <3>1. QED
      BY <1>1, <1>4, MostTrustedIn
  <2>2. NumericTolerance(a, recs, trust) = From(MostTrusted(cands, trust), a)
    BY <1>4 DEF NumericTolerance
  <2>3. QED
    BY <2>1, <2>2
<1>5. QED
  BY <1>2, <1>3, <1>4

\* Whatever the rule, an attribute's survivor is none, the rule engine's, or
\* the value that one of the records read has, with that record's system.
LEMMA DecideFrom ==
    ASSUME NEW recs, recs \subseteq Records, NEW trust \in [SystemIds -> Nat], NEW a \in Attr
    PROVE  LET s == Decide(a, recs, trust)
           IN  s = None \/ s.source = Engine \/ \E i \in recs : s = From(i, a)
<1>1. OntologyClassification(a, recs, trust).source = Engine
  BY DEF OntologyClassification, Survivor
<1>2. QED
  BY <1>1, TrustWinsFrom, SystemOfRecordFrom, MostCompleteFrom, NumericToleranceFrom DEF Decide

\* So the lineage of a golden record, taken from the records it was made of,
\* explains it.
LEMMA LineageExplains ==
    ASSUME NEW recs, recs \subseteq Records, NEW n \in 0 .. Len(SourceSystems)
    PROVE  LET g == Golden(recs, TrustOf(n)) IN Explains(LineageRows(g, recs), g)
<1> DEFINE g == Golden(recs, TrustOf(n))
           rows == LineageRows(g, recs)
<1>1. \A a \in Attr : g[a] = None \/ g[a].source = Engine \/ \E i \in recs : g[a] = From(i, a)
  BY TrustIsNat, DecideFrom DEF Golden
<1>2. /\ None.source = NoValue
      /\ \A i, a : From(i, a).source = Bronze[i].system /\ From(i, a).value = Bronze[i].attributes[a]
  BY DEF None, From, Survivor
<1> HIDE DEF g
<1>3. \A row : row \in rows <=>
        \E i \in recs, a \in Attr : row = <<Bronze[i].id, a>> /\ g[a].source = Bronze[i].system
  BY DEF LineageRows
<1> HIDE DEF rows
<1>4. ASSUME NEW row \in rows
      PROVE  \E i \in 1 .. Len(Bronze) :
                Bronze[i].id = row[1] /\ g[row[2]].source = Bronze[i].system
                                      /\ g[row[2]].value = Bronze[i].attributes[row[2]]
  <2>1. PICK i \in recs, a \in Attr : row = <<Bronze[i].id, a>> /\ g[a].source = Bronze[i].system
    BY <1>3
  <2>2. i \in 1 .. Len(Bronze) /\ Bronze[i].system \notin {NoValue, Engine}
    BY GoldenAssumption DEF Records
  <2>3. PICK j \in recs : g[a] = From(j, a)
    BY <1>1, <1>2, <2>1, <2>2
  <2>4. j = i
    <3>1. Bronze[j].system = Bronze[i].system
      BY <1>2, <2>1, <2>3
    <3>2. j \in 1 .. Len(Bronze)
      BY DEF Records
    <3>3. QED
      BY <2>2, <3>1, <3>2, GoldenAssumption
  <2>5. row[1] = Bronze[i].id /\ row[2] = a
    BY <2>1
  <2>6. QED
    BY <1>2, <2>1, <2>2, <2>3, <2>4, <2>5
<1>5. ASSUME NEW a \in Attr, g[a].source \notin {NoValue, Engine}
      PROVE  \E row \in rows : row[2] = a
  <2>1. PICK i \in recs : g[a] = From(i, a)
    BY <1>1, <1>2, <1>5
  <2>2. <<Bronze[i].id, a>> \in rows
    BY <1>2, <1>3, <2>1
  <2>3. QED
    BY <2>2
<1>6. Explains(rows, g)
  BY <1>4, <1>5 DEF Explains
<1>7. QED
  BY <1>6 DEF rows, g

-------------------------------------------------------------------------------
(* The inductive invariant: the requests                                   *)
(*                                                                         *)
(* The predicates of a request take the state they relate it to as          *)
(* parameters.                                                             *)

Pc == {"idle", "bootstrap", "seedSystems", "seedRecords", "records", "trust", "dim",
       "lineage", "node", "row", "viewLineage", "viewed"}
SeedPc == {"seedSystems", "seedRecords"}
AfterSeed == {"records", "trust", "dim", "lineage", "node", "row", "viewLineage", "viewed"}
Publisher == {"dim", "lineage", "node"}

Shaped(x) ==
    /\ x = [kind |-> x.kind, pc |-> x.pc, n |-> x.n, recs |-> x.recs, golden |-> x.golden,
            rows |-> x.rows, mixed |-> x.mixed]
    /\ x.pc \in Pc /\ x.n \in Nat /\ x.mixed \in BOOLEAN
    /\ x.pc # "idle" => x.kind \in {"view", "merge"}

\* How far a request has come with the seed's s systems and n records.
SeedsAt(x, s, n) ==
    /\ x.pc \in {"idle", "bootstrap"} => x.n = 0
    /\ x.pc = "seedSystems" => x.n <= s /\ x.n < Len(SourceSystems)
    /\ x.pc = "seedRecords" => s = Len(SourceSystems) /\ x.n <= n /\ x.n < Len(SeedOrder)
    /\ x.pc \in AfterSeed => s > 0

\* What a merge has read, and that the lineage it will publish explains what
\* it will publish.
Merges(x) ==
    /\ x.pc = "trust" => x.recs \subseteq Records
    /\ x.pc \in Publisher => Explains(LineageRows(x.golden, x.recs), x.golden)

\* A merge that was not early works on the whole cluster.
MergesWhole(x, s, g) ==
    /\ x.pc = "trust" => x.recs = Cluster(Len(SeedOrder)) /\ s = Len(SourceSystems)
    /\ x.pc \in Publisher => x.golden = Whole
    /\ x.pc \in {"lineage", "node"} => g[KeyOf(Whole)] # NoRow

\* What a view returns, or would if it read the lineage l now.
Views(x, l) ==
    /\ x.pc = "viewLineage" /\ ~x.mixed =>
        KeyOf(x.golden) \in DOMAIN l /\ Explains(l[KeyOf(x.golden)], x.golden)
    /\ x.pc = "viewed" /\ ~x.mixed => Explains(x.rows, x.golden)

Requests ==
    /\ req = [r \in Request |-> req[r]]
    /\ \A r \in Request : /\ Shaped(req[r]) /\ SeedsAt(req[r], systems, records)
                          /\ Merges(req[r]) /\ Views(req[r], lineage)
                          /\ ~early => MergesWhole(req[r], systems, gold)

Tables ==
    /\ systems \in 0 .. Len(SourceSystems) /\ records \in 0 .. Len(SeedOrder)
    /\ DOMAIN lineage = DOMAIN gold /\ KeyOf(Whole) \in DOMAIN gold
    /\ \A k \in DOMAIN gold : gold[k] # NoRow => KeyOf(gold[k]) = k
    /\ ~early => \A k \in DOMAIN node : node[k] # NoRow => node[k].pk = KeyOf(Whole)

\* While a key is being published the row is the publisher's; then the
\* lineage explains it.
Published == \A k \in DOMAIN gold \ raced : gold[k] # NoRow =>
    /\ \A o \in Publishing(k) : req[o].golden = gold[k]
    /\ Publishing(k) = {} => Explains(lineage[k], gold[k])

GoldenInv == Requests /\ Tables /\ Published /\ SeedIsWhole /\ OneGoldenRecord

-------------------------------------------------------------------------------
(* The inductive invariant: the container *)

Complete == loaded = Statements /\ Chunk \subseteq DOMAIN vector

Container ==
    /\ container \in {"down", "waiting", "sqlite", "restoring", "serving"}
    /\ mode \in Mode /\ loaded \in 0 .. Statements
    /\ restore = [pc |-> restore.pc, force |-> restore.force, todo |-> restore.todo]
    /\ restore.pc \in {"off", "check", "load", "embed"}
    /\ container \in {"down", "waiting", "sqlite"} => restore.pc = "off"
    /\ container = "serving" => loaded > 0
    /\ restore.force => container = "serving" /\ restore.pc # "off"

\* A graph without a statement of the snapshot is an empty graph.
NothingBefore == loaded = 0 => GraphIsEmpty

Restoring ==
    /\ restore.pc = "load" =>
        /\ restore.todo \subseteq 1 .. Statements
        /\ \A i \in (1 .. Statements) \ restore.todo : i <= loaded /\ ChunksAt[i] \subseteq DOMAIN vector
    /\ restore.pc = "embed" =>
        /\ Complete
        /\ \A c \in DOMAIN vector \ restore.todo : vector[c] = mode

\* Unless a boot's restore was cut short, what serves is complete, and its
\* vectors are all of one embedder, between restores and in a forced one.
WholeGraph == ~cutShort =>
    /\ container = "serving" => Complete
    /\ (restore.pc \in {"off", "check"} \/ restore.force) /\ loaded > 0 =>
        /\ Complete
        /\ \A c \in DOMAIN vector : vector[c] # NoVector /\ (switched \/ vector[c] = mode)

ContainerInv == Container /\ NothingBefore /\ Restoring /\ WholeGraph

BootInv == GoldenInv /\ ContainerInv

-------------------------------------------------------------------------------
(* The requests' steps *)

\* req' with request r replaced by x.
LEMMA Replaced ==
    ASSUME Requests, NEW r \in Request, NEW x, req' = [req EXCEPT ![r] = x]
    PROVE  /\ req' = [o \in Request |-> req'[o]] /\ req'[r] = x
           /\ \A o \in Request : o # r => req'[o] = req[o]
  BY DEF Requests

\* A step of one request that publishes nothing and uncovers nothing.
LEMMA QuietStep ==
    ASSUME GoldenInv, NEW r \in Request, NEW x, req' = [req EXCEPT ![r] = x], Shaped(x),
           req[r].pc # "lineage", x.pc # "lineage",
           systems' \in 0 .. Len(SourceSystems), systems <= systems',
           records' \in 0 .. Len(SeedOrder), records <= records',
           SeedsAt(x, systems', records'), Merges(x), Views(x, lineage),
           early => early', ~early' => MergesWhole(x, systems', gold),
           UNCHANGED <<gold, lineage, raced, node, seedCut>>,
           \/ UNCHANGED <<systems, records>> /\ (req[r].pc \in SeedPc => x.pc \in SeedPc)
           \/ x.pc \in SeedPc
           \/ systems' = Len(SourceSystems) /\ records' = Len(SeedOrder)
    PROVE  GoldenInv'
<1>1. /\ req' = [o \in Request |-> req'[o]] /\ req'[r] = x
      /\ \A o \in Request : o # r => req'[o] = req[o]
  BY Replaced DEF GoldenInv
<1>2. /\ systems \in Nat /\ records \in Nat /\ systems' \in Nat /\ records' \in Nat
      /\ Len(SourceSystems) \in Nat /\ Len(SeedOrder) \in Nat
      /\ systems <= Len(SourceSystems) /\ systems' <= Len(SourceSystems)
  BY GoldenAssumption DEF GoldenInv, Tables
<1>3. Requests'
  <2>1. ASSUME NEW o \in Request
        PROVE  /\ Shaped(req'[o]) /\ SeedsAt(req'[o], systems', records')
               /\ Merges(req'[o]) /\ Views(req'[o], lineage)
               /\ ~early' => MergesWhole(req'[o], systems', gold)
    <3>1. CASE o = r
      BY <1>1, <3>1
    <3>2. CASE o # r
      <4>1. req'[o] = req[o]
        BY <1>1, <3>2
      <4>2. Shaped(req[o]) /\ Merges(req[o]) /\ Views(req[o], lineage)
        BY DEF GoldenInv, Requests
      <4>3. SeedsAt(req[o], systems', records')
        <5>1. SeedsAt(req[o], systems, records) /\ req[o].n \in Nat
          BY DEF GoldenInv, Requests, Shaped
        <5>2. QED
          BY <1>2, <5>1 DEF SeedsAt
      <4>4. ~early' => MergesWhole(req[o], systems', gold)
        <5>1. ~early' => MergesWhole(req[o], systems, gold)
          BY DEF GoldenInv, Requests
        <5>2. QED
          BY <1>2, <5>1 DEF MergesWhole
      <4>5. QED
        BY <4>1, <4>2, <4>3, <4>4
    <3>3. QED
      BY <3>1, <3>2
  <2>2. QED
    BY <1>1, <2>1 DEF Requests
<1>4. Tables'
  BY DEF GoldenInv, Tables
<1>5. \A k \in DOMAIN gold : Publishing(k)' = Publishing(k)
  BY <1>1 DEF Publishing, Key
<1>6. Published'
  <2>1. \A k \in DOMAIN gold : \A o \in Publishing(k) : req'[o] = req[o]
    BY <1>1 DEF Publishing
  <2>2. QED
    BY <1>5, <2>1 DEF GoldenInv, Published
<1>7. SeedIsWhole'
  BY <1>1, <1>2 DEF GoldenInv, SeedIsWhole, Seeding, SeedPc
<1>8. OneGoldenRecord'
  BY DEF GoldenInv, OneGoldenRecord
<1>9. QED
  BY <1>3, <1>4, <1>6, <1>7, <1>8 DEF GoldenInv

\* A step that changes only the request.
LEMMA RequestStep ==
    ASSUME GoldenInv, NEW r \in Request, NEW x, req' = [req EXCEPT ![r] = x], Shaped(x),
           req[r].pc # "lineage", x.pc # "lineage", req[r].pc \in SeedPc => x.pc \in SeedPc,
           SeedsAt(x, systems, records), Merges(x), Views(x, lineage),
           early => early', ~early' => MergesWhole(x, systems, gold),
           UNCHANGED <<lakehouse, node, seedCut, raced>>
    PROVE  GoldenInv'
<1>1. UNCHANGED <<systems, records, gold, lineage, raced, node, seedCut>>
  BY DEF lakehouse
<1>2. /\ systems' \in 0 .. Len(SourceSystems) /\ systems <= systems'
      /\ records' \in 0 .. Len(SeedOrder) /\ records <= records'
  <2>1. systems \in 0 .. Len(SourceSystems) /\ records \in 0 .. Len(SeedOrder)
    BY DEF GoldenInv, Tables
  <2>2. QED
    BY <1>1, <2>1
<1>3. SeedsAt(x, systems', records') /\ (~early' => MergesWhole(x, systems', gold))
  BY <1>1
<1>4. QED
  BY <1>1, <1>2, <1>3, QuietStep

\* What is asked of merges and views asks nothing before the seed is in.
LEMMA BeforeSeed ==
    ASSUME NEW x, x.pc \notin AfterSeed
    PROVE  Merges(x) /\ \A l, s, g : Views(x, l) /\ MergesWhole(x, s, g)
  BY DEF AfterSeed, Merges, Publisher, Views, MergesWhole

LEMMA IsShaped ==
    ASSUME NEW kind \in {"view", "merge"}, NEW pc \in Pc, NEW n \in Nat,
           NEW recs, NEW golden, NEW rows, NEW mixed \in BOOLEAN
    PROVE  Shaped([kind |-> kind, pc |-> pc, n |-> n, recs |-> recs, golden |-> golden,
                   rows |-> rows, mixed |-> mixed])
  BY DEF Shaped

LEMMA IdleIs ==
    /\ Shaped(Idle) /\ Idle.pc = "idle" /\ Merges(Idle)
    /\ \A l, s, n, g : Views(Idle, l) /\ MergesWhole(Idle, s, g) /\ SeedsAt(Idle, s, n)
<1>1. Shaped(Idle) /\ Idle.pc = "idle" /\ Idle.n = 0
  BY DEF Shaped, Idle, Pc
<1>2. QED
  BY <1>1, BeforeSeed DEF SeedsAt, AfterSeed

LEMMA ConnectKeeps == ASSUME GoldenInv, NEW r \in Request, Connect(r) PROVE GoldenInv'
<1> DEFINE q == req[r]
<1>1. PICK kind \in {"view", "merge"} :
        req' = [req EXCEPT ![r].kind = kind, ![r].pc = "bootstrap"]
  BY DEF Connect
<1> DEFINE x == [kind |-> kind, pc |-> "bootstrap", n |-> q.n, recs |-> q.recs,
                 golden |-> q.golden, rows |-> q.rows, mixed |-> q.mixed]
<1>2. Shaped(q) /\ q.n = 0 /\ q.pc = "idle" /\ q.mixed \in BOOLEAN
  BY DEF GoldenInv, Requests, Connect, SeedsAt, Shaped
<1>3. req' = [req EXCEPT ![r] = x]
  <2>1. req' = [req EXCEPT ![r] = [q EXCEPT !.kind = kind, !.pc = "bootstrap"]]
    BY <1>1
  <2>2. PICK z : z = [q EXCEPT !.kind = kind, !.pc = "bootstrap"]
    OBVIOUS
  <2>3. z = x
    BY <1>2, <2>2 DEF Shaped
  <2>4. QED
    BY <2>1, <2>2, <2>3
<1>4. Shaped(x) /\ x.pc = "bootstrap" /\ x.n = 0
  BY <1>2, IsShaped DEF Pc
<1> HIDE DEF x
<1>5. SeedsAt(x, systems, records) /\ x.pc \notin AfterSeed
  BY <1>4 DEF SeedsAt, AfterSeed
<1>6. UNCHANGED <<lakehouse, node, seedCut, raced, early>>
  BY DEF Connect, history
<1>7. QED
  BY <1>2, <1>3, <1>4, <1>5, <1>6, RequestStep, BeforeSeed DEF SeedPc

LEMMA BootstrapKeeps == ASSUME GoldenInv, NEW r \in Request, Bootstrap(r) PROVE GoldenInv'
<1> DEFINE q == req[r]
           pc == IF systems = 0 THEN "seedSystems" ELSE Served[q.kind]
           x == [kind |-> q.kind, pc |-> pc, n |-> q.n, recs |-> q.recs,
                 golden |-> q.golden, rows |-> q.rows, mixed |-> q.mixed]
<1>1. Shaped(q) /\ q.n = 0 /\ q.pc = "bootstrap" /\ q.kind \in {"view", "merge"}
      /\ q.mixed \in BOOLEAN
  BY DEF GoldenInv, Requests, Bootstrap, SeedsAt, Shaped
<1>2. (pc \in {"row", "records"} /\ systems > 0) \/ pc = "seedSystems"
  BY <1>1, GoldenAssumption DEF Served, GoldenInv, Tables
<1> HIDE DEF pc
<1>3. req' = [req EXCEPT ![r] = x]
  <2>1. req' = [req EXCEPT ![r] = [q EXCEPT !.pc = pc]]
    BY DEF Bootstrap, Goto, pc
  <2>2. [q EXCEPT !.pc = pc] = x
    BY <1>1 DEF Shaped
  <2>3. QED
    BY <2>1, <2>2
<1>4. Shaped(x) /\ x.pc = pc /\ x.n = 0
  BY <1>1, <1>2, IsShaped DEF Pc
<1> HIDE DEF x
<1>5. SeedsAt(x, systems, records) /\ Merges(x) /\ Views(x, lineage) /\ MergesWhole(x, systems, gold)
  <2>1. systems \in Nat /\ Len(SourceSystems) \in Nat \ {0}
    BY GoldenAssumption DEF GoldenInv, Tables
  <2>2. SeedsAt(x, systems, records)
    <3>1. CASE pc \in {"row", "records"} /\ systems > 0
      BY <1>4, <2>1, <3>1 DEF SeedsAt
    <3>2. CASE pc = "seedSystems"
      BY <1>4, <2>1, <3>2 DEF SeedsAt, AfterSeed
    <3>3. QED
      BY <1>2, <3>1, <3>2
  <2>3. x.pc \notin {"trust", "viewLineage", "viewed"} \cup Publisher
    BY <1>2, <1>4 DEF Publisher
  <2>4. QED
    BY <2>2, <2>3 DEF Merges, Publisher, Views, MergesWhole
<1>6. UNCHANGED <<lakehouse, node, seedCut, raced, early>>
  BY DEF Bootstrap, history
<1>7. x.pc # "lineage" /\ q.pc # "lineage" /\ q.pc \notin SeedPc
  BY <1>1, <1>2, <1>4 DEF SeedPc
<1>8. QED
  BY <1>3, <1>4, <1>5, <1>6, <1>7, RequestStep

\* Request q at pc, its loop at n.
At(q, pc, n) == [kind |-> q.kind, pc |-> pc, n |-> n, recs |-> q.recs, golden |-> q.golden,
                 rows |-> q.rows, mixed |-> q.mixed]

LEMMA AtIs ==
    ASSUME NEW q, Shaped(q), NEW z, NEW pc, NEW n
    PROVE  /\ z = [q EXCEPT !.n = n] => z = At(q, q.pc, n)
           /\ z = [q EXCEPT !.pc = pc] => z = At(q, pc, q.n)
  BY DEF Shaped, At

LEMMA AtShaped ==
    ASSUME NEW q, Shaped(q), q.pc # "idle", NEW pc \in Pc, NEW n \in Nat
    PROVE  LET x == At(q, pc, n)
           IN  /\ Shaped(x) /\ x.pc = pc /\ x.n = n /\ x.recs = q.recs
               /\ x.golden = q.golden /\ x.rows = q.rows /\ x.mixed = q.mixed
<1>1. q.kind \in {"view", "merge"} /\ q.mixed \in BOOLEAN
  BY DEF Shaped
<1>2. Shaped(At(q, pc, n))
  BY <1>1, IsShaped DEF At
<1>3. QED
  BY <1>2 DEF At

LEMMA SeedSystemKeeps == ASSUME GoldenInv, NEW r \in Request, SeedSystem(r) PROVE GoldenInv'
<1> DEFINE q == req[r]
           n == IF q.n + 1 = Len(SourceSystems) THEN 0 ELSE q.n + 1
           pc == IF q.n + 1 = Len(SourceSystems) THEN "seedRecords" ELSE "seedSystems"
           x == At(q, pc, n)
<1>1. Shaped(q) /\ q.pc = "seedSystems" /\ q.n \in Nat /\ q.n <= systems /\ q.n < Len(SourceSystems)
  BY DEF GoldenInv, Requests, SeedSystem, SeedsAt, Shaped
<1>2. /\ systems \in Nat /\ systems <= Len(SourceSystems) /\ records \in 0 .. Len(SeedOrder)
      /\ Len(SourceSystems) \in Nat /\ Len(SeedOrder) \in Nat \ {0}
  BY GoldenAssumption DEF GoldenInv, Tables
<1>3. req' = [req EXCEPT ![r] = x]
  <2>1. PICK z : /\ req' = [req EXCEPT ![r] = z]
                 /\ \/ q.n + 1 = Len(SourceSystems) /\ z = [q EXCEPT !.n = 0, !.pc = "seedRecords"]
                    \/ q.n + 1 # Len(SourceSystems) /\ z = [q EXCEPT !.n = q.n + 1]
    BY DEF SeedSystem
  <2>2. CASE q.n + 1 = Len(SourceSystems)
    <3>1. z = At(q, "seedRecords", 0)
      BY <1>1, <2>1, <2>2 DEF Shaped, At
    <3>2. QED
      BY <2>1, <2>2, <3>1
  <2>3. CASE q.n + 1 # Len(SourceSystems)
    <3>1. z = At(q, q.pc, q.n + 1)
      BY <1>1, <2>1, <2>3, AtIs
    <3>2. QED
      BY <1>1, <2>1, <2>3, <3>1
  <2>4. QED
    BY <2>2, <2>3
<1>4. /\ n \in Nat /\ pc \in SeedPc /\ pc \in Pc
      /\ pc = "seedSystems" => n = q.n + 1 /\ n < Len(SourceSystems)
      /\ pc = "seedRecords" => n = 0 /\ q.n + 1 = Len(SourceSystems)
  BY <1>1, <1>2 DEF SeedPc, Pc
<1>5. /\ systems' \in Nat /\ systems <= systems' /\ q.n + 1 <= systems'
      /\ systems' <= Len(SourceSystems)
  <2>1. systems' = IF q.n + 1 <= systems THEN systems ELSE q.n + 1
    BY <1>1, <1>2, MaxOfTwo DEF SeedSystem
  <2>2. QED
    BY <1>1, <1>2, <2>1
<1> HIDE DEF n, pc
<1>6. Shaped(x) /\ x.pc = pc /\ x.n = n
  BY <1>1, <1>4, AtShaped
<1> HIDE DEF x
<1>7. SeedsAt(x, systems', records)
  BY <1>1, <1>2, <1>4, <1>5, <1>6 DEF SeedsAt, AfterSeed, SeedPc
<1>8. x.pc \notin AfterSeed /\ x.pc \in SeedPc /\ x.pc # "lineage" /\ q.pc # "lineage"
  BY <1>1, <1>4, <1>6 DEF AfterSeed, SeedPc
<1>9. UNCHANGED <<records, gold, lineage, raced, node, seedCut, early>>
  BY DEF SeedSystem, history
<1>10. records' \in 0 .. Len(SeedOrder) /\ records <= records' /\ SeedsAt(x, systems', records')
  BY <1>2, <1>7, <1>9
<1>11. systems' \in 0 .. Len(SourceSystems)
  BY <1>2, <1>5
<1>12. QED
  BY <1>3, <1>5, <1>6, <1>8, <1>9, <1>10, <1>11, QuietStep, BeforeSeed

LEMMA SeedRecordKeeps == ASSUME GoldenInv, NEW r \in Request, SeedRecord(r) PROVE GoldenInv'
<1> DEFINE q == req[r]
           last == q.n + 1 = Len(SeedOrder)
           n == IF last THEN q.n ELSE q.n + 1
           pc == IF last THEN Served[q.kind] ELSE "seedRecords"
           x == At(q, pc, n)
<1>1. /\ Shaped(q) /\ q.pc = "seedRecords" /\ q.n \in Nat /\ q.n <= records /\ q.n < Len(SeedOrder)
      /\ systems = Len(SourceSystems) /\ q.kind \in {"view", "merge"}
  BY DEF GoldenInv, Requests, SeedRecord, SeedsAt, Shaped
<1>2. /\ systems \in 0 .. Len(SourceSystems) /\ systems > 0
      /\ records \in Nat /\ records <= Len(SeedOrder)
      /\ Len(SourceSystems) \in Nat /\ Len(SeedOrder) \in Nat \ {0}
  BY <1>1, GoldenAssumption DEF GoldenInv, Tables
<1>3. req' = [req EXCEPT ![r] = x]
  <2>1. CASE last
    <3>1. PICK z : req' = [req EXCEPT ![r] = z] /\ z = [q EXCEPT !.pc = Served[q.kind]]
      BY <2>1 DEF SeedRecord
    <3>2. z = At(q, Served[q.kind], q.n)
      BY <1>1, <3>1, AtIs
    <3>3. QED
      BY <2>1, <3>1, <3>2
  <2>2. CASE ~last
    <3>1. PICK z : req' = [req EXCEPT ![r] = z] /\ z = [q EXCEPT !.n = q.n + 1]
      BY <2>2 DEF SeedRecord
    <3>2. z = At(q, q.pc, q.n + 1)
      BY <1>1, <3>1, AtIs
    <3>3. QED
      BY <1>1, <2>2, <3>1, <3>2
  <2>3. QED
    BY <2>1, <2>2
<1>4. /\ n \in Nat /\ pc \in Pc
      /\ last => pc \in {"row", "records"}
      /\ ~last => pc = "seedRecords" /\ n = q.n + 1 /\ n < Len(SeedOrder)
  BY <1>1, <1>2 DEF Served, Pc
<1>5. /\ records' \in Nat /\ records <= records' /\ q.n + 1 <= records'
      /\ records' <= Len(SeedOrder)
  <2>1. records' = IF q.n + 1 <= records THEN records ELSE q.n + 1
    BY <1>1, <1>2, MaxOfTwo DEF SeedRecord
  <2>2. QED
    BY <1>1, <1>2, <2>1
<1>6. last => records' = Len(SeedOrder)
  BY <1>2, <1>5
<1> HIDE DEF n, pc, last
<1>7. Shaped(x) /\ x.pc = pc /\ x.n = n
  BY <1>1, <1>4, AtShaped
<1> HIDE DEF x
<1>8. UNCHANGED <<systems, gold, lineage, raced, node, seedCut, early>>
  BY DEF SeedRecord, history
<1>9. SeedsAt(x, systems', records')
  <2>1. CASE last
    BY <1>2, <1>4, <1>7, <1>8, <2>1 DEF SeedsAt
  <2>2. CASE ~last
    BY <1>1, <1>4, <1>5, <1>7, <1>8, <2>2 DEF SeedsAt, AfterSeed
  <2>3. QED
    BY <2>1, <2>2
<1>10. Merges(x) /\ Views(x, lineage) /\ MergesWhole(x, systems', gold)
  <2>1. x.pc \notin {"trust", "viewLineage", "viewed"} \cup Publisher
    BY <1>4, <1>7 DEF Publisher
  <2>2. QED
    BY <2>1 DEF Merges, Publisher, Views, MergesWhole
<1>11. /\ x.pc # "lineage" /\ q.pc # "lineage"
       /\ \/ x.pc \in SeedPc
          \/ systems' = Len(SourceSystems) /\ records' = Len(SeedOrder)
  <2>1. CASE last
    BY <1>1, <1>4, <1>6, <1>7, <1>8, <2>1
  <2>2. CASE ~last
    BY <1>1, <1>4, <1>7, <2>2 DEF SeedPc
  <2>3. QED
    BY <2>1, <2>2
<1>12. /\ systems' \in 0 .. Len(SourceSystems) /\ systems <= systems'
       /\ records' \in 0 .. Len(SeedOrder) /\ records <= records'
  BY <1>2, <1>5, <1>8
<1>13. QED
  BY <1>3, <1>7, <1>8, <1>9, <1>10, <1>11, <1>12, QuietStep

LEMMA ReadRecordsKeeps == ASSUME GoldenInv, NEW r \in Request, ReadRecords(r) PROVE GoldenInv'
<1> DEFINE q == req[r]
           x == [kind |-> q.kind, pc |-> "trust", n |-> q.n, recs |-> Cluster(records),
                 golden |-> q.golden, rows |-> q.rows, mixed |-> q.mixed]
<1>1. Shaped(q) /\ q.pc = "records" /\ systems > 0
  BY DEF GoldenInv, Requests, ReadRecords, SeedsAt, AfterSeed
<1>2. req' = [req EXCEPT ![r] = x]
  <2>1. PICK z : req' = [req EXCEPT ![r] = z] /\ z = [q EXCEPT !.recs = Cluster(records), !.pc = "trust"]
    BY DEF ReadRecords
  <2>2. z = x
    BY <1>1, <2>1 DEF Shaped
  <2>3. QED
    BY <2>1, <2>2
<1>3. Shaped(x) /\ x.pc = "trust" /\ x.recs = Cluster(records)
  BY <1>1, IsShaped DEF Shaped, Pc
<1> HIDE DEF x
<1>4. SeedsAt(x, systems, records) /\ Views(x, lineage)
  BY <1>1, <1>3 DEF SeedsAt, Views
<1>5. Merges(x)
  <2>1. Cluster(records) \subseteq Records
    BY GoldenAssumption DEF Cluster, Records, GoldenInv, Tables
  <2>2. QED
    BY <1>3, <2>1 DEF Merges, Publisher
<1>6. ~early' => MergesWhole(x, systems, gold)
  <2>1. SUFFICES ASSUME ~early' PROVE MergesWhole(x, systems, gold)
    OBVIOUS
  <2>2. ~seedCut /\ \A o \in Request : ~Seeding(o)
    BY <2>1 DEF ReadRecords
  <2>3. systems = Len(SourceSystems) /\ records = Len(SeedOrder)
    BY <1>1, <2>2 DEF GoldenInv, SeedIsWhole
  <2>4. QED
    BY <1>3, <2>3 DEF MergesWhole, Publisher
<1>7. UNCHANGED <<lakehouse, node, seedCut, raced>> /\ (early => early')
  BY DEF ReadRecords
<1>8. q.pc # "lineage" /\ q.pc \notin SeedPc /\ x.pc # "lineage"
  BY <1>1, <1>3 DEF SeedPc
<1>9. QED
  BY <1>2, <1>3, <1>4, <1>5, <1>6, <1>7, <1>8, RequestStep

LEMMA ReadTrustKeeps == ASSUME GoldenInv, NEW r \in Request, ReadTrust(r) PROVE GoldenInv'
<1> DEFINE q == req[r]
           g == Golden(q.recs, TrustOf(systems))
           x == [kind |-> q.kind, pc |-> "dim", n |-> q.n, recs |-> q.recs,
                 golden |-> g, rows |-> q.rows, mixed |-> q.mixed]
<1>1. Shaped(q) /\ q.pc = "trust" /\ q.recs \subseteq Records /\ systems \in 0 .. Len(SourceSystems)
  BY DEF GoldenInv, Requests, Tables, ReadTrust, Merges
<1>2. Explains(LineageRows(g, q.recs), g)
  BY <1>1, LineageExplains
<1>3. ~early => g = Whole
  BY <1>1 DEF GoldenInv, Requests, MergesWhole, Whole
<1>4. systems > 0
  BY <1>1 DEF GoldenInv, Requests, SeedsAt, AfterSeed
<1>5. PICK z : req' = [req EXCEPT ![r] = z] /\ z = [q EXCEPT !.golden = g, !.pc = "dim"]
  BY DEF ReadTrust
<1> HIDE DEF g
<1>6. z = x
  BY <1>1, <1>5 DEF Shaped
<1>7. Shaped(x) /\ x.pc = "dim" /\ x.recs = q.recs /\ x.golden = g
  BY <1>1, IsShaped DEF Shaped, Pc
<1> HIDE DEF x
<1>8. SeedsAt(x, systems, records) /\ Views(x, lineage) /\ Merges(x)
  BY <1>2, <1>4, <1>7 DEF SeedsAt, Views, Merges
<1>9. ~early => MergesWhole(x, systems, gold)
  BY <1>3, <1>7 DEF MergesWhole
<1>10. UNCHANGED <<lakehouse, node, seedCut, raced, early>>
  BY DEF ReadTrust, history
<1>11. q.pc # "lineage" /\ q.pc \notin SeedPc /\ x.pc # "lineage"
  BY <1>1, <1>7 DEF SeedPc
<1>12. QED
  BY <1>5, <1>6, <1>7, <1>8, <1>9, <1>10, <1>11, RequestStep

\* A request that ends.
LEMMA EndKeeps ==
    ASSUME GoldenInv, NEW r \in Request, req[r].pc # "lineage", req[r].pc \notin SeedPc,
           req' = [req EXCEPT ![r] = Idle], UNCHANGED <<lakehouse, node, seedCut, raced, early>>
    PROVE  GoldenInv'
<1>1. Shaped(Idle) /\ Idle.pc = "idle" /\ Merges(Idle)
  BY IdleIs
<1>2. Views(Idle, lineage) /\ MergesWhole(Idle, systems, gold) /\ SeedsAt(Idle, systems, records)
  BY IdleIs
<1>3. QED
  BY <1>1, <1>2, RequestStep

LEMMA ViewRowKeeps == ASSUME GoldenInv, NEW r \in Request, ViewRow(r) PROVE GoldenInv'
<1> DEFINE q == req[r]
<1>1. Shaped(q) /\ q.pc = "row" /\ systems > 0
  BY DEF GoldenInv, Requests, ViewRow, SeedsAt, AfterSeed
<1>2. UNCHANGED <<lakehouse, node, seedCut, raced, early>>
  BY DEF ViewRow, history
<1>3. q.pc # "lineage" /\ q.pc \notin SeedPc
  BY <1>1 DEF SeedPc
<1>4. PICK k \in DOMAIN gold :
        req' = IF gold[k] = NoRow THEN [req EXCEPT ![r] = Idle]
               ELSE [req EXCEPT ![r].golden = gold[k], ![r].pc = "viewLineage",
                                ![r].mixed = k \in raced \/ Publishing(k) # {}]
  BY DEF ViewRow
<1>5. CASE gold[k] = NoRow
  BY <1>2, <1>3, <1>4, <1>5, EndKeeps
<1>6. CASE gold[k] # NoRow
  <2> DEFINE m == k \in raced \/ Publishing(k) # {}
             x == [kind |-> q.kind, pc |-> "viewLineage", n |-> q.n, recs |-> q.recs,
                   golden |-> gold[k], rows |-> q.rows, mixed |-> m]
  <2>1. PICK z : /\ req' = [req EXCEPT ![r] = z]
                 /\ z = [q EXCEPT !.golden = gold[k], !.pc = "viewLineage", !.mixed = m]
    BY <1>4, <1>6
  <2>2. ~m => Explains(lineage[k], gold[k])
    BY <1>6 DEF GoldenInv, Published
  <2>3. KeyOf(gold[k]) = k /\ k \in DOMAIN lineage /\ m \in BOOLEAN
    BY <1>6 DEF GoldenInv, Tables
  <2> HIDE DEF m
  <2>4. z = x
    BY <1>1, <2>1 DEF Shaped
  <2>5. Shaped(x) /\ x.pc = "viewLineage" /\ x.golden = gold[k] /\ x.mixed = m
    BY <1>1, <2>3, IsShaped DEF Shaped, Pc
  <2> HIDE DEF x
  <2>6. SeedsAt(x, systems, records) /\ Views(x, lineage)
    BY <1>1, <2>2, <2>3, <2>5 DEF SeedsAt, Views
  <2>7. Merges(x) /\ MergesWhole(x, systems, gold) /\ x.pc # "lineage"
    BY <2>5 DEF Merges, MergesWhole, Publisher
  <2>8. QED
    BY <1>2, <1>3, <2>1, <2>4, <2>5, <2>6, <2>7, RequestStep
<1>7. QED
  BY <1>5, <1>6

LEMMA ViewLineageKeeps == ASSUME GoldenInv, NEW r \in Request, ViewLineage(r) PROVE GoldenInv'
<1> DEFINE q == req[r]
           rows == lineage[Key(r)]
           x == [kind |-> q.kind, pc |-> "viewed", n |-> q.n, recs |-> q.recs,
                 golden |-> q.golden, rows |-> rows, mixed |-> q.mixed]
<1>1. Shaped(q) /\ q.pc = "viewLineage" /\ systems > 0
  BY DEF GoldenInv, Requests, ViewLineage, SeedsAt, AfterSeed
<1>2. ~q.mixed => Explains(rows, q.golden)
  BY <1>1 DEF GoldenInv, Requests, Views, Key
<1>3. PICK z : req' = [req EXCEPT ![r] = z] /\ z = [q EXCEPT !.rows = rows, !.pc = "viewed"]
  BY DEF ViewLineage
<1> HIDE DEF rows
<1>4. z = x
  BY <1>1, <1>3 DEF Shaped
<1>5. Shaped(x) /\ x.pc = "viewed" /\ x.golden = q.golden /\ x.mixed = q.mixed /\ x.rows = rows
  BY <1>1, IsShaped DEF Shaped, Pc
<1> HIDE DEF x
<1>6. SeedsAt(x, systems, records) /\ Views(x, lineage)
  BY <1>1, <1>2, <1>5 DEF SeedsAt, Views
<1>7. Merges(x) /\ MergesWhole(x, systems, gold) /\ x.pc # "lineage"
  BY <1>5 DEF Merges, MergesWhole, Publisher
<1>8. UNCHANGED <<lakehouse, node, seedCut, raced, early>> /\ q.pc # "lineage" /\ q.pc \notin SeedPc
  BY <1>1 DEF ViewLineage, history, SeedPc
<1>9. QED
  BY <1>3, <1>4, <1>5, <1>6, <1>7, <1>8, RequestStep

\* What a publication does to the requests: r goes on to p, and views of the
\* key k that are between their reads are mixed.
Publishes(r, p, k) ==
    /\ req' = [o \in Request |-> req'[o]]
    /\ \A o \in Request :
        /\ Shaped(req'[o])
        /\ req'[o].pc = IF o = r THEN p ELSE req[o].pc
        /\ req'[o].n = req[o].n /\ req'[o].recs = req[o].recs
        /\ req'[o].golden = req[o].golden /\ req'[o].rows = req[o].rows
        /\ o # r => req'[o].mixed = \/ req[o].mixed
                                    \/ req[o].pc = "viewLineage" /\ KeyOf(req[o].golden) = k

LEMMA MixingIs ==
    ASSUME Requests, NEW r \in Request, NEW p \in {"lineage", "node"}, NEW k,
           req[r].pc # "idle", req' = Mixing(k, [req EXCEPT ![r].pc = p])
    PROVE  Publishes(r, p, k)
<1> DEFINE new == [req EXCEPT ![r].pc = p]
<1>1. req' = [o \in Request |->
                IF new[o].pc = "viewLineage" /\ KeyOf(new[o].golden) = k
                THEN [new[o] EXCEPT !.mixed = TRUE] ELSE new[o]]
  BY DEF Mixing
<1>2. \A o \in Request : Shaped(req[o]) /\ req[o].mixed \in BOOLEAN
  BY DEF Requests, Shaped
<1>3. new[r] = At(req[r], p, req[r].n) /\ \A o \in Request : o # r => new[o] = req[o]
  <2>1. PICK z : req[r] = req[r] /\ new[r] = z /\ z = [req[r] EXCEPT !.pc = p]
    BY DEF Requests
  <2>2. z = At(req[r], p, req[r].n)
    BY <1>2, <2>1, AtIs
  <2>3. \A o \in Request : o # r => new[o] = req[o]
    BY DEF Requests
  <2>4. QED
    BY <2>1, <2>2, <2>3
<1> HIDE DEF new
<1>4. /\ Shaped(req'[r]) /\ req'[r].pc = p /\ req'[r].n = req[r].n /\ req'[r].recs = req[r].recs
      /\ req'[r].golden = req[r].golden /\ req'[r].rows = req[r].rows
  <2>1. p \in Pc /\ p # "viewLineage" /\ req[r].n \in Nat /\ Shaped(req[r])
    BY <1>2 DEF Pc, Shaped
  <2>2. /\ Shaped(new[r]) /\ new[r].pc = p /\ new[r].n = req[r].n /\ new[r].recs = req[r].recs
        /\ new[r].golden = req[r].golden /\ new[r].rows = req[r].rows
    BY <1>3, <2>1, AtShaped
  <2>3. req'[r] = new[r]
    BY <1>1, <2>1, <2>2
  <2>4. QED
    BY <2>2, <2>3
<1>5. ASSUME NEW o \in Request, o # r
      PROVE  /\ Shaped(req'[o]) /\ req'[o].pc = req[o].pc
             /\ req'[o].n = req[o].n /\ req'[o].recs = req[o].recs
             /\ req'[o].golden = req[o].golden /\ req'[o].rows = req[o].rows
             /\ req'[o].mixed = \/ req[o].mixed
                                \/ req[o].pc = "viewLineage" /\ KeyOf(req[o].golden) = k
  <2> DEFINE q == req[o]
  <2>1. req'[o] = IF q.pc = "viewLineage" /\ KeyOf(q.golden) = k
                  THEN [q EXCEPT !.mixed = TRUE] ELSE q
    BY <1>1, <1>3, <1>5
  <2>2. Shaped(q)
    BY <1>2
  <2>3. CASE q.pc = "viewLineage" /\ KeyOf(q.golden) = k
    <3>1. req'[o] = [kind |-> q.kind, pc |-> q.pc, n |-> q.n, recs |-> q.recs,
                     golden |-> q.golden, rows |-> q.rows, mixed |-> TRUE]
      BY <2>1, <2>2, <2>3 DEF Shaped
    <3>2. q.kind \in {"view", "merge"} /\ q.pc \in Pc /\ q.n \in Nat
      BY <2>2, <2>3 DEF Shaped
    <3>3. Shaped(req'[o])
      BY <3>1, <3>2, IsShaped
    <3>4. /\ req'[o].pc = q.pc /\ req'[o].n = q.n /\ req'[o].recs = q.recs
          /\ req'[o].golden = q.golden /\ req'[o].rows = q.rows /\ req'[o].mixed = TRUE
      BY <3>1
    <3>5. QED
      BY <2>3, <3>3, <3>4
  <2>4. CASE ~(q.pc = "viewLineage" /\ KeyOf(q.golden) = k)
    BY <1>2, <2>1, <2>2, <2>4
  <2>5. QED
    BY <2>3, <2>4
<1>6. req' = [o \in Request |-> req'[o]]
  BY <1>1
<1>7. QED
  BY <1>4, <1>5, <1>6 DEF Publishes

LEMMA WholeIsARow == Whole # NoRow
<1>1. DOMAIN Whole = Attr /\ Attr # {}
  BY GoldenAssumption DEF Whole, Golden
<1>2. DOMAIN NoRow = {}
  BY DEF NoRow
<1>3. QED
  BY <1>1, <1>2

\* A publication keeps what holds of every request: of the lineage only the
\* rows of k may differ, and the whole cluster's row must be there after it.
LEMMA PublishesKeeps ==
    ASSUME GoldenInv, NEW r \in Request, NEW p \in {"lineage", "node"}, NEW k,
           req[r].pc \in {"dim", "lineage"}, Publishes(r, p, k), NEW o \in Request,
           NEW l, DOMAIN l = DOMAIN lineage, \A j \in DOMAIN l : j # k => l[j] = lineage[j],
           NEW g, ~early => g[KeyOf(Whole)] # NoRow
    PROVE  /\ Shaped(req'[o]) /\ SeedsAt(req'[o], systems, records)
           /\ Merges(req'[o]) /\ Views(req'[o], l)
           /\ ~early => MergesWhole(req'[o], systems, g)
           /\ req'[o].pc \in SeedPc <=> req[o].pc \in SeedPc
<1> DEFINE q == req[o]
           y == req'[o]
<1>1. /\ Shaped(q) /\ SeedsAt(q, systems, records) /\ Merges(q) /\ Views(q, lineage)
      /\ ~early => MergesWhole(q, systems, gold)
  BY DEF GoldenInv, Requests
<1>2. /\ Shaped(y) /\ y.pc = IF o = r THEN p ELSE q.pc
      /\ y.n = q.n /\ y.recs = q.recs /\ y.golden = q.golden /\ y.rows = q.rows
      /\ o # r => y.mixed = \/ q.mixed
                            \/ q.pc = "viewLineage" /\ KeyOf(q.golden) = k
  BY DEF Publishes
<1>3. o = r => q.pc \in {"dim", "lineage"}
  OBVIOUS
<1> HIDE DEF q, y
<1>4. CASE o = r
  <2>1. q.pc \in {"dim", "lineage"} /\ y.pc \in {"lineage", "node"}
    BY <1>2, <1>3, <1>4
  <2>2. SeedsAt(y, systems, records)
    BY <1>1, <2>1 DEF SeedsAt, AfterSeed
  <2>3. Merges(y) /\ Views(y, l)
    BY <1>1, <1>2, <2>1 DEF Merges, Publisher, Views
  <2>4. ~early => MergesWhole(y, systems, g)
    BY <1>1, <1>2, <2>1 DEF MergesWhole, Publisher
  <2>5. y.pc \in SeedPc <=> q.pc \in SeedPc
    BY <2>1 DEF SeedPc
  <2>6. QED
    BY <1>2, <2>2, <2>3, <2>4, <2>5 DEF q, y
<1>5. CASE o # r
  <2>1. y.pc = q.pc /\ (~y.mixed => ~q.mixed /\ ~(q.pc = "viewLineage" /\ KeyOf(q.golden) = k))
    BY <1>2, <1>5
  <2>2. SeedsAt(y, systems, records)
    BY <1>1, <1>2, <2>1 DEF SeedsAt
  <2>3. Merges(y)
    BY <1>1, <1>2, <2>1 DEF Merges
  <2>4. Views(y, l)
    BY <1>1, <1>2, <2>1 DEF Views
  <2>5. ~early => MergesWhole(y, systems, g)
    BY <1>1, <1>2, <2>1 DEF MergesWhole
  <2>6. QED
    BY <1>2, <2>1, <2>2, <2>3, <2>4, <2>5 DEF q, y
<1>6. QED
  BY <1>4, <1>5

LEMMA PublishDimKeeps == ASSUME GoldenInv, NEW r \in Request, PublishDim(r) PROVE GoldenInv'
<1> DEFINE q == req[r]
           k == Key(r)
<1>1. q.pc = "dim" /\ (~early => q.golden = Whole) /\ k = KeyOf(q.golden)
  BY DEF PublishDim, GoldenInv, Requests, MergesWhole, Publisher, Key
<1>2. Publishes(r, "lineage", k)
  BY <1>1, MixingIs DEF PublishDim, GoldenInv
<1>3. /\ UNCHANGED <<systems, records, lineage, node, seedCut, early>>
      /\ gold' = [gold EXCEPT ![k] = q.golden]
      /\ raced' = IF Publishing(k) = {} THEN raced \ {k} ELSE raced \cup {k}
  BY DEF PublishDim
<1>4. /\ req' = [o \in Request |-> req'[o]]
      /\ \A o \in Request : /\ req'[o].golden = req[o].golden
                            /\ req'[o].pc = IF o = r THEN "lineage" ELSE req[o].pc
  BY <1>2 DEF Publishes
<1>5. /\ DOMAIN gold' = DOMAIN gold /\ (k \in DOMAIN gold => gold'[k] = q.golden)
      /\ \A j \in DOMAIN gold : j # k => gold'[j] = gold[j]
  BY <1>3
<1>6. KeyOf(Whole) \in DOMAIN gold /\ (~early => gold'[KeyOf(Whole)] # NoRow)
  <2>1. KeyOf(Whole) \in DOMAIN gold
    BY DEF GoldenInv, Tables
  <2>2. ~early => k = KeyOf(Whole) /\ q.golden = Whole
    BY <1>1
  <2> HIDE DEF q, k
  <2>3. QED
    BY <1>5, <2>1, <2>2, WholeIsARow
<1>7. \A o \in Request :
        /\ Shaped(req'[o]) /\ SeedsAt(req'[o], systems, records)
        /\ Merges(req'[o]) /\ Views(req'[o], lineage)
        /\ ~early => MergesWhole(req'[o], systems, gold')
        /\ req'[o].pc \in SeedPc <=> req[o].pc \in SeedPc
  BY <1>1, <1>2, <1>6, PublishesKeeps
<1>8. Requests'
  BY <1>3, <1>4, <1>7 DEF Requests
<1>9. Tables'
  <2>1. \A j \in DOMAIN gold : gold'[j] # NoRow => KeyOf(gold'[j]) = j
    BY <1>1, <1>5 DEF GoldenInv, Tables
  <2>2. QED
    BY <1>3, <1>5, <2>1 DEF GoldenInv, Tables
<1>10. Published'
  <2>1. \A j : Publishing(j)' = IF j = k THEN Publishing(j) \cup {r} ELSE Publishing(j)
    <3>1. ASSUME NEW j, NEW o
          PROVE  o \in Publishing(j)' <=> o \in Publishing(j) \/ (o = r /\ j = k)
      <4>1. o \in Publishing(j)' <=> o \in Request /\ req'[o].pc = "lineage" /\ KeyOf(req'[o].golden) = j
        BY DEF Publishing, Key
      <4>2. o \in Publishing(j) <=> o \in Request /\ req[o].pc = "lineage" /\ KeyOf(req[o].golden) = j
        BY DEF Publishing, Key
      <4>3. QED
        BY <1>1, <1>4, <4>1, <4>2
    <3>2. QED
      BY <3>1
  <2>2. ASSUME NEW j \in DOMAIN gold, j \notin raced', gold'[j] # NoRow
        PROVE  /\ \A o \in Publishing(j)' : req'[o].golden = gold'[j]
               /\ Publishing(j)' = {} => Explains(lineage[j], gold'[j])
    <3>1. CASE j = k
      <4>1. Publishing(j) = {}
        BY <1>3, <2>2, <3>1
      <4>2. Publishing(j)' = {r}
        BY <2>1, <3>1, <4>1
      <4>3. QED
        BY <1>4, <1>5, <3>1, <4>2
    <3>2. CASE j # k
      <4>1. j \notin raced /\ Publishing(j)' = Publishing(j) /\ gold'[j] = gold[j]
        BY <1>3, <1>5, <2>1, <2>2, <3>2
      <4>2. \A o \in Publishing(j) : req'[o].golden = req[o].golden
        BY <1>4 DEF Publishing
      <4>3. QED
        BY <2>2, <4>1, <4>2 DEF GoldenInv, Published
    <3>3. QED
      BY <3>1, <3>2
  <2>3. QED
    BY <1>3, <1>5, <2>2 DEF Published
<1>11. SeedIsWhole'
  BY <1>3, <1>7 DEF GoldenInv, SeedIsWhole, Seeding, SeedPc
<1>12. OneGoldenRecord'
  <2>1. ~early => \A j \in DOMAIN gold : gold'[j] # NoRow => gold'[j] = Whole /\ j = KeyOf(Whole)
    BY <1>1, <1>5 DEF GoldenInv, OneGoldenRecord
  <2>2. ~early => \A j \in DOMAIN node : node[j] # NoRow =>
                    /\ gold'[node[j].pk] # NoRow
                    /\ node[j].values = [a \in Attr |-> Whole[a].value]
    BY <1>6 DEF GoldenInv, OneGoldenRecord, Tables
  <2>3. QED
    BY <1>3, <1>5, <2>1, <2>2 DEF OneGoldenRecord
<1>13. QED
  BY <1>8, <1>9, <1>10, <1>11, <1>12 DEF GoldenInv

LEMMA PublishLineageKeeps == ASSUME GoldenInv, NEW r \in Request, PublishLineage(r) PROVE GoldenInv'
<1> DEFINE q == req[r]
           k == Key(r)
<1>1. /\ q.pc = "lineage" /\ k = KeyOf(q.golden) /\ Explains(LineageRows(q.golden, q.recs), q.golden)
      /\ ~early => gold[KeyOf(Whole)] # NoRow
  BY DEF PublishLineage, GoldenInv, Requests, Merges, MergesWhole, Publisher, Key
<1>2. Publishes(r, "node", k)
  BY <1>1, MixingIs DEF PublishLineage, GoldenInv
<1>3. /\ UNCHANGED <<systems, records, gold, node, seedCut, early, raced>>
      /\ lineage' = [lineage EXCEPT ![k] = LineageRows(q.golden, q.recs)]
  BY DEF PublishLineage, history
<1>4. /\ req' = [o \in Request |-> req'[o]]
      /\ \A o \in Request : /\ req'[o].golden = req[o].golden
                            /\ req'[o].pc = IF o = r THEN "node" ELSE req[o].pc
  BY <1>2 DEF Publishes
<1>5. /\ DOMAIN lineage' = DOMAIN lineage
      /\ k \in DOMAIN lineage => lineage'[k] = LineageRows(q.golden, q.recs)
      /\ \A j \in DOMAIN lineage : j # k => lineage'[j] = lineage[j]
  BY <1>3
<1>6. \A o \in Request :
        /\ Shaped(req'[o]) /\ SeedsAt(req'[o], systems, records)
        /\ Merges(req'[o]) /\ Views(req'[o], lineage')
        /\ ~early => MergesWhole(req'[o], systems, gold)
        /\ req'[o].pc \in SeedPc <=> req[o].pc \in SeedPc
  BY <1>1, <1>2, <1>5, PublishesKeeps
<1>7. Requests'
  BY <1>3, <1>4, <1>6 DEF Requests
<1>8. Tables'
  BY <1>3, <1>5 DEF GoldenInv, Tables
<1>9. Published'
  <2>1. \A j : Publishing(j)' = Publishing(j) \ {r}
    <3>1. ASSUME NEW j, NEW o
          PROVE  o \in Publishing(j)' <=> o \in Publishing(j) /\ o # r
      <4>1. o \in Publishing(j)' <=> o \in Request /\ req'[o].pc = "lineage" /\ KeyOf(req'[o].golden) = j
        BY DEF Publishing, Key
      <4>2. o \in Publishing(j) <=> o \in Request /\ req[o].pc = "lineage" /\ KeyOf(req[o].golden) = j
        BY DEF Publishing, Key
      <4>3. QED
        BY <1>1, <1>4, <4>1, <4>2
    <3>2. QED
      BY <3>1
  <2>2. \A j : r \in Publishing(j) <=> j = k
    BY <1>1 DEF Publishing
  <2>3. ASSUME NEW j \in DOMAIN gold, j \notin raced, gold[j] # NoRow
        PROVE  /\ \A o \in Publishing(j)' : req'[o].golden = gold[j]
               /\ Publishing(j)' = {} => Explains(lineage'[j], gold[j])
    <3>1. /\ \A o \in Publishing(j) : req[o].golden = gold[j]
          /\ Publishing(j) = {} => Explains(lineage[j], gold[j])
      BY <2>3 DEF GoldenInv, Published
    <3>2. \A o \in Publishing(j)' : req'[o].golden = gold[j]
      <4>1. \A o \in Publishing(j) : o \in Request
        BY DEF Publishing
      <4>2. QED
        BY <1>4, <2>1, <3>1, <4>1
    <3>3. j \in DOMAIN lineage
      BY DEF GoldenInv, Tables
    <3>4. CASE j = k
      <4>1. q.golden = gold[j]
        BY <2>2, <3>1, <3>4
      <4>2. Explains(lineage'[j], gold[j])
        BY <1>1, <1>5, <3>3, <3>4, <4>1
      <4>3. QED
        BY <3>2, <4>2
    <3>5. CASE j # k
      <4>1. Publishing(j)' = Publishing(j)
        BY <2>1, <2>2, <3>5
      <4>2. lineage'[j] = lineage[j]
        BY <1>5, <3>3, <3>5
      <4>3. QED
        BY <3>1, <3>2, <4>1, <4>2
    <3>6. QED
      BY <3>4, <3>5
  <2>4. QED
    BY <1>3, <2>3 DEF Published
<1>10. SeedIsWhole'
  BY <1>3, <1>6 DEF GoldenInv, SeedIsWhole, Seeding, SeedPc
<1>11. OneGoldenRecord'
  BY <1>3 DEF GoldenInv, OneGoldenRecord
<1>12. QED
  BY <1>7, <1>8, <1>9, <1>10, <1>11 DEF GoldenInv

\* The graph's node takes the golden record's values and keeps what that one
\* lacks, which by then is what it would have written itself.
LEMMA PublishNodeKeeps == ASSUME GoldenInv, NEW r \in Request, PublishNode(r) PROVE GoldenInv'
<1> DEFINE g == req[r].golden
           at == NodeName(g)
           old == IF node[at] = NoRow THEN [a \in Attr |-> NoValue] ELSE node[at].values
           new == [pk |-> KeyOf(g), values |->
                    [a \in Attr |-> IF g[a].value = NoValue THEN old[a] ELSE g[a].value]]
<1>1. /\ req[r].pc = "node" /\ req' = [req EXCEPT ![r] = Idle]
      /\ UNCHANGED <<systems, records, gold, lineage, seedCut, early, raced>>
      /\ node' = [node EXCEPT ![at] = new]
  BY DEF PublishNode, lakehouse, history
<1>2. /\ DOMAIN node' = DOMAIN node /\ (at \in DOMAIN node => node'[at] = new)
      /\ \A j \in DOMAIN node : j # at => node'[j] = node[j]
  BY <1>1
<1>3. ~early => g = Whole /\ gold[KeyOf(Whole)] # NoRow
  BY <1>1 DEF GoldenInv, Requests, MergesWhole, Publisher
<1>4. ~early /\ at \in DOMAIN node =>
        new.pk = KeyOf(Whole) /\ new.values = [a \in Attr |-> Whole[a].value]
  <2>1. SUFFICES ASSUME ~early, at \in DOMAIN node
                 PROVE  /\ new.pk = KeyOf(Whole)
                        /\ \A a \in Attr : new.values[a] = Whole[a].value
    BY <1>3
  <2>2. ASSUME NEW a \in Attr PROVE old[a] = NoValue \/ old[a] = Whole[a].value
    <3>1. CASE node[at] = NoRow
      BY <3>1
    <3>2. CASE node[at] # NoRow
      <4>1. node[at].values = [b \in Attr |-> Whole[b].value]
        BY <2>1, <3>2 DEF GoldenInv, OneGoldenRecord
      <4>2. QED
        BY <3>2, <4>1
    <3>3. QED
      BY <3>1, <3>2
  <2>3. g = Whole
    BY <1>3, <2>1
  <2> HIDE DEF g, at, old
  <2>4. QED
    BY <2>2, <2>3
<1> HIDE DEF g, at, new
<1>5. \A j \in DOMAIN node' : ~early /\ node'[j] # NoRow =>
        /\ node'[j].pk = KeyOf(Whole)
        /\ node'[j].values = [a \in Attr |-> Whole[a].value]
  <2>1. ASSUME NEW j \in DOMAIN node, ~early, node'[j] # NoRow
        PROVE  /\ node'[j].pk = KeyOf(Whole)
               /\ node'[j].values = [a \in Attr |-> Whole[a].value]
    <3>1. CASE j = at
      BY <1>2, <1>4, <2>1, <3>1
    <3>2. CASE j # at
      BY <1>2, <2>1, <3>2 DEF GoldenInv, Tables, OneGoldenRecord
    <3>3. QED
      BY <3>1, <3>2
  <2>2. QED
    BY <1>2, <2>1
<1>6. req' = [req EXCEPT ![r] = Idle] /\ req[r].pc = "node"
  BY <1>1
<1>7. /\ req' = [o \in Request |-> req'[o]] /\ req'[r] = Idle
      /\ \A o \in Request : o # r => req'[o] = req[o]
  BY <1>1, Replaced DEF GoldenInv
<1>8. Requests'
  <2>1. ASSUME NEW o \in Request
        PROVE  /\ Shaped(req'[o]) /\ SeedsAt(req'[o], systems, records)
               /\ Merges(req'[o]) /\ Views(req'[o], lineage)
               /\ ~early => MergesWhole(req'[o], systems, gold)
    <3>1. CASE o = r
      BY <1>7, <3>1, IdleIs
    <3>2. CASE o # r
      BY <1>7, <3>2 DEF GoldenInv, Requests
    <3>3. QED
      BY <3>1, <3>2
  <2>2. QED
    BY <1>1, <1>7, <2>1 DEF Requests
<1>9. Tables'
  BY <1>1, <1>5 DEF GoldenInv, Tables
<1>10. Published'
  <2>1. \A j : Publishing(j)' = Publishing(j) /\ \A o \in Publishing(j) : req'[o] = req[o]
    BY <1>6, <1>7, IdleIs DEF Publishing, Key
  <2>2. QED
    BY <1>1, <2>1 DEF GoldenInv, Published
<1>11. SeedIsWhole'
  BY <1>1, <1>6, <1>7, IdleIs DEF GoldenInv, SeedIsWhole, Seeding
<1>12. OneGoldenRecord'
  <2>1. ~early => \A j \in DOMAIN node' : node'[j] # NoRow =>
                    gold[node'[j].pk] # NoRow /\ node'[j].values = [a \in Attr |-> Whole[a].value]
    BY <1>3, <1>5
  <2>2. QED
    BY <1>1, <2>1 DEF GoldenInv, OneGoldenRecord
<1>13. QED
  BY <1>8, <1>9, <1>10, <1>11, <1>12 DEF GoldenInv

\* Requests that are cut leave what they published, and their key as raced.
LEMMA CutKeeps ==
    ASSUME GoldenInv, NEW rs \in SUBSET Request, CutAll(rs)
    PROVE  GoldenInv'
<1>1. /\ UNCHANGED <<systems, records, gold, lineage, node, early>>
      /\ req' = [o \in Request |-> IF o \in rs THEN Idle ELSE req[o]]
      /\ seedCut' = (seedCut \/ \E o \in rs : Seeding(o) /\ systems > 0)
      /\ raced' = raced \cup {KeyOf(req[o].golden) : o \in {p \in rs : req[p].pc = "lineage"}}
  BY DEF CutAll, lakehouse
<1>2. \A o \in Request : req'[o] = IF o \in rs THEN Idle ELSE req[o]
  BY <1>1
<1>3. Requests'
  <2>1. ASSUME NEW o \in Request
        PROVE  /\ Shaped(req'[o]) /\ SeedsAt(req'[o], systems, records)
               /\ Merges(req'[o]) /\ Views(req'[o], lineage)
               /\ ~early => MergesWhole(req'[o], systems, gold)
    <3>1. CASE o \in rs
      BY <1>2, <3>1, IdleIs
    <3>2. CASE o \notin rs
      BY <1>2, <3>2 DEF GoldenInv, Requests
    <3>3. QED
      BY <3>1, <3>2
  <2>2. req' = [o \in Request |-> req'[o]]
    BY <1>1
  <2>3. QED
    BY <1>1, <2>1, <2>2 DEF Requests
<1>4. Tables'
  BY <1>1 DEF GoldenInv, Tables
<1>5. Published'
  <2>1. ASSUME NEW j \in DOMAIN gold, j \notin raced'
        PROVE  /\ j \notin raced /\ Publishing(j)' = Publishing(j)
               /\ \A o \in Publishing(j) : req'[o] = req[o]
    <3>1. j \notin raced /\ \A o \in rs : ~(req[o].pc = "lineage" /\ KeyOf(req[o].golden) = j)
      BY <1>1, <2>1
    <3>2. \A o \in Request : o \in rs => o \notin Publishing(j) /\ o \notin Publishing(j)'
      BY <1>2, <3>1, IdleIs DEF Publishing, Key
    <3>3. \A o \in Request : o \notin rs => (o \in Publishing(j) <=> o \in Publishing(j)')
      BY <1>2 DEF Publishing, Key
    <3>4. \A o \in Publishing(j) : req'[o] = req[o]
      BY <1>2, <3>2 DEF Publishing
    <3>5. Publishing(j) \subseteq Request /\ Publishing(j)' \subseteq Request
      BY DEF Publishing
    <3>6. QED
      BY <3>1, <3>2, <3>3, <3>4, <3>5
  <2>2. QED
    BY <1>1, <2>1 DEF GoldenInv, Published
<1>6. SeedIsWhole'
  <2>1. SUFFICES ASSUME systems > 0, ~seedCut', \A o \in Request : ~Seeding(o)'
                 PROVE  systems = Len(SourceSystems) /\ records = Len(SeedOrder)
    BY <1>1 DEF SeedIsWhole
  <2>2. ~seedCut /\ \A o \in rs : ~Seeding(o)
    BY <1>1, <2>1
  <2>3. \A o \in Request : o \notin rs => ~Seeding(o)
    BY <1>2, <2>1 DEF Seeding
  <2>4. QED
    BY <2>1, <2>2, <2>3 DEF GoldenInv, SeedIsWhole
<1>7. OneGoldenRecord'
  BY <1>1 DEF GoldenInv, OneGoldenRecord
<1>8. QED
  BY <1>3, <1>4, <1>5, <1>6, <1>7 DEF GoldenInv

LEMMA GoldenStep == ASSUME GoldenInv, GoldenNext PROVE GoldenInv'
<1> SUFFICES ASSUME NEW r \in Request,
                    \/ Connect(r) \/ Bootstrap(r) \/ SeedSystem(r) \/ SeedRecord(r)
                    \/ ReadRecords(r) \/ ReadTrust(r)
                    \/ PublishDim(r) \/ PublishLineage(r) \/ PublishNode(r) \/ NodeSkipped(r)
                    \/ ViewRow(r) \/ ViewLineage(r) \/ Answer(r)
                    \/ Cut(r)
             PROVE  GoldenInv'
  BY DEF GoldenNext
<1>1. CASE NodeSkipped(r)
  BY <1>1, EndKeeps DEF NodeSkipped, SeedPc, history
<1>2. CASE Answer(r)
  BY <1>2, EndKeeps DEF Answer, SeedPc, history
<1>3. CASE Cut(r)
  BY <1>3, CutKeeps DEF Cut
<1>4. QED
  BY <1>1, <1>2, <1>3, ConnectKeeps, BootstrapKeeps, SeedSystemKeeps, SeedRecordKeeps,
     ReadRecordsKeeps, ReadTrustKeeps, PublishDimKeeps, PublishLineageKeeps, PublishNodeKeeps,
     ViewRowKeeps, ViewLineageKeeps

LEMMA GoldenStutter == ASSUME GoldenInv, UNCHANGED goldenVars PROVE GoldenInv'
<1>1. UNCHANGED <<systems, records, gold, lineage, node, req, seedCut, early, raced>>
  BY DEF goldenVars, lakehouse, history
<1>2. Requests' /\ Tables' /\ SeedIsWhole' /\ OneGoldenRecord'
  BY <1>1 DEF GoldenInv, Requests, Tables, SeedIsWhole, OneGoldenRecord, Seeding
<1>3. Published'
  BY <1>1 DEF GoldenInv, Published, Publishing, Key
<1>4. QED
  BY <1>2, <1>3 DEF GoldenInv

LEMMA GoldenStarts == ASSUME GoldenInit PROVE GoldenInv
<1>1. /\ systems = 0 /\ records = 0 /\ ~early
      /\ gold = [k \in {KeyOf(g) : g \in Readings} |-> NoRow]
      /\ lineage = [k \in DOMAIN gold |-> {}]
      /\ node = [k \in {NodeName(g) : g \in Readings} |-> NoRow]
      /\ req = [r \in Request |-> Idle]
  BY DEF GoldenInit
<1>2. Requests
  BY <1>1, IdleIs DEF Requests
<1>3. Tables
  <2>1. Whole \in Readings
    BY GoldenAssumption DEF Readings, Whole
  <2>2. KeyOf(Whole) \in DOMAIN gold
    BY <1>1, <2>1
  <2>3. Len(SourceSystems) \in Nat /\ Len(SeedOrder) \in Nat
    BY GoldenAssumption
  <2>4. QED
    BY <1>1, <2>2, <2>3 DEF Tables
<1>4. Published /\ SeedIsWhole /\ OneGoldenRecord
  BY <1>1 DEF Published, SeedIsWhole, OneGoldenRecord
<1>5. QED
  BY <1>2, <1>3, <1>4 DEF GoldenInv

-------------------------------------------------------------------------------
(* The container's steps *)

LEMMA ModesAreVectors == \A m \in Mode : m # NoVector
  BY DEF Mode, NoVector

\* Booting: nothing but the container, its attempts and its mode changes.
LEMMA BootingKeeps ==
    ASSUME ContainerInv, restore.pc = "off", UNCHANGED <<node, restore, loaded, vector, cutShort>>,
           container' \in {"down", "waiting", "sqlite"}, mode' \in Mode,
           switched' = (switched \/ (mode' # mode /\ DOMAIN vector # {})) \/ UNCHANGED <<mode, switched>>
    PROVE  ContainerInv'
<1>1. Container'
  BY DEF ContainerInv, Container
<1>2. NothingBefore'
  BY DEF ContainerInv, NothingBefore, GraphIsEmpty
<1>3. Restoring'
  BY DEF ContainerInv, Restoring
<1>4. WholeGraph'
  <2>1. \A c \in DOMAIN vector : (switched \/ vector[c] = mode) => (switched' \/ vector[c] = mode')
    OBVIOUS
  <2>2. Complete' <=> Complete
    BY DEF Complete
  <2>3. QED
    BY <2>1, <2>2 DEF ContainerInv, WholeGraph
<1>5. QED
  BY <1>1, <1>2, <1>3, <1>4 DEF ContainerInv

\* A restore that begins: of the restore only what is checked changes.
LEMMA CheckingKeeps ==
    ASSUME ContainerInv, UNCHANGED <<node, mode, loaded, vector, cutShort, switched>>,
           restore.pc = "off", NEW force, restore' = [pc |-> "check", force |-> force, todo |-> {}],
           (container' = container /\ container = "serving") \/ (container' = "restoring" /\ ~force)
    PROVE  ContainerInv'
<1>1. restore'.pc = "check"
  OBVIOUS
<1>2. Container'
  BY <1>1 DEF ContainerInv, Container
<1>3. NothingBefore'
  BY DEF ContainerInv, NothingBefore, GraphIsEmpty
<1>4. Restoring'
  BY <1>1 DEF Restoring
<1>5. WholeGraph'
  <2>1. Complete' <=> Complete
    BY DEF Complete
  <2>2. QED
    BY <1>1, <2>1 DEF ContainerInv, WholeGraph
<1>6. QED
  BY <1>2, <1>3, <1>4, <1>5 DEF ContainerInv

LEMMA CheckGraphKeeps == ASSUME ContainerInv, CheckGraph PROVE ContainerInv'
<1>1. /\ restore.pc = "check" /\ UNCHANGED <<node, mode, loaded, vector, cutShort, switched>>
      /\ container \in {"restoring", "serving"}
  BY DEF CheckGraph, goldenVars, graph, ContainerInv, Container
<1>2. NothingBefore' /\ (Complete' <=> Complete)
  BY <1>1 DEF ContainerInv, NothingBefore, GraphIsEmpty, Complete
<1>3. CASE restore.force \/ GraphIsEmpty
  <2>1. /\ restore' = [pc |-> "load", force |-> restore.force, todo |-> 1 .. Statements]
        /\ container' = container
    BY <1>3 DEF CheckGraph, ContainerInv, Container
  <2>2. restore'.pc = "load" /\ restore'.todo = 1 .. Statements
    BY <2>1
  <2>3. Container'
    BY <1>1, <2>1, <2>2 DEF ContainerInv, Container
  <2>4. Restoring'
    BY <2>2 DEF Restoring
  <2>5. WholeGraph'
    BY <1>1, <1>2, <2>1, <2>2 DEF ContainerInv, WholeGraph
  <2>6. QED
    BY <1>2, <2>3, <2>4, <2>5 DEF ContainerInv
<1>4. CASE ~(restore.force \/ GraphIsEmpty)
  <2>1. restore' = NoRestore /\ container' = "serving"
    BY <1>4 DEF CheckGraph, RestoreEnds
  <2>2. restore'.pc = "off"
    BY <2>1 DEF NoRestore
  <2>3. loaded > 0
    BY <1>4 DEF ContainerInv, NothingBefore, Container
  <2>4. Container'
    BY <1>1, <2>1, <2>3 DEF ContainerInv, Container, NoRestore
  <2>5. Restoring'
    BY <2>2 DEF Restoring
  <2>6. WholeGraph'
    BY <1>1, <1>2, <2>2, <2>3 DEF ContainerInv, WholeGraph
  <2>7. QED
    BY <1>2, <2>4, <2>5, <2>6 DEF ContainerInv
<1>5. QED
  BY <1>3, <1>4

LEMMA LoadStatementKeeps == ASSUME ContainerInv, LoadStatement PROVE ContainerInv'
<1> DEFINE i == Min(restore.todo)
<1>1. /\ restore.pc = "load" /\ restore.todo # {} /\ restore.todo \subseteq 1 .. Statements
      /\ Statements \in Nat \ {0} /\ loaded \in 0 .. Statements
  BY BootAssumption DEF LoadStatement, ContainerInv, Container, Restoring
<1>2. i \in restore.todo /\ i \in 1 .. Statements
  <2>1. restore.todo \subseteq Nat
    BY <1>1
  <2>2. QED
    BY <1>1, <2>1, MinIn
<1>3. /\ UNCHANGED <<node, container, mode, cutShort, switched>>
      /\ loaded' = Max({loaded, i})
      /\ vector' = [c \in DOMAIN vector \cup ChunksAt[i] |->
                      IF c \in DOMAIN vector THEN vector[c] ELSE NoVector]
      /\ restore' = [restore EXCEPT !.todo = @ \ {i}]
  BY DEF LoadStatement, goldenVars
<1> HIDE DEF i
<1>4. loaded' \in 1 .. Statements /\ loaded <= loaded' /\ i <= loaded'
  <2>1. loaded' = IF i <= loaded THEN loaded ELSE i
    BY <1>1, <1>2, <1>3, MaxOfTwo
  <2>2. QED
    BY <1>1, <1>2, <2>1
<1>5. DOMAIN vector' = DOMAIN vector \cup ChunksAt[i]
  BY <1>3
<1>6. restore' = [pc |-> "load", force |-> restore.force, todo |-> restore.todo \ {i}]
  BY <1>1, <1>3 DEF ContainerInv, Container
<1>7. restore'.pc = "load" /\ restore'.todo = restore.todo \ {i}
  BY <1>6
<1>8. Container'
  BY <1>1, <1>3, <1>4, <1>6, <1>7 DEF ContainerInv, Container
<1>9. NothingBefore'
  BY <1>4 DEF NothingBefore
<1>10. Restoring'
  <2>1. ASSUME NEW j \in (1 .. Statements) \ restore'.todo
        PROVE  j <= loaded' /\ ChunksAt[j] \subseteq DOMAIN vector'
    <3>1. CASE j = i
      BY <1>4, <1>5, <3>1
    <3>2. CASE j # i
      <4>1. j \in (1 .. Statements) \ restore.todo
        BY <1>7, <3>2
      <4>2. j <= loaded /\ ChunksAt[j] \subseteq DOMAIN vector
        BY <1>1, <4>1 DEF ContainerInv, Restoring
      <4>3. QED
        BY <1>1, <1>4, <1>5, <4>2
    <3>3. QED
      BY <3>1, <3>2
  <2>2. QED
    BY <1>1, <1>7, <2>1 DEF Restoring
<1>11. WholeGraph'
  <2>1. Complete => Complete'
    BY <1>1, <1>4, <1>5 DEF Complete
  <2>2. ASSUME ~cutShort, restore.force
        PROVE  /\ Complete
               /\ \A c \in DOMAIN vector' : vector'[c] # NoVector /\ (switched \/ vector'[c] = mode)
    <3>1. /\ Complete
          /\ \A c \in DOMAIN vector : vector[c] # NoVector /\ (switched \/ vector[c] = mode)
      BY <2>2 DEF ContainerInv, Container, WholeGraph
    <3>2. ChunksAt[i] \subseteq DOMAIN vector
      BY <1>2, <3>1 DEF Complete, Chunk
    <3>3. DOMAIN vector' = DOMAIN vector /\ \A c \in DOMAIN vector : vector'[c] = vector[c]
      BY <1>3, <1>5, <3>2
    <3>4. QED
      BY <3>1, <3>3
  <2>3. restore'.force = restore.force
    BY <1>6
  <2>4. QED
    BY <1>3, <1>7, <2>1, <2>2, <2>3 DEF ContainerInv, WholeGraph
<1>12. QED
  BY <1>8, <1>9, <1>10, <1>11 DEF ContainerInv

LEMMA EmbedKeeps == ASSUME ContainerInv, Embed PROVE ContainerInv'
<1>1. /\ restore.pc = "load" /\ restore.todo = {}
      /\ UNCHANGED <<node, container, mode, loaded, vector, cutShort, switched>>
      /\ Statements \in Nat \ {0} /\ loaded \in 0 .. Statements
  BY BootAssumption DEF Embed, goldenVars, graph, ContainerInv, Container
<1>2. restore' = [pc |-> "embed", force |-> restore.force, todo |-> DOMAIN vector]
  BY DEF Embed, ContainerInv, Container
<1>3. restore'.pc = "embed" /\ restore'.todo = DOMAIN vector /\ restore'.force = restore.force
  BY <1>2
<1>4. Complete
  <2>1. \A i \in 1 .. Statements : i <= loaded /\ ChunksAt[i] \subseteq DOMAIN vector
    BY <1>1 DEF ContainerInv, Restoring
  <2>2. loaded = Statements
    BY <1>1, <2>1
  <2>3. Chunk \subseteq DOMAIN vector
    BY <2>1 DEF Chunk
  <2>4. QED
    BY <2>2, <2>3 DEF Complete
<1>5. Complete'
  BY <1>1, <1>4 DEF Complete
<1>6. Container'
  BY <1>1, <1>2, <1>3 DEF ContainerInv, Container
<1>7. NothingBefore'
  BY <1>1 DEF ContainerInv, NothingBefore, GraphIsEmpty
<1>8. Restoring' /\ WholeGraph'
  BY <1>1, <1>3, <1>5 DEF ContainerInv, Restoring, WholeGraph
<1>9. QED
  BY <1>6, <1>7, <1>8 DEF ContainerInv

LEMMA SetVectorKeeps == ASSUME ContainerInv, SetVector PROVE ContainerInv'
<1>1. PICK c \in restore.todo :
        vector' = [vector EXCEPT ![c] = mode] /\ restore' = [restore EXCEPT !.todo = @ \ {c}]
  BY DEF SetVector
<1>2. /\ restore.pc = "embed" /\ Complete /\ loaded > 0
      /\ UNCHANGED <<node, container, mode, loaded, cutShort, switched>>
  BY BootAssumption DEF SetVector, goldenVars, ContainerInv, Restoring, Complete
<1>3. restore' = [pc |-> "embed", force |-> restore.force, todo |-> restore.todo \ {c}]
  BY <1>1, <1>2 DEF ContainerInv, Container
<1>4. restore'.pc = "embed" /\ restore'.todo = restore.todo \ {c} /\ restore'.force = restore.force
  BY <1>3
<1>5. DOMAIN vector' = DOMAIN vector /\ (c \in DOMAIN vector => vector'[c] = mode)
      /\ \A d \in DOMAIN vector : d # c => vector'[d] = vector[d]
  BY <1>1
<1>6. Complete'
  BY <1>2, <1>5 DEF Complete
<1>7. Container'
  BY <1>2, <1>3, <1>4 DEF ContainerInv, Container
<1>8. NothingBefore'
  BY <1>2 DEF NothingBefore, ContainerInv, Container
<1>9. Restoring'
  <2>1. \A d \in DOMAIN vector \ restore.todo : vector[d] = mode
    BY <1>2 DEF ContainerInv, Restoring
  <2>2. \A d \in DOMAIN vector' \ restore'.todo : vector'[d] = mode
    BY <1>4, <1>5, <2>1
  <2>3. QED
    BY <1>2, <1>4, <1>6, <2>2 DEF Restoring
<1>10. WholeGraph'
  <2>1. ASSUME ~cutShort, restore.force
        PROVE  \A d \in DOMAIN vector' : vector'[d] # NoVector /\ (switched \/ vector'[d] = mode)
    <3>1. \A d \in DOMAIN vector : vector[d] # NoVector /\ (switched \/ vector[d] = mode)
      BY <1>2, <2>1 DEF ContainerInv, WholeGraph
    <3>2. mode # NoVector
      BY ModesAreVectors DEF ContainerInv, Container
    <3>3. QED
      BY <1>5, <3>1, <3>2
  <2>2. QED
    BY <1>2, <1>4, <1>6, <2>1 DEF WholeGraph
<1>11. QED
  BY <1>7, <1>8, <1>9, <1>10 DEF ContainerInv

LEMMA RestoredKeeps == ASSUME ContainerInv, Restored PROVE ContainerInv'
<1>1. /\ restore.pc = "embed" /\ restore.todo = {} /\ Complete /\ loaded > 0
      /\ restore' = NoRestore /\ container' = "serving"
      /\ UNCHANGED <<node, mode, loaded, vector>>
  BY BootAssumption DEF Restored, RestoreEnds, goldenVars, graph, ContainerInv, Restoring, Complete
<1>2. restore'.pc = "off"
  BY <1>1 DEF NoRestore
<1>3. \A c \in DOMAIN vector : vector[c] = mode /\ vector[c] # NoVector
  BY <1>1, ModesAreVectors DEF ContainerInv, Container, Restoring
<1>4. Complete'
  BY <1>1 DEF Complete
<1>5. Container'
  BY <1>1, <1>2 DEF ContainerInv, Container, NoRestore
<1>6. NothingBefore' /\ Restoring'
  BY <1>1, <1>2 DEF NothingBefore, Restoring, ContainerInv, Container
<1>7. WholeGraph'
  BY <1>1, <1>3, <1>4 DEF WholeGraph
<1>8. QED
  BY <1>5, <1>6, <1>7 DEF ContainerInv

LEMMA IngestKeeps == ASSUME ContainerInv, Ingest PROVE ContainerInv'
<1>1. /\ container = "serving" /\ restore.pc = "off" /\ loaded > 0 /\ mode # NoVector
      /\ UNCHANGED <<node, container, mode, restore, loaded, cutShort, switched>>
  BY ModesAreVectors DEF Ingest, Quiet, goldenVars, ContainerInv, Container
<1>2. PICK c \in NewChunk \ DOMAIN vector :
        vector' = [d \in DOMAIN vector \cup {c} |-> IF d = c THEN mode ELSE vector[d]]
  BY DEF Ingest
<1>3. /\ DOMAIN vector' = DOMAIN vector \cup {c} /\ vector'[c] = mode
      /\ \A d \in DOMAIN vector : vector'[d] = vector[d]
  BY <1>2
<1>4. Complete => Complete'
  BY <1>1, <1>3 DEF Complete
<1>5. Container'
  BY <1>1 DEF ContainerInv, Container
<1>6. NothingBefore' /\ Restoring'
  BY <1>1 DEF NothingBefore, Restoring, ContainerInv, Container
<1>7. WholeGraph'
  <2>1. SUFFICES ASSUME ~cutShort
                 PROVE  /\ Complete'
                        /\ \A d \in DOMAIN vector' :
                            vector'[d] # NoVector /\ (switched \/ vector'[d] = mode)
    BY <1>1 DEF WholeGraph
  <2>2. /\ Complete
        /\ \A d \in DOMAIN vector : vector[d] # NoVector /\ (switched \/ vector[d] = mode)
    BY <1>1, <2>1 DEF ContainerInv, WholeGraph
  <2>3. QED
    BY <1>1, <1>3, <1>4, <2>2
<1>8. QED
  BY <1>5, <1>6, <1>7 DEF ContainerInv

LEMMA CrashKeeps == ASSUME ContainerInv, Crash PROVE ContainerInv'
<1>1. /\ container' = "down" /\ restore' = NoRestore
      /\ cutShort' = (cutShort \/ (restore.pc \in {"load", "embed"} /\ loaded > 0 /\ ~restore.force))
      /\ UNCHANGED <<node, mode, loaded, vector, switched>>
  BY DEF Crash, CutAll, graph
<1>2. restore'.pc = "off"
  BY <1>1 DEF NoRestore
<1>3. Container'
  BY <1>1, <1>2 DEF ContainerInv, Container, NoRestore
<1>4. NothingBefore' /\ Restoring' /\ (Complete' <=> Complete)
  BY <1>1, <1>2 DEF ContainerInv, NothingBefore, GraphIsEmpty, Restoring, Complete
<1>5. WholeGraph'
  <2>1. ~cutShort' /\ loaded > 0 => ~cutShort /\ (restore.pc \in {"off", "check"} \/ restore.force)
    BY <1>1 DEF ContainerInv, Container
  <2>2. QED
    BY <1>1, <1>4, <2>1 DEF ContainerInv, WholeGraph
<1>6. QED
  BY <1>3, <1>4, <1>5 DEF ContainerInv

LEMMA ForceFailsKeeps == ASSUME ContainerInv, ForceFails PROVE ContainerInv'
<1>1. /\ restore.force /\ restore' = NoRestore
      /\ UNCHANGED <<node, container, mode, loaded, vector, cutShort, switched>>
  BY DEF ForceFails, goldenVars, graph
<1>2. restore'.pc = "off"
  BY <1>1 DEF NoRestore
<1>3. Container'
  BY <1>1, <1>2 DEF ContainerInv, Container, NoRestore
<1>4. NothingBefore' /\ Restoring' /\ (Complete' <=> Complete)
  BY <1>1, <1>2 DEF ContainerInv, NothingBefore, GraphIsEmpty, Restoring, Complete
<1>5. WholeGraph'
  BY <1>1, <1>4 DEF ContainerInv, WholeGraph
<1>6. QED
  BY <1>3, <1>4, <1>5 DEF ContainerInv

\* What is served writes golden nodes into a graph that is not empty.
LEMMA ServingKeeps ==
    ASSUME ContainerInv, UNCHANGED bootVars, UNCHANGED node \/ container = "serving"
    PROVE  ContainerInv'
<1>1. UNCHANGED <<container, mode, restore, loaded, vector, cutShort, switched>>
  BY DEF bootVars, graph
<1>2. Container' /\ Restoring' /\ WholeGraph'
  BY <1>1 DEF ContainerInv, Container, Restoring, WholeGraph, Complete
<1>3. NothingBefore'
  BY <1>1 DEF ContainerInv, Container, NothingBefore, GraphIsEmpty
<1>4. QED
  BY <1>2, <1>3 DEF ContainerInv

-------------------------------------------------------------------------------
(* The theorems *)

LEMMA BootStarts == Init => BootInv
<1> SUFFICES ASSUME Init PROVE BootInv
  OBVIOUS
<1>1. GoldenInv
  BY GoldenStarts DEF Init
<1>2. Container
  BY BootAssumption DEF Init, Container, NoRestore
<1>3. NothingBefore
  BY DEF Init, GoldenInit, NothingBefore, GraphIsEmpty
<1>4. restore.pc = "off" /\ loaded = 0
  BY DEF Init, NoRestore
<1>5. Restoring /\ WholeGraph
  BY <1>4 DEF Init, Restoring, WholeGraph
<1>6. QED
  BY <1>1, <1>2, <1>3, <1>5 DEF BootInv, ContainerInv

LEMMA BootStep == BootInv /\ [Next]_vars => BootInv'
<1> SUFFICES ASSUME BootInv, [Next]_vars PROVE BootInv'
  OBVIOUS
<1>1. GoldenInv /\ ContainerInv
  BY DEF BootInv
<1>2. CASE UNCHANGED goldenVars
  <2>1. GoldenInv'
    BY <1>1, <1>2, GoldenStutter
  <2>2. UNCHANGED node
    BY <1>2 DEF goldenVars
  <2>3. CASE Start
    <3>1. restore.pc = "off"
      BY <1>1, <2>3 DEF Start, ContainerInv, Container
    <3>2. QED
      BY <1>1, <2>1, <2>2, <2>3, <3>1, BootingKeeps DEF Start, graph, BootInv
  <2>4. CASE Reachable \/ Unreachable
    <3>1. restore.pc = "off" /\ mode \in Mode
      BY <1>1, <2>4 DEF Reachable, Unreachable, ContainerInv, Container
    <3>2. /\ UNCHANGED <<restore, loaded, vector, cutShort, mode, switched>>
          /\ container' \in {"down", "waiting", "sqlite"}
      BY <2>4 DEF Reachable, Unreachable, graph
    <3>3. QED
      BY <1>1, <2>1, <2>2, <3>1, <3>2, BootingKeeps DEF BootInv
  <2>5. CASE InitSqlite
    <3>1. restore.pc = "off"
      BY <1>1, <2>5 DEF InitSqlite, ContainerInv, Container
    <3>2. restore' = [pc |-> "check", force |-> FALSE, todo |-> {}]
      BY <2>5 DEF InitSqlite, NoRestore
    <3>3. QED
      BY <1>1, <2>1, <2>2, <2>5, <3>1, <3>2, CheckingKeeps DEF InitSqlite, graph, BootInv
  <2>6. CASE ForceRestore
    <3>1. restore' = [pc |-> "check", force |-> TRUE, todo |-> {}]
      BY <2>6 DEF ForceRestore, NoRestore
    <3>2. QED
      BY <1>1, <2>1, <2>2, <2>6, <3>1, CheckingKeeps DEF ForceRestore, Quiet, graph, BootInv
  <2>12. CASE ForceFails
    BY <1>1, <2>1, <2>12, ForceFailsKeeps DEF BootInv
  <2>7. CASE UNCHANGED bootVars
    BY <1>1, <2>1, <2>2, <2>7, ServingKeeps DEF BootInv
  <2>8. CASE CheckGraph \/ LoadStatement \/ Embed \/ SetVector \/ Restored \/ Ingest
    BY <1>1, <2>1, <2>8, CheckGraphKeeps, LoadStatementKeeps, EmbedKeeps, SetVectorKeeps,
       RestoredKeeps, IngestKeeps DEF BootInv
  <2>9. CASE Crash
    BY <1>1, <2>1, <2>9, CrashKeeps DEF BootInv
  <2>10. CASE Serve
    BY <1>1, <2>1, <2>2, <2>10, ServingKeeps DEF Serve, BootInv
  <2>11. QED
    BY <2>3, <2>4, <2>5, <2>6, <2>7, <2>8, <2>9, <2>10, <2>12 DEF Next, Entrypoint, vars
<1>3. CASE Serve
  <2>1. GoldenInv'
    BY <1>1, <1>3, GoldenStep DEF Serve
  <2>2. ContainerInv'
    BY <1>1, <1>3, ServingKeeps DEF Serve
  <2>3. QED
    BY <2>1, <2>2 DEF BootInv
<1>4. CASE Crash
  <2>1. GoldenInv'
    BY <1>1, <1>4, CutKeeps DEF Crash
  <2>2. ContainerInv'
    BY <1>1, <1>4, CrashKeeps
  <2>3. QED
    BY <2>1, <2>2 DEF BootInv
<1>5. QED
  BY <1>2, <1>3, <1>4
     DEF Next, Entrypoint, Start, Reachable, Unreachable, InitSqlite, CheckGraph, LoadStatement,
         Embed, SetVector, Restored, ForceRestore, ForceFails, Ingest, vars

\* The lakehouse's requests and the container keep BootInv through every
\* interleaving, cut, crash, boot and change of mode.
THEOREM BootInvariant == Spec => []BootInv
  BY BootStarts, BootStep, PTL DEF Spec

\* Once there is a source system, and nobody seeds nor was cut while seeding,
\* the seed is whole, however many requests seeded at once.
THEOREM SeedIsWholeHolds == Spec => []SeedIsWhole
<1>1. BootInv => SeedIsWhole
  BY DEF BootInv, GoldenInv
<1>2. QED
  BY <1>1, BootInvariant, PTL

\* Each attribute of a published golden record, and of one that a view
\* returns, is traced to the record its value comes from.
THEOREM LineageExplainsGoldHolds == Spec => []LineageExplainsGold
<1>1. BootInv => LineageExplainsGold
  <2>1. SUFFICES ASSUME BootInv PROVE LineageExplainsGold
    OBVIOUS
  <2>2. \A k \in DOMAIN gold : gold[k] # NoRow /\ k \notin raced /\ Publishing(k) = {} =>
            Explains(lineage[k], gold[k])
    BY <2>1 DEF BootInv, GoldenInv, Published
  <2>3. \A r \in Request : req[r].pc = "viewed" /\ ~req[r].mixed =>
            Explains(req[r].rows, req[r].golden)
    BY <2>1 DEF BootInv, GoldenInv, Requests, Views
  <2>4. QED
    BY <2>2, <2>3 DEF LineageExplainsGold
<1>2. QED
  BY <1>1, BootInvariant, PTL

\* Every merge of the whole cluster publishes the same golden record, under
\* one key, in the table and on the graph's node.
THEOREM OneGoldenRecordHolds == Spec => []OneGoldenRecord
<1>1. BootInv => OneGoldenRecord
  BY DEF BootInv, GoldenInv
<1>2. QED
  BY <1>1, BootInvariant, PTL

\* What serves has the whole snapshot, its vectors from the embedder of the
\* queries, unless a restore was cut short or the mode changed.
THEOREM ServesWholeSnapshotHolds == Spec => []ServesWholeSnapshot
<1>1. BootInv => ServesWholeSnapshot
  BY DEF BootInv, ContainerInv, Container, WholeGraph, Complete, ServesWholeSnapshot
<1>2. QED
  BY <1>1, BootInvariant, PTL
===============================================================================
