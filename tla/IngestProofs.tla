------------------------------ MODULE IngestProofs ------------------------------
(***************************************************************************)
(* Theorems about Ingest and Reconcile, for any documents, companies,      *)
(* relations, workers and analysts: reported facts stand, mentions are     *)
(* queued, corroboration counts, one node for each filer, a second object  *)
(* is flagged, and a merged duplicate is gone.                             *)
(***************************************************************************)
EXTENDS Reconcile, FiniteSetTheorems, SequenceTheorems, WellFoundedInduction, TLAPS

-------------------------------------------------------------------------------
(* The shape of the state *)

GraphShape(g) ==
    /\ g = [nodes |-> g.nodes, edges |-> g.edges, mentions |-> g.mentions,
            rejected |-> g.rejected, documents |-> g.documents]
    /\ DOMAIN g.nodes \subseteq Entity /\ DOMAIN g.edges \subseteq Fact /\ g.documents \subseteq Doc
    /\ g.mentions \subseteq Doc \X Entity
    /\ g.nodes = [n \in DOMAIN g.nodes |-> g.nodes[n]]
    /\ \A n \in DOMAIN g.nodes :
            /\ g.nodes[n].cik \in Cik \cup {None}
            /\ g.nodes[n] = [cik |-> g.nodes[n].cik, norm |-> g.nodes[n].norm]
    /\ \A t \in DOMAIN g.edges : g.edges[t].corroboration \in Nat \ {0}

Row == [mention : Entity, doc : Doc \cup {None}]

Renaming == {"name", "nodes", "mention"}
Holding == {"existing", "write"}
Writing == Renaming \cup Holding
Pc == {"idle", "resolve", "attribute"} \cup Writing

NamesShape(x) ==
    /\ x = [pc |-> x.pc, doc |-> x.doc, todo |-> x.todo, canon |-> x.canon]
    /\ x.todo \subseteq DOMAIN Mentions[x.doc] /\ (x.pc = "mention" => x.todo # {})
    /\ x.canon = [m \in DOMAIN x.canon |-> x.canon[m]]
    /\ DOMAIN x.canon \subseteq Entity /\ DOMAIN x.canon \subseteq Elements(Mentions[x.doc])
    /\ \A m \in DOMAIN x.canon : x.canon[m] \in Entity
    /\ \A i \in DOMAIN Mentions[x.doc] :
            (x.pc = "name" /\ i \in x.todo) \/ Mentions[x.doc][i] \in DOMAIN x.canon

SeenShape(seen) ==
    /\ seen = [k \in DOMAIN seen |-> seen[k]]
    /\ \A k \in DOMAIN seen : \A o \in DOMAIN seen[k] : seen[k][o] \in Nat \ {0}

\* The accepted decisions on fact t up to the i-th.
UpTo(ds, t, i) == {j \in Accepted(ds) : j <= i /\ ds[j].fact = t}

DecisionsShape(ds, seen) ==
    \A i \in DOMAIN ds :
        /\ ds[i].fact \in Fact /\ Key(ds[i].fact) \in DOMAIN seen
        /\ ds[i].accepted =>
            /\ ds[i].corroboration = Prior(seen, ds[i].fact) + Cardinality(UpTo(ds, ds[i].fact, i))
            /\ ds[i].conflict <=>
                 /\ ds[i].fact[2] \in Functional
                 /\ ds[i].fact[3] \notin DOMAIN seen[Key(ds[i].fact)]
                 /\ \A j \in Accepted(ds) : j < i => ds[j].fact # ds[i].fact
                 /\ \/ DOMAIN seen[Key(ds[i].fact)] # {}
                    \/ \E j \in Accepted(ds) : j < i /\ Key(ds[j].fact) = Key(ds[i].fact)

WriteShape(x) ==
    /\ x = [pc |-> x.pc, doc |-> x.doc, seen |-> x.seen, decisions |-> x.decisions, todo |-> x.todo]
    /\ DOMAIN x.decisions = DOMAIN Stated[x.doc] /\ x.todo \subseteq DOMAIN x.decisions
    /\ SeenShape(x.seen) /\ DecisionsShape(x.decisions, x.seen)
    /\ \A i \in Accepted(x.decisions) \cap x.todo, j \in Accepted(x.decisions) \ x.todo : j < i

WorkShape(x) ==
    /\ x.pc \in Pc
    /\ x.pc = "idle" => x = Idle
    /\ x.pc # "idle" => x.doc \in Doc
    /\ x.pc = "resolve" =>
        /\ x = [pc |-> x.pc, doc |-> x.doc, todo |-> x.todo] /\ x.todo \subseteq Unresolved(x.doc)
    /\ x.pc = "attribute" =>
        /\ x = [pc |-> x.pc, doc |-> x.doc, todo |-> x.todo, row |-> x.row]
        /\ x.todo \subseteq Unresolved(x.doc)
    /\ x.pc \in Renaming => NamesShape(x)
    /\ x.pc = "existing" =>
        /\ x = [pc |-> x.pc, doc |-> x.doc, facts |-> x.facts, seen |-> x.seen]
        /\ x.facts \in [DOMAIN Stated[x.doc] -> Fact] /\ SeenShape(x.seen)
    /\ x.pc = "write" => WriteShape(x)

Shapes ==
    /\ GraphShape(graph)
    /\ work = [w \in Worker |-> work[w]] /\ \A w \in Worker : WorkShape(work[w])
    /\ votes \in [Fact -> Nat]

-------------------------------------------------------------------------------
(* What the theorems rest on *)

Queued(q, m, d) == \E r \in DOMAIN q : q[r] = [mention |-> m, doc |-> d]

\* What worker x has taken from its list is queued, but for the row it has not
\* attributed yet.
Resolving(x, q) ==
    /\ x.pc = "attribute" =>
        /\ x.row \in DOMAIN q /\ q[x.row] = [mention |-> q[x.row].mention, doc |-> None]
        /\ \A i \in Unresolved(x.doc) \ x.todo :
            Mentions[x.doc][i] = q[x.row].mention \/ Queued(q, Mentions[x.doc][i], x.doc)
    /\ x.pc = "resolve" =>
        \A i \in Unresolved(x.doc) \ x.todo : Queued(q, Mentions[x.doc][i], x.doc)

\* Only an upload takes mentions to the queue.
Asking(w, x, q) ==
    IF w \in Uploader THEN Resolving(x, q)
    ELSE x.pc # "attribute" /\ (x.pc = "resolve" => x.todo = {})

QueueInv ==
    /\ queue \in Seq(Row) /\ \A r \in DOMAIN queue : CikOf[queue[r].mention] = None
    /\ uploaded \subseteq Doc
    /\ \A w \in Worker : Asking(w, work[w], queue)
    /\ \A v, w \in Worker : v # w /\ At(v, "attribute") /\ At(w, "attribute") => work[v].row # work[w].row
    /\ MentionsQueued

Stands(g, t, d) == t \in DOMAIN g.edges /\ d \in g.edges[t].doc_ids

FactsInv ==
    /\ ReportedFactsStand
    /\ \A w \in Worker : work[w].pc \in Writing => work[w].doc \in graph.documents
    /\ \A w \in Worker : At(w, "write") =>
        \A i \in Accepted(work[w].decisions) \ work[w].todo :
            Stands(graph, work[w].decisions[i].fact, work[w].doc)

\* Worker x has called the filer of cik n.
Calls(x, cik, n) ==
    x.pc \in Renaming /\ \E m \in DOMAIN x.canon : CikOf[m] = cik /\ x.canon[m] = n

\* But for CIKs in split, one worker at most names a filer, by the name of the
\* node it has if it has one.
NamesInv ==
    /\ OneNodePerCik
    /\ \A c \in Cik \ split : \A v, w \in Worker : \A m, n \in Entity :
        Calls(work[v], c, m) /\ Calls(work[w], c, n) => v = w /\ m = n
    /\ \A c \in Cik \ split : \A w \in Worker : \A m \in Entity :
        Calls(work[w], c, m) => \A n \in DOMAIN graph.nodes : graph.nodes[n].cik = c => n = m

\* The keys worker x holds a reading of, and the times it has written t since.
Read(x) == IF x.pc \in Holding THEN DOMAIN x.seen ELSE {}
Done(x, t) ==
    IF x.pc = "write" THEN {i \in Accepted(x.decisions) \ x.todo : x.decisions[i].fact = t} ELSE {}
Count(x, t) == Prior(x.seen, t) + Cardinality(Done(x, t))

CountInv ==
    /\ CorroborationCounts
    /\ \A t \in Fact : t \in DOMAIN graph.edges <=> votes[t] > 0
    /\ \A w \in Worker : \A t \in Fact : Key(t) \in Read(work[w]) =>
        /\ Count(work[w], t) <= votes[t]
        /\ Key(t) \notin contended => Count(work[w], t) = votes[t]

IngestInv == Shapes /\ QueueInv /\ FactsInv /\ NamesInv /\ CountInv /\ SecondObjectFlagged

-------------------------------------------------------------------------------
(* First and shortest *)

LEMMA LeastNat ==
    ASSUME NEW T, T \subseteq Nat, T # {}
    PROVE  \E x \in T : \A y \in T : x <= y
<1> DEFINE R == {p \in Nat \X Nat : p[1] < p[2]}
<1>1. IsWellFoundedOn(R, Nat)
  BY NatLessThanWellFounded DEF OpToRel
<1>2. \A x, y \in Nat : <<y, x>> \in R <=> y < x
  OBVIOUS
<1> HIDE DEF R
<1>3. PICK x \in T : \A y \in T : ~(<<y, x>> \in R)
  BY <1>1, WFMin
<1>4. ASSUME NEW y \in T PROVE x <= y
  <2>1. x \in Nat /\ y \in Nat /\ ~(y < x)
    BY <1>2, <1>3
  <2>2. QED
    BY <2>1
<1>5. QED
  BY <1>4

LEMMA FirstIn ==
    ASSUME NEW T, T \subseteq Nat, T # {}
    PROVE  First(T) \in T /\ \A j \in T : First(T) <= j
  BY LeastNat DEF First

LEMMA ShortestIn ==
    ASSUME NEW S, S \subseteq Entity, S # {} PROVE Shortest(S) \in S
<1>1. \A n \in S : Rank[n] \in Nat
  BY IngestAssumption
<1>2. {Rank[n] : n \in S} \subseteq Nat /\ {Rank[n] : n \in S} # {}
  BY <1>1
<1>3. PICK r \in {Rank[n] : n \in S} : \A s \in {Rank[n] : n \in S} : r <= s
  BY <1>2, LeastNat
<1>4. PICK m \in S : r = Rank[m]
  BY <1>3
<1>5. \E k \in S : \A n \in S : Rank[k] <= Rank[n]
  BY <1>3, <1>4
<1>6. QED
  BY <1>5 DEF Shortest

LEMMA ListFacts ==
    ASSUME NEW d \in Doc
    PROVE  /\ DOMAIN Mentions[d] \subseteq Nat /\ IsFiniteSet(DOMAIN Mentions[d])
           /\ \A i \in DOMAIN Mentions[d] : Mentions[d][i] \in Entity
           /\ Elements(Mentions[d]) = {Mentions[d][i] : i \in DOMAIN Mentions[d]}
           /\ Elements(Mentions[d]) \subseteq Entity
           /\ DOMAIN Stated[d] \subseteq Nat /\ IsFiniteSet(DOMAIN Stated[d])
           /\ \A i \in DOMAIN Stated[d] : Stated[d][i] \in Fact
<1>1. Mentions[d] \in Seq(Entity) /\ Stated[d] \in Seq(Fact)
  BY IngestAssumption
<1>2. /\ DOMAIN Mentions[d] = 1 .. Len(Mentions[d]) /\ Len(Mentions[d]) \in Nat
      /\ DOMAIN Stated[d] = 1 .. Len(Stated[d]) /\ Len(Stated[d]) \in Nat
      /\ \A i \in DOMAIN Mentions[d] : Mentions[d][i] \in Entity
      /\ \A i \in DOMAIN Stated[d] : Stated[d][i] \in Fact
  BY <1>1, LenProperties
<1>3. IsFiniteSet(1 .. Len(Mentions[d])) /\ IsFiniteSet(1 .. Len(Stated[d]))
  BY <1>2, FS_Interval
<1>4. QED
  BY <1>2, <1>3 DEF Elements

-------------------------------------------------------------------------------
(* What a step makes of the worker that takes it *)

Moves(w, y) ==
    /\ work' = [v \in Worker |-> work'[v]] /\ work'[w] = y
    /\ \A v \in Worker \ {w} : work'[v] = work[v]

LEMMA MovesTo ==
    ASSUME Shapes, NEW w \in Worker, NEW y, work' = [work EXCEPT ![w] = y]
    PROVE  Moves(w, y)
  BY DEF Shapes, Moves

LEMMA BeginDoes ==
    ASSUME Shapes, NEW w \in Worker, NEW d \in Doc, Begin(w, d)
    PROVE  \E y : /\ Moves(w, y) /\ WorkShape(y)
                  /\ y.pc = "resolve" /\ y.doc = d
                  /\ y.todo = {i \in Unresolved(d) : w \in Uploader}
<1> DEFINE y == [pc |-> "resolve", doc |-> d, todo |-> {i \in Unresolved(d) : w \in Uploader}]
<1>1. /\ WorkShape(y) /\ y.pc = "resolve" /\ y.doc = d
      /\ y.todo = {i \in Unresolved(d) : w \in Uploader}
  BY DEF WorkShape, Pc, Writing, Renaming, Holding
<1>2. work' = [work EXCEPT ![w] = y]
  BY DEF Begin, Goto
<1> HIDE DEF y
<1>3. QED
  BY <1>1, <1>2, MovesTo

LEMMA TodoIsNat ==
    ASSUME Shapes, NEW w \in Worker,
           work[w].pc \in {"resolve", "attribute"} \cup Renaming
    PROVE  /\ work[w].doc \in Doc /\ work[w].todo \subseteq DOMAIN Mentions[work[w].doc]
           /\ work[w].todo # {} =>
                /\ First(work[w].todo) \in work[w].todo
                /\ Mention(w) = Mentions[work[w].doc][First(work[w].todo)] /\ Mention(w) \in Entity
<1>1. work[w].doc \in Doc /\ work[w].todo \subseteq DOMAIN Mentions[work[w].doc]
  BY DEF Shapes, WorkShape, NamesShape, Unresolved, Renaming
<1>2. QED
  BY <1>1, ListFacts, FirstIn DEF Mention

LEMMA EnqueueDoes ==
    ASSUME Shapes, NEW w \in Worker, Enqueue(w)
    PROVE  \E y, i :
            /\ Moves(w, y) /\ WorkShape(y) /\ At(w, "resolve")
            /\ y.pc = "attribute" /\ y.doc = work[w].doc /\ y.row = Len(queue) + 1
            /\ i \in work[w].todo /\ i \in Unresolved(work[w].doc) /\ y.todo = work[w].todo \ {i}
            /\ queue' = Append(queue, [mention |-> Mentions[work[w].doc][i], doc |-> None])
<1> DEFINE x == work[w]
           y == [pc |-> "attribute", doc |-> x.doc, todo |-> x.todo \ {First(x.todo)},
                 row |-> Len(queue) + 1]
<1>1. x.pc = "resolve" /\ x.todo # {} /\ work' = [work EXCEPT ![w] = y]
      /\ queue' = Append(queue, [mention |-> Mention(w), doc |-> None])
  BY DEF Enqueue, At, Goto
<1>2. /\ x.doc \in Doc /\ First(x.todo) \in x.todo /\ x.todo \subseteq Unresolved(x.doc)
      /\ Mention(w) = Mentions[x.doc][First(x.todo)]
  BY <1>1, TodoIsNat DEF Shapes, WorkShape
<1>3. /\ WorkShape(y) /\ y.pc = "attribute" /\ y.doc = x.doc /\ y.row = Len(queue) + 1
      /\ y.todo = x.todo \ {First(x.todo)}
  BY <1>2 DEF WorkShape, Pc, Writing, Renaming, Holding
<1> HIDE DEF y
<1>4. Moves(w, y)
  BY <1>1, MovesTo
<1>5. QED
  BY <1>1, <1>2, <1>3, <1>4 DEF At

LEMMA SetProvenanceDoes ==
    ASSUME Shapes, NEW w \in Worker, SetProvenance(w)
    PROVE  \E y : /\ Moves(w, y) /\ WorkShape(y)
                  /\ y.pc = "resolve" /\ y.doc = work[w].doc /\ y.todo = work[w].todo
<1> DEFINE x == work[w]
           y == [pc |-> "resolve", doc |-> x.doc, todo |-> x.todo]
<1>1. x.pc = "attribute" /\ work' = [work EXCEPT ![w] = y]
  BY DEF SetProvenance, At, Goto
<1>2. WorkShape(y) /\ y.pc = "resolve" /\ y.doc = x.doc /\ y.todo = x.todo
  BY <1>1 DEF Shapes, WorkShape, Pc, Writing, Renaming, Holding
<1> HIDE DEF y
<1>3. QED
  BY <1>1, <1>2, MovesTo

LEMMA WriteDocumentDoes ==
    ASSUME Shapes, NEW w \in Worker, WriteDocument(w)
    PROVE  \E y : /\ Moves(w, y) /\ WorkShape(y)
                  /\ y.pc = "name" /\ y.doc = work[w].doc /\ DOMAIN y.canon = {}
<1> DEFINE x == work[w]
           y == [pc |-> "name", doc |-> x.doc, todo |-> DOMAIN Mentions[x.doc],
                 canon |-> [m \in {} |-> m]]
<1>1. x.pc = "resolve" /\ work' = [work EXCEPT ![w] = y]
  BY DEF WriteDocument, At, Goto
<1>2. x.doc \in Doc
  BY <1>1 DEF Shapes, WorkShape
<1>3. NamesShape(y) /\ y.pc = "name" /\ y.doc = x.doc /\ DOMAIN y.canon = {}
  BY DEF NamesShape
<1> HIDE DEF y
<1>4. WorkShape(y)
  BY <1>2, <1>3 DEF WorkShape, Pc, Writing, Renaming, Holding
<1>5. QED
  BY <1>1, <1>3, <1>4, MovesTo

\* A group of mentions takes one name, a node's if one was found.
LEMMA CanonicaliseDoes ==
    ASSUME Shapes, NEW w \in Worker, Canonicalise(w)
    PROVE  \E y, m, name, fails :
            /\ Moves(w, y) /\ WorkShape(y) /\ At(w, "name") /\ m \in Entity /\ name \in Entity
            /\ y.pc = "name" /\ y.doc = work[w].doc
            /\ DOMAIN y.canon = DOMAIN work[w].canon \cup Group(work[w].doc, m)
            /\ \A n \in DOMAIN y.canon :
                  y.canon[n] = IF n \in Group(work[w].doc, m) THEN name ELSE work[w].canon[n]
            /\ ~fails /\ Matches(graph, CikOf[m], NormOf[m]) # {} =>
                  name \in Matches(graph, CikOf[m], NormOf[m])
            /\ split' = IF fails \/ \E v \in Worker \ {w} : Naming(v, CikOf[m])
                        THEN split \cup ({CikOf[m]} \ {None}) ELSE split
<1> DEFINE x == work[w]
           m == Mention(w)
           group == Group(x.doc, m)
           found == Matches(graph, CikOf[m], NormOf[m])
           todo == Others(x.todo, x.doc, group)
<1>1. At(w, "name") /\ x.todo # {} /\ UNCHANGED graph
  BY DEF Canonicalise
<1>2. PICK fails \in BOOLEAN, name \in UNION {found, {Shortest(group)}} :
        /\ ~fails /\ found # {} => name \in found
        /\ work' = [work EXCEPT ![w].todo = todo,
                                ![w].canon = [n \in DOMAIN @ \cup group |->
                                                IF n \in group THEN name ELSE @[n]]]
        /\ split' = IF fails \/ \E v \in Worker \ {w} : Naming(v, CikOf[m])
                    THEN split \cup ({CikOf[m]} \ {None}) ELSE split
  BY DEF Canonicalise
<1> HIDE DEF found, todo
<1>3. NamesShape(x) /\ x.pc = "name" /\ x.doc \in Doc /\ m \in Entity
  BY <1>1, TodoIsNat DEF At, Shapes, WorkShape, Renaming
<1> HIDE DEF m
<1>4. group \subseteq Elements(Mentions[x.doc]) /\ group \subseteq Entity
  BY <1>3, ListFacts DEF Group
<1>5. m \in group
  <2>1. m \in Elements(Mentions[x.doc])
    BY <1>1, <1>3, TodoIsNat, ListFacts DEF At, m, Renaming
  <2>2. QED
    BY <2>1 DEF Group
<1>6. name \in Entity
  <2>1. found \subseteq Entity
    BY DEF found, Matches, Shapes, GraphShape
  <2>2. Shortest(group) \in Entity
    BY <1>4, <1>5, ShortestIn
  <2>3. QED
    BY <1>2, <2>1, <2>2
<1> HIDE DEF group
<1> DEFINE canon == [n \in DOMAIN x.canon \cup group |-> IF n \in group THEN name ELSE x.canon[n]]
           y == [pc |-> "name", doc |-> x.doc, todo |-> todo, canon |-> canon]
<1>7. Moves(w, y)
  <2>1. PICK z : work' = [work EXCEPT ![w] = z] /\ z = [x EXCEPT !.todo = todo, !.canon = canon]
    BY <1>2
  <2> HIDE DEF canon
  <2>2. z = y
    BY <1>3, <2>1 DEF NamesShape
  <2> HIDE DEF y
  <2>3. QED
    BY <2>1, <2>2, MovesTo
<1>8. NamesShape(y) /\ y.pc = "name" /\ y.doc = x.doc /\ y.canon = canon
  <2>1. /\ canon = [n \in DOMAIN canon |-> canon[n]] /\ DOMAIN canon \subseteq Entity
        /\ DOMAIN canon \subseteq Elements(Mentions[x.doc])
    BY <1>3, <1>4 DEF NamesShape
  <2>2. \A n \in DOMAIN canon : canon[n] \in Entity
    BY <1>3, <1>6 DEF NamesShape
  <2>3. todo \subseteq DOMAIN Mentions[x.doc]
    BY <1>3 DEF todo, Others, NamesShape
  <2>4. \A i \in DOMAIN Mentions[x.doc] : i \in todo \/ Mentions[x.doc][i] \in DOMAIN canon
    BY <1>3 DEF todo, Others, NamesShape
  <2> HIDE DEF canon
  <2>5. QED
    BY <2>1, <2>2, <2>3, <2>4 DEF NamesShape
<1>9. /\ DOMAIN canon = DOMAIN x.canon \cup group
      /\ \A n \in DOMAIN canon : canon[n] = IF n \in group THEN name ELSE x.canon[n]
  OBVIOUS
<1> HIDE DEF canon, y
<1>10. WorkShape(y)
  BY <1>3, <1>8 DEF WorkShape, Pc, Writing, Renaming, Holding
<1>11. QED
  BY <1>1, <1>2, <1>3, <1>6, <1>7, <1>8, <1>9, <1>10 DEF found, group, m

LEMMA NamesChosenDoes ==
    ASSUME Shapes, NEW w \in Worker, NamesChosen(w)
    PROVE  \E y : /\ Moves(w, y) /\ WorkShape(y) /\ At(w, "name")
                  /\ y.pc = "nodes" /\ y.doc = work[w].doc /\ y.canon = work[w].canon
<1> DEFINE x == work[w]
           y == [pc |-> "nodes", doc |-> x.doc, todo |-> DOMAIN Mentions[x.doc], canon |-> x.canon]
<1>1. x.pc = "name" /\ x.todo = {} /\ work' = [work EXCEPT ![w] = y]
  BY DEF NamesChosen, At, Goto
<1>2. NamesShape(x) /\ x.doc \in Doc
  BY <1>1 DEF Shapes, WorkShape, Renaming
<1>3. NamesShape(y) /\ y.pc = "nodes" /\ y.doc = x.doc /\ y.canon = x.canon
  BY <1>1, <1>2 DEF NamesShape
<1> HIDE DEF y
<1>4. WorkShape(y)
  BY <1>2, <1>3 DEF WorkShape, Pc, Writing, Renaming, Holding
<1>5. QED
  BY <1>1, <1>3, <1>4, MovesTo DEF At

LEMMA WriteEntityDoes ==
    ASSUME Shapes, NEW w \in Worker, WriteEntity(w)
    PROVE  \E y, m, cik :
            /\ Moves(w, y) /\ WorkShape(y) /\ At(w, "nodes")
            /\ y.pc = "mention" /\ y.doc = work[w].doc /\ y.canon = work[w].canon
            /\ m \in DOMAIN y.canon /\ y.canon[m] \in Entity /\ m \in Entity
            /\ cik \in Cik \cup {None} /\ (CikOf[m] # None => cik = CikOf[m])
            /\ graph' = MergeEntity(graph, y.canon[m], cik, NormOf[m])
            /\ split' = IF CopiedOnto(y.canon[m], m, cik) THEN split \cup {cik} ELSE split
<1> DEFINE x == work[w]
           y == [pc |-> "mention", doc |-> x.doc, todo |-> x.todo, canon |-> x.canon]
           m == Mention(w)
           cik == NodeCik(x.doc, m)
<1>1. /\ x.pc = "nodes" /\ x.todo # {} /\ work' = [work EXCEPT ![w].pc = "mention"]
      /\ graph' = MergeEntity(graph, x.canon[m], cik, NormOf[m])
      /\ split' = IF CopiedOnto(x.canon[m], m, cik) THEN split \cup {cik} ELSE split
  BY DEF WriteEntity, At
<1>2. NamesShape(x) /\ x.doc \in Doc
  BY <1>1 DEF Shapes, WorkShape, Renaming
<1>3. m \in DOMAIN x.canon /\ x.canon[m] \in Entity /\ m \in Entity
  BY <1>1, <1>2, TodoIsNat DEF NamesShape, Renaming
<1> HIDE DEF m
<1>8. cik \in Cik \cup {None} /\ (CikOf[m] # None => cik = CikOf[m])
  BY <1>2, <1>3, IngestAssumption DEF NodeCik
<1> HIDE DEF cik
<1>4. NamesShape(y) /\ y.pc = "mention" /\ y.doc = x.doc /\ y.canon = x.canon
  BY <1>1, <1>2 DEF NamesShape
<1>5. Moves(w, y)
  <2>1. PICK z : work' = [work EXCEPT ![w] = z] /\ z = [x EXCEPT !.pc = "mention"]
    BY <1>1
  <2>2. z = y
    BY <1>2, <2>1 DEF NamesShape
  <2> HIDE DEF y
  <2>3. QED
    BY <2>1, <2>2, MovesTo
<1> HIDE DEF y
<1>6. WorkShape(y)
  BY <1>2, <1>4 DEF WorkShape, Pc, Writing, Renaming, Holding
<1>7. QED
  BY <1>1, <1>3, <1>4, <1>5, <1>6, <1>8 DEF At

LEMMA WriteMentionDoes ==
    ASSUME Shapes, NEW w \in Worker, WriteMention(w)
    PROVE  \E y : /\ Moves(w, y) /\ WorkShape(y) /\ At(w, "mention")
                  /\ y.pc = "nodes" /\ y.doc = work[w].doc /\ y.canon = work[w].canon
<1> DEFINE x == work[w]
           todo == Others(x.todo, x.doc,
                          {n \in DOMAIN x.canon : x.canon[n] = x.canon[Mention(w)]})
           y == [pc |-> "nodes", doc |-> x.doc, todo |-> todo, canon |-> x.canon]
<1>1. x.pc = "mention" /\ work' = [work EXCEPT ![w].pc = "nodes", ![w].todo = todo]
  BY DEF WriteMention, At
<1>2. NamesShape(x) /\ x.doc \in Doc
  BY <1>1 DEF Shapes, WorkShape, Renaming
<1>3. todo \subseteq x.todo
  BY DEF Others
<1> HIDE DEF todo
<1>4. NamesShape(y) /\ y.pc = "nodes" /\ y.doc = x.doc /\ y.canon = x.canon
  BY <1>1, <1>2, <1>3 DEF NamesShape
<1>5. Moves(w, y)
  <2>1. PICK z : work' = [work EXCEPT ![w] = z] /\ z = [x EXCEPT !.pc = "nodes", !.todo = todo]
    BY <1>1
  <2>2. z = y
    BY <1>2, <2>1 DEF NamesShape
  <2> HIDE DEF y
  <2>3. QED
    BY <2>1, <2>2, MovesTo
<1> HIDE DEF y
<1>6. WorkShape(y)
  BY <1>2, <1>4 DEF WorkShape, Pc, Writing, Renaming, Holding
<1>7. QED
  BY <1>1, <1>4, <1>5, <1>6 DEF At

LEMMA BuildTriplesDoes ==
    ASSUME Shapes, NEW w \in Worker, BuildTriples(w)
    PROVE  \E y : /\ Moves(w, y) /\ WorkShape(y) /\ At(w, "nodes")
                  /\ y.pc = "existing" /\ y.doc = work[w].doc /\ DOMAIN y.seen = {}
<1> DEFINE x == work[w]
           d == x.doc
           facts == [i \in DOMAIN Stated[d] |->
                        <<Renamed(x.canon, Stated[d][i][1]), Stated[d][i][2],
                          Renamed(x.canon, Stated[d][i][3])>>]
           y == [pc |-> "existing", doc |-> d, facts |-> facts, seen |-> [k \in {} |-> k]]
<1>1. x.pc = "nodes" /\ work' = [work EXCEPT ![w] = y]
  BY DEF BuildTriples, At, Goto
<1>2. NamesShape(x) /\ d \in Doc
  BY <1>1 DEF Shapes, WorkShape, Renaming
<1>3. \A n \in Entity : Renamed(x.canon, n) \in Entity
  BY <1>2 DEF NamesShape, Renamed
<1>4. facts \in [DOMAIN Stated[d] -> Fact]
  BY <1>2, <1>3, ListFacts DEF Fact
<1> HIDE DEF facts
<1>5. WorkShape(y) /\ y.pc = "existing" /\ y.doc = d /\ DOMAIN y.seen = {}
  BY <1>2, <1>4 DEF WorkShape, SeenShape, Pc, Writing, Renaming, Holding
<1> HIDE DEF y
<1>6. QED
  BY <1>1, <1>5, MovesTo DEF At

LEMMA VotesCount ==
    ASSUME Shapes, CountInv, NEW t \in DOMAIN graph.edges
    PROVE  /\ t \in Fact /\ votes[t] \in Nat \ {0}
           /\ graph.edges[t].corroboration \in Nat \ {0}
           /\ graph.edges[t].corroboration <= votes[t]
           /\ Key(t) \notin contended => graph.edges[t].corroboration = votes[t]
<1>1. t \in Fact /\ votes[t] \in Nat /\ votes[t] > 0
  BY DEF Shapes, GraphShape, CountInv
<1>2. LET c == graph.edges[t].corroboration
      IN  IF Key(t) \in contended THEN c \in 1 .. votes[t] ELSE c = votes[t]
  BY DEF CountInv, CorroborationCounts
<1>3. QED
  BY <1>1, <1>2

\* One more key is read.
LEMMA ReadExistingDoes ==
    ASSUME Shapes, NEW w \in Worker, ReadExisting(w)
    PROVE  \E y, key :
            /\ Moves(w, y) /\ WorkShape(y) /\ At(w, "existing")
            /\ y.pc = "existing" /\ y.doc = work[w].doc
            /\ DOMAIN y.seen = DOMAIN work[w].seen \cup {key}
            /\ \A k \in DOMAIN y.seen :
                  y.seen[k] = IF k = key THEN Existing(graph, key) ELSE work[w].seen[k]
            /\ \E t \in Fact : key = Key(t)
<1> DEFINE x == work[w]
           first == CHOOSE i \in Unread(w) : \A j \in Unread(w) : i <= j
           key == Key(x.facts[first])
           seen == [k \in DOMAIN x.seen \cup {key} |->
                        IF k = key THEN Existing(graph, key) ELSE x.seen[k]]
           y == [pc |-> "existing", doc |-> x.doc, facts |-> x.facts, seen |-> seen]
<1>1. x.pc = "existing" /\ Unread(w) # {} /\ work' = [work EXCEPT ![w].seen = seen]
  BY DEF ReadExisting, At
<1>2. /\ x = [pc |-> x.pc, doc |-> x.doc, facts |-> x.facts, seen |-> x.seen]
      /\ x.facts \in [DOMAIN Stated[x.doc] -> Fact] /\ SeenShape(x.seen) /\ x.doc \in Doc
  BY <1>1 DEF Shapes, WorkShape
<1>3. first \in Unread(w)
  <2>1. Unread(w) \subseteq Nat
    BY <1>2, ListFacts DEF Unread
  <2>2. QED
    BY <1>1, <2>1, LeastNat
<1>4. x.facts[first] \in Fact
  BY <1>2, <1>3 DEF Unread
<1> HIDE DEF first
<1>5. \A o \in DOMAIN Existing(graph, key) : Existing(graph, key)[o] \in Nat \ {0}
  <2>1. PICK a, b : key = <<a, b>>
    BY DEF Key
  <2>2. ASSUME NEW t \in DOMAIN graph.edges, Key(t) = key
        PROVE  <<key[1], key[2], t[3]>> = t
    <3>1. t \in Fact
      BY DEF Shapes, GraphShape
    <3>2. PICK p \in Entity, q \in Rel, r \in Entity : t = <<p, q, r>>
      BY <3>1 DEF Fact
    <3>3. QED
      BY <2>1, <2>2, <3>2 DEF Key
  <2>3. ASSUME NEW o \in DOMAIN Existing(graph, key)
        PROVE  <<key[1], key[2], o>> \in DOMAIN graph.edges
               /\ Existing(graph, key)[o] = graph.edges[<<key[1], key[2], o>>].corroboration
    BY <2>2 DEF Existing
  <2>4. QED
    BY <2>3 DEF Shapes, GraphShape
<1> HIDE DEF key
<1>6. SeenShape(seen)
  BY <1>2, <1>5 DEF SeenShape
<1>7. Moves(w, y)
  <2>1. PICK z : work' = [work EXCEPT ![w] = z] /\ z = [x EXCEPT !.seen = seen]
    BY <1>1
  <2> HIDE DEF seen
  <2>2. z = y
    BY <1>1, <1>2, <2>1
  <2> HIDE DEF y
  <2>3. QED
    BY <2>1, <2>2, MovesTo
<1>8. /\ DOMAIN seen = DOMAIN x.seen \cup {key}
      /\ \A k \in DOMAIN seen : seen[k] = IF k = key THEN Existing(graph, key) ELSE x.seen[k]
  OBVIOUS
<1> HIDE DEF seen
<1>9. WorkShape(y) /\ y.pc = "existing" /\ y.doc = x.doc /\ y.seen = seen
  BY <1>2, <1>6 DEF WorkShape, Pc, Writing, Renaming, Holding
<1> HIDE DEF y
<1>10. QED
  BY <1>1, <1>4, <1>7, <1>8, <1>9 DEF At, key

\* Every fact of the list was looked up before the review.
Reviewable(facts, ok, seen, D) ==
    /\ D = DOMAIN facts /\ D \subseteq Nat /\ ok \subseteq D
    /\ \A i \in D : facts[i] \in Fact /\ Key(facts[i]) \in DOMAIN seen

LEMMA ReviewShape ==
    ASSUME NEW facts, NEW ok, NEW seen, NEW D, NEW ds, ds = Review(facts, ok, seen),
           Reviewable(facts, ok, seen, D)
    PROVE  /\ DOMAIN ds = D /\ \A i \in D : ds[i].fact = facts[i]
           /\ Accepted(ds) = ok /\ DecisionsShape(ds, seen)
<1>0. /\ D = DOMAIN facts /\ D \subseteq Nat /\ ok \subseteq D
      /\ \A i \in D : facts[i] \in Fact /\ Key(facts[i]) \in DOMAIN seen
  BY DEF Reviewable
<1>1. /\ DOMAIN ds = D
      /\ \A i \in D : /\ ds[i].fact = facts[i] /\ (ds[i].accepted <=> i \in ok)
                      /\ i \in ok => ds[i].corroboration = Corroboration(facts, ok, seen, i)
                      /\ i \in ok => (ds[i].conflict <=> Conflicts(facts, ok, seen, i))
  BY <1>0 DEF Review, Decision
<1>2. Accepted(ds) = ok
  BY <1>0, <1>1 DEF Accepted
<1>3. ASSUME NEW i \in ok
      PROVE  ds[i].corroboration = Prior(seen, ds[i].fact) + Cardinality(UpTo(ds, ds[i].fact, i))
  <2>1. {j \in Earlier(ok, i) \cup {i} : facts[j] = facts[i]} = UpTo(ds, ds[i].fact, i)
    <3>1. i \in Nat /\ ok \subseteq Nat
      BY <1>0
    <3>2. \A j \in ok : ds[j].fact = facts[j]
      BY <1>0, <1>1
    <3>3. Earlier(ok, i) \cup {i} = {j \in ok : j <= i}
      <4>1. ASSUME NEW j \in ok PROVE j <= i <=> j < i \/ j = i
        <5>1. j \in Nat
          BY <3>1
        <5>2. QED
          BY <3>1, <5>1
      <4>2. QED
        BY <4>1 DEF Earlier
    <3>4. QED
      BY <1>2, <3>2, <3>3 DEF UpTo
  <2>2. QED
    BY <1>0, <1>1, <2>1 DEF Corroboration
<1>4. ASSUME NEW i \in ok
      PROVE  Conflicts(facts, ok, seen, i) <=>
                 /\ ds[i].fact[2] \in Functional
                 /\ ds[i].fact[3] \notin DOMAIN seen[Key(ds[i].fact)]
                 /\ \A j \in Accepted(ds) : j < i => ds[j].fact # ds[i].fact
                 /\ \/ DOMAIN seen[Key(ds[i].fact)] # {}
                    \/ \E j \in Accepted(ds) : j < i /\ Key(ds[j].fact) = Key(ds[i].fact)
  <2>1. /\ ds[i].fact = facts[i] /\ Earlier(ok, i) = {j \in ok : j < i}
        /\ \A j \in ok : ds[j].fact = facts[j]
    BY <1>0, <1>1 DEF Earlier
  <2>2. QED
    BY <1>0, <1>2, <2>1 DEF Conflicts
<1>5. QED
  BY <1>0, <1>1, <1>2, <1>3, <1>4 DEF DecisionsShape, Accepted

LEMMA ReviewFactsDoes ==
    ASSUME Shapes, NEW w \in Worker, ReviewFacts(w)
    PROVE  \E y : /\ Moves(w, y) /\ WorkShape(y) /\ At(w, "existing")
                  /\ y.pc = "write" /\ y.doc = work[w].doc /\ y.seen = work[w].seen
                  /\ y.todo = DOMAIN y.decisions
<1> DEFINE x == work[w]
           d == x.doc
           D == DOMAIN Stated[d]
           doubtful == {i \in D : Stated[d][i] \in Doubtful}
<1>1. x.pc = "existing" /\ Unread(w) = {}
  BY DEF ReviewFacts, At
<1>2. PICK entailed \in SUBSET doubtful :
        work' = [work EXCEPT ![w] = [pc |-> "write", doc |-> d, seen |-> x.seen,
                    decisions |-> Review(x.facts, (D \ doubtful) \cup entailed, x.seen),
                    todo |-> DOMAIN x.facts]]
  BY DEF ReviewFacts, Goto
<1>3. PICK ok : ok = (D \ doubtful) \cup entailed
  OBVIOUS
<1>4. PICK ds : ds = Review(x.facts, ok, x.seen)
  OBVIOUS
<1> DEFINE y == [pc |-> "write", doc |-> d, seen |-> x.seen, decisions |-> ds, todo |-> D]
<1>5. /\ x.facts \in [D -> Fact] /\ SeenShape(x.seen) /\ d \in Doc
  BY <1>1 DEF Shapes, WorkShape
<1>6. \A i \in D : Key(x.facts[i]) \in DOMAIN x.seen
  BY <1>1, <1>5 DEF Unread
<1>7. D \subseteq Nat /\ ok \subseteq D
  BY <1>3, <1>5, ListFacts
<1>8. DOMAIN ds = D /\ Accepted(ds) = ok /\ DecisionsShape(ds, x.seen)
  <2>1. DOMAIN x.facts = D /\ \A i \in D : x.facts[i] \in Fact
    BY <1>5
  <2>2. PICK facts, seen, E : facts = x.facts /\ seen = x.seen /\ E = D
    OBVIOUS
  <2> HIDE DEF D, x
  <2>3. E = DOMAIN facts /\ E \subseteq Nat /\ ok \subseteq E
    BY <1>7, <2>1, <2>2
  <2>4. \A i \in E : facts[i] \in Fact /\ Key(facts[i]) \in DOMAIN seen
    BY <1>6, <2>1, <2>2
  <2>5. Reviewable(facts, ok, seen, E)
    BY <2>3, <2>4 DEF Reviewable
  <2>6. ds = Review(facts, ok, seen)
    BY <1>4, <2>2
  <2>7. DOMAIN ds = E /\ Accepted(ds) = ok /\ DecisionsShape(ds, seen)
    BY <2>5, <2>6, ReviewShape
  <2>8. QED
    BY <2>2, <2>7
<1>9. Moves(w, y)
  BY <1>2, <1>3, <1>4, <1>5, MovesTo
<1>10. WriteShape(y) /\ y.pc = "write" /\ y.doc = d /\ y.seen = x.seen /\ y.todo = DOMAIN y.decisions
  <2>1. \A j : j \notin Accepted(ds) \ D
    BY <1>7, <1>8
  <2>2. QED
    BY <1>5, <1>8, <2>1 DEF WriteShape
<1> HIDE DEF y
<1>11. WorkShape(y)
  BY <1>5, <1>10 DEF WorkShape, Pc, Writing, Renaming, Holding
<1>12. QED
  BY <1>1, <1>9, <1>10, <1>11 DEF At

\* Accepted decisions are written in order.
LEMMA TurnIs ==
    ASSUME Shapes, NEW w \in Worker, At(w, "write"), work[w].todo # {}
    PROVE  LET x == work[w]
               A == Accepted(x.decisions)
               i == Turn(w)
           IN  /\ WriteShape(x) /\ x.doc \in Doc
               /\ DOMAIN x.decisions \subseteq Nat /\ A \subseteq DOMAIN x.decisions /\ IsFiniteSet(A)
               /\ i \in x.todo /\ i \in DOMAIN x.decisions
               /\ x.decisions[i].accepted =>
                    /\ i \in A
                    /\ A \ x.todo = {j \in A : j < i}
                    /\ \A j \in A \cap x.todo : i <= j
<1> DEFINE x == work[w]
           A == Accepted(x.decisions)
           i == Turn(w)
<1>1. WriteShape(x) /\ x.doc \in Doc
  BY DEF At, Shapes, WorkShape, Writing, Holding
<1>2. DOMAIN x.decisions \subseteq Nat /\ IsFiniteSet(DOMAIN x.decisions)
  BY <1>1, ListFacts DEF WriteShape
<1>3. A \subseteq DOMAIN x.decisions /\ \A j \in DOMAIN x.decisions : j \in A <=> x.decisions[j].accepted
  BY DEF Accepted
<1>4. IsFiniteSet(A)
  BY <1>2, <1>3, FS_Subset
<1>5. x.todo \subseteq DOMAIN x.decisions
      /\ \A a \in A \cap x.todo, j \in A \ x.todo : j < a
  BY <1>1 DEF WriteShape
<1>6. i = First(IF x.todo \cap A # {} THEN x.todo \cap A ELSE x.todo)
  BY DEF Turn
<1> HIDE DEF A, i
<1>7. CASE x.todo \cap A # {}
  <2>1. i \in x.todo \cap A /\ \A j \in x.todo \cap A : i <= j
    BY <1>2, <1>3, <1>6, <1>7, FirstIn
  <2>2. A \ x.todo = {j \in A : j < i}
    BY <1>2, <1>3, <1>5, <2>1
  <2>3. QED
    BY <1>1, <1>2, <1>3, <1>4, <2>1, <2>2 DEF A, i
<1>8. CASE x.todo \cap A = {}
  <2>1. i \in x.todo
    BY <1>2, <1>5, <1>6, <1>8, FirstIn
  <2>2. i \notin A
    BY <1>8, <2>1
  <2>3. QED
    BY <1>1, <1>2, <1>3, <1>4, <1>5, <2>1, <2>2 DEF A, i
<1>9. QED
  BY <1>7, <1>8

LEMMA DoneOf ==
    ASSUME NEW x, x.pc = "write", WriteShape(x), IsFiniteSet(Accepted(x.decisions)), NEW t,
           Key(t) \in DOMAIN x.seen
    PROVE  /\ IsFiniteSet(Done(x, t)) /\ Cardinality(Done(x, t)) \in Nat
           /\ Done(x, t) = {} <=> Cardinality(Done(x, t)) = 0
           /\ Prior(x.seen, t) \in Nat /\ Count(x, t) \in Nat
           /\ t[3] \in DOMAIN x.seen[Key(t)] <=> Prior(x.seen, t) # 0
           /\ Count(x, t) = 0 <=> t[3] \notin DOMAIN x.seen[Key(t)] /\ Done(x, t) = {}
<1>1. Done(x, t) \subseteq Accepted(x.decisions)
  BY DEF Done
<1>2. IsFiniteSet(Done(x, t)) /\ Cardinality(Done(x, t)) \in Nat
  BY <1>1, FS_Subset, FS_CardinalityType
<1>3. Done(x, t) = {} <=> Cardinality(Done(x, t)) = 0
  BY <1>2, FS_EmptySet
<1>4. Prior(x.seen, t) \in Nat /\ (t[3] \in DOMAIN x.seen[Key(t)] <=> Prior(x.seen, t) # 0)
  BY DEF WriteShape, SeenShape, Prior
<1>5. QED
  BY <1>2, <1>3, <1>4 DEF Count

LEMMA WriteFactDoes ==
    ASSUME Shapes, NEW w \in Worker, WriteFact(w)
    PROVE  \E y, t, i, conflict :
            /\ Moves(w, y) /\ WorkShape(y) /\ At(w, "write") /\ y.pc = "write"
            /\ y.doc = work[w].doc /\ y.seen = work[w].seen /\ y.decisions = work[w].decisions
            /\ i \in Accepted(y.decisions) /\ y.todo = work[w].todo \ {i}
            /\ y.decisions[i].fact = t /\ t \in Fact /\ Key(t) \in DOMAIN y.seen
            /\ graph' = MergeFact(graph, t, Count(y, t), conflict, y.doc)
            /\ Count(work[w], t) \in Nat /\ Count(y, t) = Count(work[w], t) + 1
            /\ Count(y, t) \in Nat \ {0}
            /\ \A u \in Fact \ {t} : Done(y, u) = Done(work[w], u)
            /\ t[2] \in Functional /\ Count(work[w], t) = 0
               /\ (\E u \in Fact : Key(u) = Key(t) /\ Count(work[w], u) > 0) => conflict
            /\ votes' = [votes EXCEPT ![t] = @ + 1]
            /\ contended' = IF HeldElsewhere(w, Key(t)) THEN contended \cup {Key(t)} ELSE contended
<1> DEFINE x == work[w]
           ds == x.decisions
           A == Accepted(ds)
           i == Turn(w)
           t == ds[i].fact
           c == ds[i].corroboration
           conflict == ds[i].conflict
           todo == x.todo \ {i}
           y == [pc |-> "write", doc |-> x.doc, seen |-> x.seen, decisions |-> ds, todo |-> todo]
<1>1. /\ x.pc = "write" /\ x.todo # {} /\ ds[i].accepted /\ work' = [work EXCEPT ![w].todo = todo]
      /\ graph' = MergeFact(graph, t, c, conflict, x.doc)
      /\ votes' = [votes EXCEPT ![t] = @ + 1]
      /\ contended' = IF HeldElsewhere(w, Key(t)) THEN contended \cup {Key(t)} ELSE contended
  BY DEF WriteFact, At
<1>2. /\ WriteShape(x) /\ x.doc \in Doc /\ DOMAIN ds \subseteq Nat /\ A \subseteq DOMAIN ds
      /\ IsFiniteSet(A) /\ i \in x.todo /\ i \in A
      /\ A \ x.todo = {j \in A : j < i} /\ \A j \in A \cap x.todo : i <= j
  BY <1>1, TurnIs DEF At
<1>3. /\ x = [pc |-> x.pc, doc |-> x.doc, seen |-> x.seen, decisions |-> ds, todo |-> x.todo]
      /\ DOMAIN ds = DOMAIN Stated[x.doc] /\ x.todo \subseteq DOMAIN ds
      /\ SeenShape(x.seen) /\ DecisionsShape(ds, x.seen)
      /\ \A a \in A \cap x.todo, j \in A \ x.todo : j < a
  BY <1>2 DEF WriteShape
<1>4. /\ t \in Fact /\ Key(t) \in DOMAIN x.seen
      /\ c = Prior(x.seen, t) + Cardinality(UpTo(ds, t, i))
      /\ conflict <=>
            /\ t[2] \in Functional /\ t[3] \notin DOMAIN x.seen[Key(t)]
            /\ \A j \in A : j < i => ds[j].fact # t
            /\ DOMAIN x.seen[Key(t)] # {} \/ \E j \in A : j < i /\ Key(ds[j].fact) = Key(t)
  BY <1>1, <1>2, <1>3 DEF DecisionsShape
<1>5. PICK z : work' = [work EXCEPT ![w] = z] /\ z = [x EXCEPT !.todo = todo]
  BY <1>1
<1> HIDE DEF ds, A, i, t, c, conflict
<1>6. z = y
  BY <1>1, <1>3, <1>5
<1>7. /\ y.pc = "write" /\ y.doc = x.doc /\ y.seen = x.seen /\ y.decisions = ds /\ y.todo = todo
      /\ y = [pc |-> y.pc, doc |-> y.doc, seen |-> y.seen, decisions |-> y.decisions, todo |-> y.todo]
  OBVIOUS
<1> HIDE DEF y
<1>8. Moves(w, y)
  BY <1>5, <1>6, MovesTo
<1>9. WriteShape(y)
  <2>1. \A a \in A \cap todo, j \in A \ todo : j < a
    BY <1>2, <1>3
  <2>2. QED
    BY <1>3, <1>7, <2>1 DEF WriteShape, A
<1>10. WorkShape(y)
  BY <1>2, <1>7, <1>9 DEF WorkShape, Pc, Writing, Renaming, Holding
<1>11. /\ Done(x, t) = {j \in A : j < i /\ ds[j].fact = t}
       /\ Done(y, t) = Done(x, t) \cup {i} /\ i \notin Done(x, t) /\ Done(y, t) = UpTo(ds, t, i)
       /\ \A u \in Fact \ {t} : Done(y, u) = Done(x, u)
  <2>1. ds[i].fact = t /\ A \ todo = {j \in A : j < i} \cup {i} /\ i \in Nat /\ A \subseteq Nat
    BY <1>2 DEF t
  <2>2. \A u : /\ Done(x, u) = {j \in A \ x.todo : ds[j].fact = u}
               /\ Done(y, u) = {j \in A \ todo : ds[j].fact = u}
    BY <1>1, <1>7 DEF Done, A, ds
  <2>3. UpTo(ds, t, i) = {j \in A : j <= i /\ ds[j].fact = t}
    BY DEF UpTo, A
  <2>4. Done(x, t) = {j \in A : j < i /\ ds[j].fact = t}
    BY <1>2, <2>2
  <2>5. i \notin Done(x, t)
    BY <2>1, <2>4
  <2>6. Done(y, t) = Done(x, t) \cup {i}
    BY <2>1, <2>2, <2>4
  <2>7. \A j \in A : j <= i <=> j < i \/ j = i
    BY <2>1
  <2>8. UpTo(ds, t, i) = Done(x, t) \cup {i}
    BY <1>2, <2>1, <2>3, <2>4, <2>7
  <2>9. \A u \in Fact \ {t} : Done(y, u) = Done(x, u)
    BY <1>2, <2>1, <2>2
  <2>10. QED
    BY <2>4, <2>5, <2>6, <2>8, <2>9
<1>12. \A u : Key(u) = Key(t) =>
        /\ IsFiniteSet(Done(x, u)) /\ Cardinality(Done(x, u)) \in Nat
        /\ Prior(x.seen, u) \in Nat /\ Count(x, u) \in Nat
        /\ Count(x, u) = 0 <=> u[3] \notin DOMAIN x.seen[Key(u)] /\ Done(x, u) = {}
  BY <1>1, <1>2, <1>4, DoneOf DEF A, ds
<1>13. c = Count(y, t) /\ Count(y, t) = Count(x, t) + 1
  <2>1. Cardinality(Done(y, t)) = Cardinality(Done(x, t)) + 1
    BY <1>11, <1>12, FS_AddElement
  <2>2. Prior(x.seen, t) \in Nat /\ Cardinality(Done(x, t)) \in Nat
    BY <1>12
  <2>3. /\ c = Prior(x.seen, t) + Cardinality(Done(y, t))
        /\ Count(y, t) = Prior(x.seen, t) + Cardinality(Done(y, t))
        /\ Count(x, t) = Prior(x.seen, t) + Cardinality(Done(x, t))
    BY <1>4, <1>7, <1>11 DEF Count
  <2>4. QED
    BY <2>1, <2>2, <2>3
<1>14. ASSUME t[2] \in Functional, Count(x, t) = 0,
              NEW u \in Fact, Key(u) = Key(t), Count(x, u) > 0
       PROVE  conflict
  <2>1. t[3] \notin DOMAIN x.seen[Key(t)] /\ Done(x, t) = {}
    BY <1>12, <1>14
  <2>2. \A j \in A : j < i => ds[j].fact # t
    BY <1>11, <2>1
  <2>3. u[3] \in DOMAIN x.seen[Key(t)] \/ Done(x, u) # {}
    BY <1>12, <1>14
  <2>4. CASE Done(x, u) # {}
    <3>1. PICK j \in A \ x.todo : ds[j].fact = u
      BY <1>1, <2>4 DEF Done, A, ds
    <3>2. QED
      BY <1>2, <1>4, <1>14, <2>1, <2>2, <3>1
  <2>5. QED
    BY <1>4, <1>14, <2>1, <2>2, <2>3, <2>4
<1>15. t[2] \in Functional /\ Count(x, t) = 0
       /\ (\E u \in Fact : Key(u) = Key(t) /\ Count(x, u) > 0) => conflict
  BY <1>14
<1>16. graph' = MergeFact(graph, t, Count(y, t), conflict, y.doc)
  BY <1>1, <1>7, <1>13 DEF c, conflict, t
<1>17. /\ i \in Accepted(y.decisions) /\ y.todo = x.todo \ {i} /\ y.decisions[i].fact = t
       /\ y.decisions = x.decisions /\ Count(x, t) \in Nat /\ Count(y, t) \in Nat \ {0}
       /\ votes' = [votes EXCEPT ![t] = @ + 1]
       /\ contended' = IF HeldElsewhere(w, Key(t)) THEN contended \cup {Key(t)} ELSE contended
  BY <1>1, <1>2, <1>7, <1>12, <1>13 DEF A, ds, t
<1> HIDE DEF x
<1>18. QED
  BY <1>1, <1>4, <1>7, <1>8, <1>10, <1>11, <1>13, <1>15, <1>16, <1>17 DEF x, At

LEMMA WriteRejectedDoes ==
    ASSUME Shapes, NEW w \in Worker, WriteRejected(w)
    PROVE  \E y, t :
            /\ Moves(w, y) /\ WorkShape(y) /\ At(w, "write") /\ y.pc = "write"
            /\ y.doc = work[w].doc /\ y.seen = work[w].seen /\ y.decisions = work[w].decisions
            /\ Accepted(y.decisions) \ y.todo = Accepted(y.decisions) \ work[w].todo
            /\ graph' = MergeRejected(graph, t, y.doc)
<1> DEFINE x == work[w]
           ds == x.decisions
           A == Accepted(ds)
           i == Turn(w)
           t == ds[i].fact
           todo == x.todo \ {i}
           y == [pc |-> "write", doc |-> x.doc, seen |-> x.seen, decisions |-> ds, todo |-> todo]
<1>1. /\ x.pc = "write" /\ x.todo # {} /\ ~ds[i].accepted /\ work' = [work EXCEPT ![w].todo = todo]
      /\ graph' = MergeRejected(graph, t, x.doc)
  BY DEF WriteRejected, At
<1>2. WriteShape(x) /\ x.doc \in Doc /\ i \notin A
  BY <1>1, TurnIs DEF At, Accepted
<1> HIDE DEF ds, A, i, t
<1>3. /\ x = [pc |-> x.pc, doc |-> x.doc, seen |-> x.seen, decisions |-> ds, todo |-> x.todo]
      /\ DOMAIN ds = DOMAIN Stated[x.doc] /\ x.todo \subseteq DOMAIN ds
      /\ SeenShape(x.seen) /\ DecisionsShape(ds, x.seen)
      /\ \A a \in A \cap x.todo, j \in A \ x.todo : j < a
  BY <1>2 DEF WriteShape, A, ds
<1>4. PICK z : work' = [work EXCEPT ![w] = z] /\ z = [x EXCEPT !.todo = todo]
  BY <1>1
<1>5. z = y
  BY <1>1, <1>3, <1>4
<1>6. /\ y.pc = "write" /\ y.doc = x.doc /\ y.seen = x.seen /\ y.decisions = ds /\ y.todo = todo
      /\ y = [pc |-> y.pc, doc |-> y.doc, seen |-> y.seen, decisions |-> y.decisions, todo |-> y.todo]
  OBVIOUS
<1> HIDE DEF y
<1>7. Moves(w, y)
  BY <1>4, <1>5, MovesTo
<1>8. A \ todo = A \ x.todo
  BY <1>2
<1>9. WriteShape(y)
  BY <1>3, <1>6, <1>8 DEF WriteShape, A
<1>10. WorkShape(y)
  BY <1>2, <1>6, <1>9 DEF WorkShape, Pc, Writing, Renaming, Holding
<1>11. y.decisions = x.decisions /\ Accepted(y.decisions) \ y.todo = Accepted(y.decisions) \ x.todo
  BY <1>6, <1>8 DEF A, ds
<1> HIDE DEF x
<1>12. QED
  BY <1>1, <1>6, <1>7, <1>10, <1>11 DEF x, At

LEMMA EndsDo ==
    ASSUME Shapes, NEW w \in Worker, Complete(w) \/ Fail(w)
    PROVE  Moves(w, Idle) /\ WorkShape(Idle) /\ Idle.pc = "idle"
<1>1. work' = [work EXCEPT ![w] = Idle]
  BY DEF Complete, Fail, Goto
<1>2. Idle.pc = "idle" /\ WorkShape(Idle)
  BY DEF Idle, WorkShape, Pc, Writing, Renaming, Holding
<1>3. QED
  BY <1>1, <1>2, MovesTo

-------------------------------------------------------------------------------
(* The shape of the state is kept *)

\* What a statement on the graph may do to it: a node keeps its CIK or is new
\* and has none, an edge keeps its documents, and names are names.
Grows(g, h) ==
    /\ GraphShape(h) /\ g.documents \subseteq h.documents
    /\ DOMAIN g.nodes \subseteq DOMAIN h.nodes
    /\ DOMAIN g.edges \subseteq DOMAIN h.edges /\ g.mentions \subseteq h.mentions
    /\ \A t, d : Stands(g, t, d) => Stands(h, t, d)

SameNodes(g, h) ==
    \A n \in DOMAIN h.nodes :
        h.nodes[n].cik = None \/ (n \in DOMAIN g.nodes /\ h.nodes[n].cik = g.nodes[n].cik)

LEMMA MergeDocumentGrows ==
    ASSUME NEW g, GraphShape(g), NEW d \in Doc, NEW h, h = MergeDocument(g, d)
    PROVE  /\ Grows(g, h) /\ SameNodes(g, h) /\ h.edges = g.edges
           /\ h.documents = g.documents \cup {d}
<1>1. /\ h.nodes = g.nodes /\ h.edges = g.edges /\ h.documents = g.documents \cup {d} /\ GraphShape(h)
      /\ h.mentions = g.mentions
  BY DEF MergeDocument, GraphShape
<1>2. QED
  BY <1>1 DEF Grows, SameNodes, Stands

LEMMA MergeEntityGrows ==
    ASSUME NEW g, GraphShape(g), NEW n \in Entity, NEW cik \in Cik \cup {None}, NEW norm,
           NEW h, h = MergeEntity(g, n, cik, norm)
    PROVE  /\ Grows(g, h) /\ h.edges = g.edges /\ h.documents = g.documents
           /\ DOMAIN h.nodes = DOMAIN g.nodes \cup {n}
           /\ cik # None => h.nodes[n].cik = cik
           /\ cik = None => SameNodes(g, h)
           /\ \A m \in DOMAIN g.nodes \ {n} : h.nodes[m].cik = g.nodes[m].cik
<1> DEFINE with == WithNodes(g, {n})
           node == [cik |-> IF cik = None THEN with[n].cik ELSE cik, norm |-> norm]
           nodes == [with EXCEPT ![n] = node]
<1>1. /\ DOMAIN with = DOMAIN g.nodes \cup {n} /\ \A m \in DOMAIN g.nodes : with[m] = g.nodes[m]
      /\ n \notin DOMAIN g.nodes => with[n].cik = None
      /\ \A m \in DOMAIN with : with[m] = [cik |-> with[m].cik, norm |-> with[m].norm]
  BY DEF WithNodes, GraphShape
<1>2. h = [g EXCEPT !.nodes = nodes]
  BY DEF MergeEntity
<1>3. /\ node.cik = IF cik = None THEN with[n].cik ELSE cik
      /\ node = [cik |-> node.cik, norm |-> node.norm] /\ nodes = [m \in DOMAIN nodes |-> nodes[m]]
      /\ DOMAIN nodes = DOMAIN with /\ nodes[n] = node
      /\ \A m \in DOMAIN with \ {n} : nodes[m] = with[m]
  <2> HIDE DEF node
  <2>1. with = [m \in DOMAIN with |-> with[m]]
    BY DEF WithNodes
  <2> HIDE DEF with
  <2>2. DOMAIN nodes = DOMAIN with /\ \A m \in DOMAIN with \ {n} : nodes[m] = with[m]
    BY <2>1
  <2>3. nodes[n] = node
    BY <1>1, <2>1
  <2>4. QED
    BY <2>2, <2>3 DEF node
<1> HIDE DEF with, node, nodes
<1>4. /\ h = [nodes |-> nodes, edges |-> g.edges, mentions |-> g.mentions,
              rejected |-> g.rejected, documents |-> g.documents]
  BY <1>2 DEF GraphShape
<1>5. \A m \in DOMAIN nodes :
        /\ nodes[m].cik \in Cik \cup {None}
        /\ nodes[m] = [cik |-> nodes[m].cik, norm |-> nodes[m].norm]
  BY <1>1, <1>3 DEF GraphShape
<1>6. GraphShape(h)
  BY <1>1, <1>3, <1>4, <1>5 DEF GraphShape
<1>7. h.nodes = nodes /\ h.edges = g.edges /\ h.documents = g.documents /\ h.mentions = g.mentions
  BY <1>4
<1>8. cik = None => SameNodes(g, h)
  BY <1>1, <1>3, <1>7 DEF SameNodes
<1>9. Grows(g, h)
  BY <1>1, <1>3, <1>6, <1>7 DEF Grows, Stands
<1>10. QED
  BY <1>1, <1>3, <1>7, <1>8, <1>9

LEMMA MergeMentionGrows ==
    ASSUME NEW g, GraphShape(g), NEW d, NEW n, NEW h, h = MergeMention(g, d, n)
    PROVE  /\ Grows(g, h) /\ SameNodes(g, h) /\ h.edges = g.edges /\ h.documents = g.documents
<1>1. /\ h.nodes = g.nodes /\ h.edges = g.edges /\ h.documents = g.documents /\ GraphShape(h)
      /\ g.mentions \subseteq h.mentions
  <2>1. CASE ~(d \in g.documents /\ n \in DOMAIN g.nodes)
    BY <2>1 DEF MergeMention
  <2>2. CASE d \in g.documents /\ n \in DOMAIN g.nodes
    <3> DEFINE mentions == g.mentions \cup {<<d, n>>}
    <3>1. mentions \subseteq Doc \X Entity
      BY <2>2 DEF GraphShape
    <3>2. h = [g EXCEPT !.mentions = mentions]
      BY <2>2 DEF MergeMention
    <3>3. g.mentions \subseteq mentions
      OBVIOUS
    <3> HIDE DEF mentions
    <3>4. h = [nodes |-> g.nodes, edges |-> g.edges, mentions |-> mentions,
               rejected |-> g.rejected, documents |-> g.documents]
      BY <3>2 DEF GraphShape
    <3>5. h.nodes = g.nodes /\ h.edges = g.edges /\ h.documents = g.documents /\ h.mentions = mentions
          /\ h = [nodes |-> h.nodes, edges |-> h.edges, mentions |-> h.mentions,
                  rejected |-> h.rejected, documents |-> h.documents]
      BY <3>4
    <3>6. QED
      BY <3>1, <3>3, <3>5 DEF GraphShape
  <2>3. QED
    BY <2>1, <2>2
<1>2. QED
  BY <1>1 DEF Grows, SameNodes, Stands

LEMMA MergeRejectedGrows ==
    ASSUME NEW g, GraphShape(g), NEW t, NEW d, NEW h, h = MergeRejected(g, t, d)
    PROVE  /\ Grows(g, h) /\ SameNodes(g, h) /\ h.edges = g.edges /\ h.documents = g.documents
<1>1. /\ h.nodes = g.nodes /\ h.edges = g.edges /\ h.documents = g.documents /\ GraphShape(h)
      /\ h.mentions = g.mentions
  BY DEF MergeRejected, GraphShape
<1>2. QED
  BY <1>1 DEF Grows, SameNodes, Stands

LEMMA MergeFactGrows ==
    ASSUME NEW g, GraphShape(g), NEW t \in Fact, NEW c \in Nat \ {0}, NEW conflict, NEW d,
           NEW h, h = MergeFact(g, t, c, conflict, d)
    PROVE  /\ Grows(g, h) /\ SameNodes(g, h) /\ h.documents = g.documents
           /\ DOMAIN h.edges = DOMAIN g.edges \cup {t}
           /\ h.edges[t].corroboration = c /\ h.edges[t].conflict = conflict
           /\ Stands(h, t, d)
           /\ \A u \in DOMAIN g.edges \ {t} : h.edges[u] = g.edges[u]
<1> DEFINE nodes == WithNodes(g, {t[1], t[3]})
           edge == [corroboration |-> c, conflict |-> conflict,
                    doc_ids |-> (IF t \in DOMAIN g.edges THEN g.edges[t].doc_ids ELSE {}) \cup {d}]
           edges == [u \in DOMAIN g.edges \cup {t} |-> IF u = t THEN edge ELSE g.edges[u]]
<1>1. h = [g EXCEPT !.nodes = nodes, !.edges = edges]
  BY DEF MergeFact
<1>2. /\ DOMAIN nodes = DOMAIN g.nodes \cup {t[1], t[3]}
      /\ \A n \in DOMAIN g.nodes : nodes[n] = g.nodes[n]
      /\ \A n \in DOMAIN nodes \ DOMAIN g.nodes :
            nodes[n].cik = None /\ nodes[n] = [cik |-> nodes[n].cik, norm |-> nodes[n].norm]
      /\ nodes = [n \in DOMAIN nodes |-> nodes[n]]
  BY DEF WithNodes
<1>3. DOMAIN edges = DOMAIN g.edges \cup {t} /\ edges[t] = edge
      /\ \A u \in DOMAIN g.edges \ {t} : edges[u] = g.edges[u]
  OBVIOUS
<1>4. /\ edge.corroboration = c /\ edge.conflict = conflict /\ d \in edge.doc_ids
      /\ t \in DOMAIN g.edges => g.edges[t].doc_ids \subseteq edge.doc_ids
  OBVIOUS
<1> HIDE DEF nodes, edges, edge
<1>5. h = [nodes |-> nodes, edges |-> edges, mentions |-> g.mentions,
           rejected |-> g.rejected, documents |-> g.documents]
  BY <1>1 DEF GraphShape
<1>6. /\ h.nodes = nodes /\ h.edges = edges /\ h.documents = g.documents /\ h.mentions = g.mentions
      /\ h = [nodes |-> h.nodes, edges |-> h.edges, mentions |-> h.mentions,
              rejected |-> h.rejected, documents |-> h.documents]
  BY <1>5
<1>7. t[1] \in Entity /\ t[3] \in Entity
  BY DEF Fact
<1>8. \A n \in DOMAIN nodes :
        /\ nodes[n].cik \in Cik \cup {None}
        /\ nodes[n] = [cik |-> nodes[n].cik, norm |-> nodes[n].norm]
  BY <1>2 DEF GraphShape
<1>9. GraphShape(h)
  <2>1. \A u \in DOMAIN edges : edges[u].corroboration \in Nat \ {0}
    BY <1>3, <1>4 DEF GraphShape
  <2>2. QED
    BY <1>2, <1>3, <1>6, <1>7, <1>8, <2>1 DEF GraphShape
<1>10. SameNodes(g, h)
  BY <1>2, <1>6 DEF SameNodes
<1>11. \A u, e : Stands(g, u, e) => Stands(h, u, e)
  BY <1>3, <1>4, <1>6 DEF Stands
<1>12. Stands(h, t, d)
  BY <1>3, <1>4, <1>6 DEF Stands
<1>13. QED
  BY <1>2, <1>3, <1>4, <1>6, <1>9, <1>10, <1>11, <1>12 DEF Grows

\* What each step does to the graph as a whole.
LEMMA GraphGrows ==
    ASSUME Shapes, [Next]_vars
    PROVE  Grows(graph, graph')
<1>1. GraphShape(graph)
  BY DEF Shapes
<1>2. Grows(graph, graph)
  BY <1>1 DEF Grows
<1>3. ASSUME NEW v \in Worker, WriteDocument(v) PROVE Grows(graph, graph')
  <2>1. work[v].doc \in Doc /\ graph' = MergeDocument(graph, work[v].doc)
    BY <1>3 DEF WriteDocument, At, Shapes, WorkShape
  <2>2. QED
    BY <1>1, <2>1, MergeDocumentGrows
<1>4. ASSUME NEW v \in Worker, WriteEntity(v) PROVE Grows(graph, graph')
  <2>1. PICK y, m, cik : /\ y.canon[m] \in Entity /\ cik \in Cik \cup {None}
                         /\ graph' = MergeEntity(graph, y.canon[m], cik, NormOf[m])
    BY <1>4, WriteEntityDoes
  <2>2. QED
    BY <1>1, <2>1, MergeEntityGrows
<1>5. ASSUME NEW v \in Worker, WriteMention(v) PROVE Grows(graph, graph')
  <2>1. PICK n : graph' = MergeMention(graph, work[v].doc, n)
    BY <1>5 DEF WriteMention
  <2>2. QED
    BY <1>1, <2>1, MergeMentionGrows
<1>6. ASSUME NEW v \in Worker, WriteFact(v) PROVE Grows(graph, graph')
  <2>1. PICK y, t, conflict : /\ t \in Fact /\ Count(y, t) \in Nat \ {0}
                              /\ graph' = MergeFact(graph, t, Count(y, t), conflict, y.doc)
    BY <1>6, WriteFactDoes
  <2>2. QED
    BY <1>1, <2>1, MergeFactGrows
<1>7. ASSUME NEW v \in Worker, WriteRejected(v) PROVE Grows(graph, graph')
  <2>1. PICK t : graph' = MergeRejected(graph, t, work[v].doc)
    BY <1>7 DEF WriteRejected
  <2>2. QED
    BY <1>1, <2>1, MergeRejectedGrows
<1>8. QED
  BY <1>2, <1>3, <1>4, <1>5, <1>6, <1>7
     DEF Next, vars, Begin, Enqueue, SetProvenance, Canonicalise, NamesChosen, BuildTriples,
         ReadExisting, ReviewFacts, Complete, Fail

StepOf(w) ==
    \/ \E d \in Doc : Begin(w, d)
    \/ Enqueue(w) \/ SetProvenance(w)
    \/ WriteDocument(w) \/ Canonicalise(w) \/ NamesChosen(w)
    \/ WriteEntity(w) \/ WriteMention(w)
    \/ BuildTriples(w) \/ ReadExisting(w) \/ ReviewFacts(w)
    \/ WriteFact(w) \/ WriteRejected(w)
    \/ Complete(w) \/ Fail(w)

LEMMA NextIsAStep ==
    Next <=> \E w \in Worker : StepOf(w)
  BY DEF Next, StepOf

LEMMA StepMoves ==
    ASSUME Shapes, NEW w \in Worker, StepOf(w)
    PROVE  \E y : Moves(w, y) /\ WorkShape(y)
<1>1. CASE \E d \in Doc : Begin(w, d)
  BY <1>1, BeginDoes
<1>2. CASE Enqueue(w) \/ SetProvenance(w) \/ WriteDocument(w)
  BY <1>2, EnqueueDoes, SetProvenanceDoes, WriteDocumentDoes
<1>3. CASE Canonicalise(w)
  BY <1>3, CanonicaliseDoes
<1>4. CASE NamesChosen(w) \/ WriteEntity(w) \/ WriteMention(w)
  BY <1>4, NamesChosenDoes, WriteEntityDoes, WriteMentionDoes
<1>5. CASE BuildTriples(w) \/ ReviewFacts(w)
  BY <1>5, BuildTriplesDoes, ReviewFactsDoes
<1>6. CASE ReadExisting(w)
  BY <1>6, ReadExistingDoes
<1>7. CASE WriteFact(w)
  BY <1>7, WriteFactDoes
<1>8. CASE WriteRejected(w)
  BY <1>8, WriteRejectedDoes
<1>9. CASE Complete(w) \/ Fail(w)
  BY <1>9, EndsDo
<1>10. QED
  BY <1>1, <1>2, <1>3, <1>4, <1>5, <1>6, <1>7, <1>8, <1>9 DEF StepOf

LEMMA ShapesKept ==
    ASSUME Shapes, [Next]_vars PROVE Shapes'
<1>1. GraphShape(graph')
  BY GraphGrows DEF Grows
<1>2. CASE UNCHANGED vars
  BY <1>2 DEF vars, Shapes
<1>3. CASE Next
  <2>1. PICK w \in Worker : StepOf(w)
    BY <1>3, NextIsAStep
  <2>2. PICK y : Moves(w, y) /\ WorkShape(y)
    BY <2>1, StepMoves
  <2>3. work' = [v \in Worker |-> work'[v]] /\ \A v \in Worker : WorkShape(work'[v])
    BY <2>2 DEF Moves, Shapes
  <2>4. votes' \in [Fact -> Nat]
    <3>1. CASE WriteFact(w)
      BY <3>1, WriteFactDoes DEF Shapes
    <3>2. CASE ~WriteFact(w)
      <4>1. CASE (\E d \in Doc : Begin(w, d)) \/ Enqueue(w) \/ SetProvenance(w)
                 \/ WriteDocument(w) \/ NamesChosen(w) \/ WriteEntity(w) \/ WriteMention(w)
        BY <4>1 DEF Shapes, history, Begin, Enqueue, SetProvenance, WriteDocument, NamesChosen,
                    WriteEntity, WriteMention
      <4>2. CASE Canonicalise(w)
        BY <4>2 DEF Shapes, Canonicalise
      <4>3. CASE BuildTriples(w) \/ ReadExisting(w) \/ ReviewFacts(w) \/ WriteRejected(w)
                 \/ Complete(w) \/ Fail(w)
        BY <4>3 DEF Shapes, history, BuildTriples, ReadExisting, ReviewFacts, WriteRejected,
                    Complete, Fail
      <4>4. QED
        BY <2>1, <3>2, <4>1, <4>2, <4>3 DEF StepOf
    <3>3. QED
      BY <3>1, <3>2
  <2>5. QED
    BY <1>1, <2>3, <2>4 DEF Shapes
<1>4. QED
  BY <1>2, <1>3

-------------------------------------------------------------------------------
(* Every unresolved mention of a written document is queued with it *)

LEMMA ResolvingKeeps ==
    ASSUME Shapes, NEW w \in Worker, NEW y, Moves(w, y), WorkShape(y), QueueInv,
           queue' = queue, y.pc # "attribute", Asking(w, y, queue), uploaded' \subseteq Doc,
           \A d \in uploaded' : d \in uploaded
              \/ \A i \in Unresolved(d) : Queued(queue, Mentions[d][i], d)
    PROVE  QueueInv'
<1>1. queue' \in Seq(Row) /\ \A r \in DOMAIN queue' : CikOf[queue'[r].mention] = None
  BY DEF QueueInv
<1>2. \A v \in Worker : Asking(v, work'[v], queue')
  BY DEF QueueInv, Moves
<1>3. \A v \in Worker : work'[v].pc = "attribute" => v # w /\ work'[v] = work[v]
  BY DEF Moves
<1>4. \A u, v \in Worker : u # v /\ work'[u].pc = "attribute" /\ work'[v].pc = "attribute"
        => work'[u].row # work'[v].row
  BY <1>3 DEF QueueInv, At
<1>5. MentionsQueued'
  BY DEF QueueInv, MentionsQueued, Queued
<1>6. QED
  BY <1>1, <1>2, <1>4, <1>5 DEF QueueInv, At

LEMMA EnqueueKeepsQueue ==
    ASSUME Shapes, QueueInv, NEW w \in Worker, Enqueue(w) PROVE QueueInv'
<1>1. PICK y, i :
        /\ Moves(w, y) /\ WorkShape(y) /\ At(w, "resolve")
        /\ y.pc = "attribute" /\ y.doc = work[w].doc /\ y.row = Len(queue) + 1
        /\ i \in work[w].todo /\ i \in Unresolved(work[w].doc) /\ y.todo = work[w].todo \ {i}
        /\ queue' = Append(queue, [mention |-> Mentions[work[w].doc][i], doc |-> None])
  BY EnqueueDoes
<1>2. PICK q, d, m, row : /\ q = queue /\ d = work[w].doc /\ m = Mentions[d][i]
                          /\ row = [mention |-> m, doc |-> None]
  OBVIOUS
<1>3. /\ d \in Doc /\ i \in DOMAIN Mentions[d] /\ m \in Entity /\ CikOf[m] = None
  BY <1>1, <1>2, ListFacts DEF Shapes, WorkShape, At, Unresolved
<1>15. w \in Uploader /\ Resolving(work[w], q)
  BY <1>1, <1>2 DEF QueueInv, Asking, At
<1>4. row \in Row /\ q \in Seq(Row)
  BY <1>2, <1>3 DEF Row, QueueInv
<1>5. /\ queue' \in Seq(Row) /\ Len(q) \in Nat /\ DOMAIN q = 1 .. Len(q)
      /\ DOMAIN queue' = 1 .. Len(q) + 1
      /\ queue'[Len(q) + 1] = row /\ \A r \in DOMAIN q : queue'[r] = q[r]
  <2>1. queue' = Append(q, row)
    BY <1>1, <1>2
  <2>2. QED
    BY <1>4, <2>1, AppendProperties, LenProperties
<1>6. \A n, e : Queued(q, n, e) => Queued(queue', n, e)
  BY <1>5 DEF Queued
<1>7. \A r \in DOMAIN queue' : CikOf[queue'[r].mention] = None
  BY <1>2, <1>3, <1>5 DEF QueueInv
<1>8. ASSUME NEW v \in Worker \ {w} PROVE Asking(v, work'[v], queue')
  <2>1. PICK x : x = work[v] /\ x = work'[v] /\ Asking(v, x, q)
    BY <1>1, <1>2 DEF Moves, QueueInv
  <2>2. CASE v \in Uploader
    <3>1. Resolving(x, q)
      BY <2>1, <2>2 DEF Asking
    <3>2. x.pc = "attribute" => x.row \in DOMAIN queue' /\ queue'[x.row] = q[x.row]
      BY <1>5, <3>1 DEF Resolving
    <3>3. Resolving(x, queue')
      BY <1>6, <3>1, <3>2 DEF Resolving
    <3>4. QED
      BY <2>1, <2>2, <3>3 DEF Asking
  <2>3. CASE v \notin Uploader
    BY <2>1, <2>3 DEF Asking
  <2>4. QED
    BY <2>2, <2>3
<1>9. Resolving(y, queue')
  <2>1. y.row \in DOMAIN queue' /\ queue'[y.row] = row
    BY <1>1, <1>2, <1>5
  <2>2. \A j \in Unresolved(d) \ work[w].todo : Queued(q, Mentions[d][j], d)
    BY <1>1, <1>2, <1>15 DEF Resolving, At
  <2>3. y.doc = d /\ \A j \in Unresolved(d) \ y.todo : j = i \/ j \notin work[w].todo
    BY <1>1, <1>2
  <2>4. row.mention = m /\ row = [mention |-> row.mention, doc |-> None]
    BY <1>2
  <2>5. \A j \in Unresolved(d) \ y.todo :
           Mentions[d][j] = m \/ Queued(queue', Mentions[d][j], d)
    BY <1>2, <1>6, <2>2, <2>3
  <2>6. QED
    BY <1>1, <2>1, <2>3, <2>4, <2>5 DEF Resolving
<1>10. \A v \in Worker : Asking(v, work'[v], queue')
  <2>1. Asking(w, work'[w], queue')
    BY <1>1, <1>9, <1>15 DEF Moves, Asking
  <2>2. QED
    BY <1>8, <2>1
<1>11. \A v \in Worker \ {w} : work'[v].pc = "attribute" => work'[v].row \in DOMAIN q
  BY <1>1, <1>2 DEF Moves, QueueInv, Asking, Resolving
<1>12. \A u, v \in Worker : u # v /\ work'[u].pc = "attribute" /\ work'[v].pc = "attribute"
         => work'[u].row # work'[v].row
  BY <1>1, <1>2, <1>5, <1>11 DEF Moves, QueueInv, At
<1>13. MentionsQueued'
  <2>1. uploaded' = uploaded
    BY DEF Enqueue, history
  <2>2. \A e \in uploaded : \A j \in Unresolved(e) : Queued(q, Mentions[e][j], e)
    BY <1>2 DEF QueueInv, MentionsQueued, Queued
  <2>3. \A e \in uploaded : \A j \in Unresolved(e) : Queued(queue', Mentions[e][j], e)
    BY <1>6, <2>2
  <2>4. QED
    BY <2>1, <2>3 DEF MentionsQueued, Queued
<1>14. uploaded' \subseteq Doc
  BY DEF QueueInv, Enqueue, history
<1>16. QED
  BY <1>5, <1>7, <1>10, <1>12, <1>13, <1>14 DEF QueueInv, At

LEMMA SetProvenanceKeepsQueue ==
    ASSUME Shapes, QueueInv, NEW w \in Worker, SetProvenance(w) PROVE QueueInv'
<1>1. PICK y : /\ Moves(w, y) /\ WorkShape(y)
               /\ y.pc = "resolve" /\ y.doc = work[w].doc /\ y.todo = work[w].todo
  BY SetProvenanceDoes
<1>2. PICK q, d, at : q = queue /\ d = work[w].doc /\ at = work[w].row
  OBVIOUS
<1>3. /\ work[w].pc = "attribute" /\ queue' = [q EXCEPT ![at].doc = d] /\ uploaded' = uploaded
  BY <1>2 DEF SetProvenance, At, history
<1>16. w \in Uploader /\ Resolving(work[w], q)
  BY <1>2, <1>3 DEF QueueInv, Asking
<1>4. d \in Doc /\ d # None
  BY <1>2, <1>3, IngestAssumption DEF Shapes, WorkShape
<1>5. /\ q \in Seq(Row) /\ at \in DOMAIN q /\ q[at] = [mention |-> q[at].mention, doc |-> None]
      /\ \A i \in Unresolved(d) \ work[w].todo :
            Mentions[d][i] = q[at].mention \/ Queued(q, Mentions[d][i], d)
  BY <1>2, <1>3, <1>16 DEF QueueInv, Resolving
<1>6. /\ DOMAIN queue' = DOMAIN q /\ queue'[at] = [mention |-> q[at].mention, doc |-> d]
      /\ \A r \in DOMAIN q \ {at} : queue'[r] = q[r]
  BY <1>3, <1>5
<1>7. queue' \in Seq(Row)
  <2>1. [mention |-> q[at].mention, doc |-> d] \in Row
    BY <1>4, <1>5 DEF Row
  <2>2. Len(q) \in Nat /\ DOMAIN q = 1 .. Len(q) /\ \A r \in DOMAIN q : q[r] \in Row
    BY <1>5, LenProperties
  <2>3. queue' = [r \in 1 .. Len(q) |-> queue'[r]]
    BY <1>3, <1>5, <2>2
  <2>4. \A r \in 1 .. Len(q) : queue'[r] \in Row
    BY <1>6, <2>1, <2>2
  <2>5. QED
    BY <2>2, <2>3, <2>4, SeqDef
<1>8. \A n, e : Queued(q, n, e) /\ e \in Doc => Queued(queue', n, e)
  BY <1>4, <1>5, <1>6, IngestAssumption DEF Queued
<1>9. \A r \in DOMAIN queue' : CikOf[queue'[r].mention] = None
  BY <1>2, <1>5, <1>6 DEF QueueInv
<1>10. ASSUME NEW v \in Worker \ {w}, v \in Uploader PROVE Resolving(work'[v], queue')
  <2>1. PICK x : x = work[v] /\ x = work'[v] /\ Resolving(x, q) /\ WorkShape(x)
    BY <1>1, <1>2, <1>10 DEF Moves, QueueInv, Asking, Shapes
  <2>2. x.pc = "attribute" => x.row # at
    BY <1>2, <1>3, <2>1 DEF QueueInv, At
  <2>3. x.pc \in {"attribute", "resolve"} => x.doc \in Doc
    BY <2>1 DEF WorkShape
  <2>4. x.pc = "attribute" => x.row \in DOMAIN q /\ queue'[x.row] = q[x.row]
    BY <1>6, <2>1, <2>2 DEF Resolving
  <2>5. Resolving(x, queue')
    BY <1>6, <1>8, <2>1, <2>3, <2>4 DEF Resolving
  <2>6. QED
    BY <2>1, <2>5
<1>11. Resolving(y, queue')
  <2>1. \A i \in Unresolved(d) \ work[w].todo : Queued(queue', Mentions[d][i], d)
    BY <1>4, <1>5, <1>6, <1>8 DEF Queued
  <2>2. QED
    BY <1>1, <1>2, <2>1 DEF Resolving
<1>12. \A v \in Worker : Asking(v, work'[v], queue')
  <2>1. ASSUME NEW v \in Worker \ {w} PROVE Asking(v, work'[v], queue')
    BY <1>1, <1>10 DEF Moves, QueueInv, Asking
  <2>2. QED
    BY <1>1, <1>11, <1>16, <2>1 DEF Moves, Asking
<1>13. \A u, v \in Worker : u # v /\ work'[u].pc = "attribute" /\ work'[v].pc = "attribute"
         => work'[u].row # work'[v].row
  BY <1>1 DEF Moves, QueueInv, At
<1>14. MentionsQueued'
  <2>1. ASSUME NEW e \in uploaded, NEW i \in Unresolved(e)
        PROVE  Queued(queue', Mentions[e][i], e)
    <3>1. PICK r \in DOMAIN q : q[r] = [mention |-> Mentions[e][i], doc |-> e]
      BY <1>2 DEF QueueInv, MentionsQueued
    <3>2. e # None
      BY IngestAssumption DEF QueueInv
    <3>3. r # at
      BY <1>5, <3>1, <3>2
    <3>4. QED
      BY <1>6, <3>1, <3>3 DEF Queued
  <2>2. QED
    BY <1>3, <2>1 DEF MentionsQueued, Queued
<1>15. QED
  BY <1>3, <1>7, <1>9, <1>12, <1>13, <1>14 DEF QueueInv, At

LEMMA QueueKept ==
    ASSUME Shapes, QueueInv, NEW w \in Worker, StepOf(w) PROVE QueueInv'
<1>1. CASE \E d \in Doc : Begin(w, d)
  <2>1. PICK d \in Doc : Begin(w, d)
    BY <1>1
  <2>2. PICK y : /\ Moves(w, y) /\ WorkShape(y)
                 /\ y.pc = "resolve" /\ y.doc = d
                 /\ y.todo = {i \in Unresolved(d) : w \in Uploader}
    BY <2>1, BeginDoes
  <2>3. queue' = queue /\ uploaded' = uploaded /\ uploaded \subseteq Doc
    BY <2>1 DEF Begin, history, QueueInv
  <2>4. Asking(w, y, queue)
    BY <2>2 DEF Asking, Resolving
  <2>5. QED
    BY <2>2, <2>3, <2>4, ResolvingKeeps
<1>2. CASE Enqueue(w)
  BY <1>2, EnqueueKeepsQueue
<1>3. CASE SetProvenance(w)
  BY <1>3, SetProvenanceKeepsQueue
<1>4. CASE WriteDocument(w)
  <2>1. PICK y : /\ Moves(w, y) /\ WorkShape(y)
                 /\ y.pc = "name" /\ y.doc = work[w].doc /\ DOMAIN y.canon = {}
    BY <1>4, WriteDocumentDoes
  <2>2. /\ work[w].pc = "resolve" /\ work[w].todo = {} /\ queue' = queue
        /\ uploaded' = uploaded \cup {d \in {work[w].doc} : w \in Uploader}
    BY <1>4 DEF WriteDocument, At
  <2>3. uploaded' \subseteq Doc
    BY <2>2 DEF Shapes, WorkShape, QueueInv
  <2>4. w \in Uploader =>
            \A i \in Unresolved(work[w].doc) : Queued(queue, Mentions[work[w].doc][i], work[w].doc)
    BY <2>2 DEF QueueInv, Asking, Resolving
  <2>5. Asking(w, y, queue)
    BY <2>1 DEF Asking, Resolving
  <2>6. QED
    BY <2>1, <2>2, <2>3, <2>4, <2>5, ResolvingKeeps
<1>5. ASSUME NEW y, Moves(w, y), WorkShape(y), y.pc \notin {"attribute", "resolve"},
             queue' = queue, uploaded' = uploaded
      PROVE  QueueInv'
  <2>1. Asking(w, y, queue) /\ uploaded' \subseteq Doc
    BY <1>5 DEF Asking, Resolving, QueueInv
  <2>2. QED
    BY <1>5, <2>1, ResolvingKeeps
<1>6. CASE Canonicalise(w)
  <2>1. PICK y : Moves(w, y) /\ WorkShape(y) /\ y.pc = "name"
    BY <1>6, CanonicaliseDoes
  <2>2. QED
    BY <1>5, <1>6, <2>1 DEF Canonicalise
<1>7. CASE NamesChosen(w)
  BY <1>5, <1>7, NamesChosenDoes DEF NamesChosen, history
<1>8. CASE WriteEntity(w)
  <2>1. PICK y, m : /\ Moves(w, y) /\ WorkShape(y) /\ y.pc = "mention"
                    /\ y.canon[m] \in Entity
    BY <1>8, WriteEntityDoes
  <2>2. queue' = queue /\ uploaded' = uploaded
    BY <1>8 DEF WriteEntity
  <2>3. QED
    BY <1>5, <2>1, <2>2
<1>9. CASE WriteMention(w)
  <2>1. PICK y : Moves(w, y) /\ WorkShape(y) /\ y.pc = "nodes"
    BY <1>9, WriteMentionDoes
  <2>2. queue' = queue /\ uploaded' = uploaded
    BY <1>9 DEF WriteMention, history
  <2>3. QED
    BY <1>5, <2>1, <2>2
<1>10. CASE BuildTriples(w)
  BY <1>5, <1>10, BuildTriplesDoes DEF BuildTriples, history
<1>11. CASE ReadExisting(w)
  <2>1. PICK y : Moves(w, y) /\ WorkShape(y) /\ y.pc = "existing"
    BY <1>11, ReadExistingDoes
  <2>2. QED
    BY <1>5, <1>11, <2>1 DEF ReadExisting, history
<1>12. CASE ReviewFacts(w)
  BY <1>5, <1>12, ReviewFactsDoes DEF ReviewFacts, history
<1>13. CASE WriteFact(w)
  <2>1. PICK y, t, i, conflict :
          /\ Moves(w, y) /\ WorkShape(y) /\ y.pc = "write"
          /\ y.decisions[i].fact = t /\ t \in Fact /\ Count(y, t) \in Nat \ {0}
          /\ graph' = MergeFact(graph, t, Count(y, t), conflict, y.doc)
    BY <1>13, WriteFactDoes
  <2>2. queue' = queue /\ uploaded' = uploaded
    BY <1>13 DEF WriteFact
  <2>3. QED
    BY <1>5, <2>1, <2>2
<1>14. CASE WriteRejected(w)
  <2>1. PICK y, t : /\ Moves(w, y) /\ WorkShape(y) /\ y.pc = "write"
                    /\ graph' = MergeRejected(graph, t, y.doc)
    BY <1>14, WriteRejectedDoes
  <2>2. queue' = queue /\ uploaded' = uploaded
    BY <1>14 DEF WriteRejected, history
  <2>3. QED
    BY <1>5, <2>1, <2>2
<1>15. CASE Complete(w) \/ Fail(w)
  <2>1. queue' = queue /\ uploaded' = uploaded
    BY <1>15 DEF Complete, Fail, history
  <2>2. QED
    BY <1>5, <1>15, <2>1, EndsDo
<1>16. QED
  BY <1>1, <1>2, <1>3, <1>4, <1>6, <1>7, <1>8, <1>9, <1>10, <1>11, <1>12, <1>13, <1>14, <1>15
     DEF StepOf

-------------------------------------------------------------------------------
(* What was reported stands *)

LEMMA StandingKeeps ==
    ASSUME Shapes, NEW w \in Worker, NEW y, Moves(w, y), FactsInv, Grows(graph, graph'),
           \A r \in reported' : r \in reported
              \/ (r[2] \in graph.documents /\ Stands(graph, r[1], r[2])),
           y.pc \in Writing => y.doc \in graph'.documents,
           y.pc = "write" =>
              \A i \in Accepted(y.decisions) \ y.todo : Stands(graph', y.decisions[i].fact, y.doc)
    PROVE  FactsInv'
<1>1. ReportedFactsStand'
  <2>1. \A r \in reported' : r[2] \in graph.documents /\ Stands(graph, r[1], r[2])
    BY DEF FactsInv, ReportedFactsStand, Stands
  <2>2. \A r \in reported' : r[2] \in graph'.documents /\ Stands(graph', r[1], r[2])
    BY <2>1 DEF Grows
  <2>3. QED
    BY <2>2 DEF ReportedFactsStand, Stands
<1>2. \A v \in Worker : work'[v].pc \in Writing => work'[v].doc \in graph'.documents
  BY DEF FactsInv, Moves, Grows
<1>3. \A v \in Worker : work'[v].pc = "write" =>
        \A i \in Accepted(work'[v].decisions) \ work'[v].todo :
            Stands(graph', work'[v].decisions[i].fact, work'[v].doc)
  <2>1. \A v \in Worker : work[v].pc = "write" =>
          \A i \in Accepted(work[v].decisions) \ work[v].todo :
              Stands(graph', work[v].decisions[i].fact, work[v].doc)
    BY DEF FactsInv, At, Grows
  <2>2. QED
    BY <2>1 DEF Moves
<1>4. QED
  BY <1>1, <1>2, <1>3 DEF FactsInv, At

LEMMA FactsKept ==
    ASSUME Shapes, FactsInv, NEW w \in Worker, StepOf(w) PROVE FactsInv'
<1>1. Grows(graph, graph')
  <2>1. Next
    BY NextIsAStep
  <2>2. QED
    BY <2>1, GraphGrows
<1>2. CASE \E d \in Doc : Begin(w, d)
  <2>1. PICK d \in Doc : Begin(w, d)
    BY <1>2
  <2>2. PICK y : Moves(w, y) /\ y.pc = "resolve"
    BY <2>1, BeginDoes
  <2>3. reported' = reported
    BY <2>1 DEF Begin, history
  <2>4. QED
    BY <1>1, <2>2, <2>3, StandingKeeps DEF Writing, Renaming, Holding
<1>3. CASE Enqueue(w) \/ SetProvenance(w)
  <2>1. PICK y : Moves(w, y) /\ y.pc \in {"resolve", "attribute"}
    BY <1>3, EnqueueDoes, SetProvenanceDoes
  <2>2. reported' = reported
    BY <1>3 DEF Enqueue, SetProvenance, history
  <2>3. QED
    BY <1>1, <2>1, <2>2, StandingKeeps DEF Writing, Renaming, Holding
<1>4. CASE WriteDocument(w)
  <2>1. PICK y : Moves(w, y) /\ y.pc = "name" /\ y.doc = work[w].doc
    BY <1>4, WriteDocumentDoes
  <2>2. /\ work[w].pc = "resolve" /\ reported' = reported
        /\ graph' = MergeDocument(graph, work[w].doc)
    BY <1>4 DEF WriteDocument, At, history
  <2>3. y.doc \in graph'.documents
    BY <2>1, <2>2, MergeDocumentGrows DEF Shapes, WorkShape
  <2>4. QED
    BY <1>1, <2>1, <2>2, <2>3, StandingKeeps
<1>5. ASSUME NEW y, Moves(w, y), y.pc \in Writing, work[w].pc \in Writing, y.doc = work[w].doc,
             reported' = reported,
             y.pc = "write" =>
                \A i \in Accepted(y.decisions) \ y.todo : Stands(graph', y.decisions[i].fact, y.doc)
      PROVE  FactsInv'
  <2>1. y.doc \in graph'.documents
    BY <1>1, <1>5 DEF FactsInv, Grows
  <2>2. QED
    BY <1>1, <1>5, <2>1, StandingKeeps
<1>6. CASE Canonicalise(w)
  <2>1. PICK y : Moves(w, y) /\ y.pc = "name" /\ y.doc = work[w].doc /\ At(w, "name")
    BY <1>6, CanonicaliseDoes
  <2>2. reported' = reported
    BY <1>6 DEF Canonicalise
  <2>3. QED
    BY <1>5, <2>1, <2>2 DEF At, Writing, Renaming
<1>7. CASE NamesChosen(w) \/ WriteEntity(w) \/ WriteMention(w) \/ BuildTriples(w)
  <2>1. PICK y : /\ Moves(w, y) /\ y.doc = work[w].doc /\ work[w].pc \in Renaming
                 /\ y.pc \in {"nodes", "mention", "existing"}
    <3>1. CASE NamesChosen(w)
      BY <3>1, NamesChosenDoes DEF At, Renaming
    <3>2. CASE WriteEntity(w)
      BY <3>2, WriteEntityDoes DEF At, Renaming
    <3>3. CASE WriteMention(w)
      BY <3>3, WriteMentionDoes DEF At, Renaming
    <3>4. CASE BuildTriples(w)
      BY <3>4, BuildTriplesDoes DEF At, Renaming
    <3>5. QED
      BY <1>7, <3>1, <3>2, <3>3, <3>4
  <2>2. reported' = reported
    BY <1>7 DEF NamesChosen, WriteEntity, WriteMention, BuildTriples, history
  <2>3. QED
    BY <1>5, <2>1, <2>2 DEF Writing, Renaming, Holding
<1>8. CASE ReadExisting(w)
  <2>1. PICK y : Moves(w, y) /\ y.pc = "existing" /\ y.doc = work[w].doc /\ At(w, "existing")
    BY <1>8, ReadExistingDoes
  <2>2. reported' = reported
    BY <1>8 DEF ReadExisting, history
  <2>3. QED
    BY <1>5, <2>1, <2>2 DEF At, Writing, Holding
<1>9. CASE ReviewFacts(w)
  <2>1. PICK y : /\ Moves(w, y) /\ y.pc = "write" /\ y.doc = work[w].doc /\ At(w, "existing")
                 /\ y.todo = DOMAIN y.decisions
    BY <1>9, ReviewFactsDoes
  <2>2. reported' = reported
    BY <1>9 DEF ReviewFacts, history
  <2>3. Accepted(y.decisions) \ y.todo = {}
    BY <2>1 DEF Accepted
  <2>4. QED
    BY <1>5, <2>1, <2>2, <2>3 DEF At, Writing, Holding
<1>10. CASE WriteFact(w)
  <2>1. PICK y, t, i, conflict :
          /\ Moves(w, y) /\ At(w, "write") /\ y.pc = "write" /\ y.doc = work[w].doc
          /\ y.decisions = work[w].decisions /\ y.todo = work[w].todo \ {i}
          /\ y.decisions[i].fact = t /\ t \in Fact /\ Count(y, t) \in Nat \ {0}
          /\ graph' = MergeFact(graph, t, Count(y, t), conflict, y.doc)
    BY <1>10, WriteFactDoes
  <2>2. reported' = reported
    BY <1>10 DEF WriteFact
  <2>3. Stands(graph', t, y.doc)
    BY <2>1, MergeFactGrows DEF Shapes
  <2>4. \A j \in Accepted(y.decisions) \ y.todo : Stands(graph', y.decisions[j].fact, y.doc)
    BY <1>1, <2>1, <2>3 DEF FactsInv, Grows
  <2>5. QED
    BY <1>5, <2>1, <2>2, <2>4 DEF At, Writing, Holding
<1>11. CASE WriteRejected(w)
  <2>1. PICK y : /\ Moves(w, y) /\ At(w, "write") /\ y.pc = "write" /\ y.doc = work[w].doc
                 /\ y.decisions = work[w].decisions
                 /\ Accepted(y.decisions) \ y.todo = Accepted(y.decisions) \ work[w].todo
    BY <1>11, WriteRejectedDoes
  <2>2. reported' = reported
    BY <1>11 DEF WriteRejected, history
  <2>3. \A j \in Accepted(y.decisions) \ y.todo : Stands(graph', y.decisions[j].fact, y.doc)
    BY <1>1, <2>1 DEF FactsInv, Grows
  <2>4. QED
    BY <1>5, <2>1, <2>2, <2>3 DEF At, Writing, Holding
<1>12. CASE Complete(w)
  <2>1. Moves(w, Idle) /\ Idle.pc = "idle"
    BY <1>12, EndsDo
  <2>2. /\ work[w].pc = "write" /\ work[w].todo = {} /\ graph' = graph
        /\ reported' = reported \cup {<<work[w].decisions[i].fact, work[w].doc>> :
                                        i \in Accepted(work[w].decisions)}
    BY <1>12 DEF Complete, At
  <2>3. \A r \in reported' : r \in reported
          \/ (r[2] \in graph.documents /\ Stands(graph, r[1], r[2]))
    BY <2>2 DEF FactsInv, At, Writing, Holding
  <2>4. Idle.pc # "write" /\ Idle.pc \notin Writing
    BY <2>1 DEF Writing, Renaming, Holding
  <2>5. QED
    BY <1>1, <2>1, <2>3, <2>4, StandingKeeps
<1>13. CASE Fail(w)
  <2>1. Moves(w, Idle) /\ Idle.pc = "idle"
    BY <1>13, EndsDo
  <2>2. reported' = reported
    BY <1>13 DEF Fail, history
  <2>3. Idle.pc # "write" /\ Idle.pc \notin Writing
    BY <2>1 DEF Writing, Renaming, Holding
  <2>4. QED
    BY <1>1, <2>1, <2>2, <2>3, StandingKeeps
<1>14. QED
  BY <1>2, <1>3, <1>4, <1>6, <1>7, <1>8, <1>9, <1>10, <1>11, <1>12, <1>13 DEF StepOf

-------------------------------------------------------------------------------
(* One node for each filer *)

LEMMA NamesQuiet ==
    ASSUME Shapes, NEW w \in Worker, NEW y, Moves(w, y), NamesInv, SameNodes(graph, graph'),
           split \subseteq split',
           \A c, n : Calls(y, c, n) => Calls(work[w], c, n)
    PROVE  NamesInv'
<1>1. \A n \in DOMAIN graph'.nodes : graph'.nodes[n].cik # None =>
        n \in DOMAIN graph.nodes /\ graph'.nodes[n].cik = graph.nodes[n].cik
  BY DEF SameNodes
<1>2. OneNodePerCik'
  BY <1>1 DEF NamesInv, OneNodePerCik
<1>3. \A v \in Worker : \A c, n : Calls(work'[v], c, n) => Calls(work[v], c, n)
  BY DEF Moves
<1>4. \A c \in Cik \ split' : \A v, u \in Worker : \A m, n \in Entity :
        Calls(work'[v], c, m) /\ Calls(work'[u], c, n) => v = u /\ m = n
  BY <1>3 DEF NamesInv
<1>5. \A c \in Cik \ split' : \A v \in Worker : \A m \in Entity :
        Calls(work'[v], c, m) =>
            \A n \in DOMAIN graph'.nodes : graph'.nodes[n].cik = c => n = m
  <2>1. \A c \in Cik : c # None
    BY IngestAssumption
  <2>2. QED
    BY <1>1, <1>3, <2>1 DEF NamesInv
<1>6. QED
  BY <1>2, <1>4, <1>5 DEF NamesInv

LEMMA SameNodesSame ==
    ASSUME graph' = graph PROVE SameNodes(graph, graph')
  BY DEF SameNodes

LEMMA CanonicaliseKeepsNames ==
    ASSUME Shapes, NamesInv, NEW w \in Worker, Canonicalise(w) PROVE NamesInv'
<1>1. PICK y, m, name, fails :
        /\ Moves(w, y) /\ WorkShape(y) /\ At(w, "name") /\ m \in Entity /\ name \in Entity
        /\ y.pc = "name" /\ y.doc = work[w].doc
        /\ DOMAIN y.canon = DOMAIN work[w].canon \cup Group(work[w].doc, m)
        /\ \A n \in DOMAIN y.canon :
              y.canon[n] = IF n \in Group(work[w].doc, m) THEN name ELSE work[w].canon[n]
        /\ ~fails /\ Matches(graph, CikOf[m], NormOf[m]) # {} =>
              name \in Matches(graph, CikOf[m], NormOf[m])
        /\ split' = IF fails \/ \E v \in Worker \ {w} : Naming(v, CikOf[m])
                    THEN split \cup ({CikOf[m]} \ {None}) ELSE split
  BY CanonicaliseDoes
<1>2. graph' = graph /\ split \subseteq split'
  BY <1>1 DEF Canonicalise
<1>3. PICK x, k : x = work[w] /\ k = CikOf[m]
  OBVIOUS
<1>4. NamesShape(x) /\ x.doc \in Doc /\ x.pc = "name"
  BY <1>1, <1>3 DEF At, Shapes, WorkShape, Renaming
<1>5. k \in Cik \cup {None}
  BY <1>1, <1>3, IngestAssumption
\* Of one filer, the group has every mention or none.
<1>6. ASSUME NEW n \in Elements(Mentions[x.doc]), CikOf[n] \in Cik
      PROVE  n \in Group(x.doc, m) <=> CikOf[n] = k
  <2>1. n \in Entity /\ GroupKey(n) = CikOf[n] /\ NormOf[m] \in Norm
    BY <1>1, <1>4, <1>6, ListFacts, IngestAssumption DEF GroupKey
  <2>2. GroupKey(n) = GroupKey(m) <=> CikOf[n] = k
    BY <1>3, <1>5, <1>6, <2>1, IngestAssumption DEF GroupKey
  <2>3. QED
    BY <2>2 DEF Group
<1>7. DOMAIN y.canon \subseteq Elements(Mentions[x.doc])
  BY <1>1, <1>3, <1>4 DEF NamesShape, Group
<1>8. ASSUME NEW c \in Cik, NEW n, Calls(y, c, n)
      PROVE  (c = k /\ n = name) \/ (c # k /\ Calls(x, c, n))
  <2>1. PICK e \in DOMAIN y.canon : CikOf[e] = c /\ y.canon[e] = n
    BY <1>8 DEF Calls
  <2>2. e \in Group(x.doc, m) <=> c = k
    BY <1>6, <1>7, <2>1
  <2>3. CASE c = k
    BY <1>1, <1>3, <2>1, <2>2, <2>3
  <2>4. CASE c # k
    BY <1>1, <1>3, <1>4, <2>1, <2>2, <2>4 DEF Calls, Renaming
  <2>5. QED
    BY <2>3, <2>4
<1>9. ASSUME k \in Cik \ split'
      PROVE  /\ \A v \in Worker \ {w} : \A n : ~Calls(work[v], k, n)
             /\ \A n \in DOMAIN graph.nodes : graph.nodes[n].cik = k => n = name
  <2>1. k # None /\ k \notin split /\ ~fails /\ \A v \in Worker \ {w} : ~Naming(v, k)
    BY <1>1, <1>3, <1>9, IngestAssumption
  <2>2. \A v \in Worker \ {w} : \A n : ~Calls(work[v], k, n)
    BY <2>1 DEF Calls, Naming, Renaming
  <2>3. ASSUME NEW n \in DOMAIN graph.nodes, graph.nodes[n].cik = k PROVE n = name
    <3>1. n \in {e \in DOMAIN graph.nodes : k # None /\ graph.nodes[e].cik = k}
      BY <2>1, <2>3
    <3>2. Matches(graph, k, NormOf[m])
            = {e \in DOMAIN graph.nodes : k # None /\ graph.nodes[e].cik = k}
      BY <3>1 DEF Matches
    <3>3. name \in DOMAIN graph.nodes /\ graph.nodes[name].cik = k
      BY <1>1, <1>3, <2>1, <3>1, <3>2
    <3>4. QED
      BY <2>1, <2>3, <3>3 DEF NamesInv, OneNodePerCik
  <2>4. QED
    BY <2>2, <2>3
<1>10. OneNodePerCik'
  BY <1>2 DEF NamesInv, OneNodePerCik
<1>11. \A v \in Worker \ {w} : work'[v] = work[v]
  BY <1>1 DEF Moves
<1>12. work'[w] = y
  BY <1>1 DEF Moves
<1>13. ASSUME NEW c \in Cik \ split', NEW v \in Worker, NEW u \in Worker,
              NEW n \in Entity, NEW e \in Entity, Calls(work'[v], c, n), Calls(work'[u], c, e)
       PROVE  v = u /\ n = e
  <2>1. c \notin split
    BY <1>2
  <2>2. CASE c = k
    <3>1. v = w /\ u = w
      BY <1>9, <1>11, <1>13, <2>2
    <3>2. QED
      BY <1>8, <1>12, <1>13, <2>2, <3>1
  <2>3. CASE c # k
    <3>1. Calls(work[v], c, n) /\ Calls(work[u], c, e)
      BY <1>3, <1>8, <1>11, <1>12, <1>13, <2>3
    <3>2. QED
      BY <2>1, <3>1 DEF NamesInv
  <2>4. QED
    BY <2>2, <2>3
<1>14. ASSUME NEW c \in Cik \ split', NEW v \in Worker, NEW e \in Entity, Calls(work'[v], c, e),
              NEW n \in DOMAIN graph.nodes, graph.nodes[n].cik = c
       PROVE  n = e
  <2>1. c \notin split
    BY <1>2
  <2>2. CASE c = k
    <3>1. v = w
      BY <1>9, <1>11, <1>14, <2>2
    <3>2. e = name
      BY <1>8, <1>12, <1>14, <2>2, <3>1
    <3>3. QED
      BY <1>9, <1>14, <2>2, <3>2
  <2>3. CASE c # k
    <3>1. Calls(work[v], c, e)
      BY <1>3, <1>8, <1>11, <1>12, <1>14, <2>3
    <3>2. QED
      BY <1>14, <2>1, <3>1 DEF NamesInv
  <2>4. QED
    BY <2>2, <2>3
<1>15. QED
  BY <1>2, <1>10, <1>13, <1>14 DEF NamesInv

LEMMA WriteEntityKeepsNames ==
    ASSUME Shapes, NamesInv, NEW w \in Worker, WriteEntity(w) PROVE NamesInv'
<1>1. PICK y, m, k :
        /\ Moves(w, y) /\ WorkShape(y) /\ At(w, "nodes")
        /\ y.pc = "mention" /\ y.doc = work[w].doc /\ y.canon = work[w].canon
        /\ m \in DOMAIN y.canon /\ y.canon[m] \in Entity /\ m \in Entity
        /\ k \in Cik \cup {None} /\ (CikOf[m] # None => k = CikOf[m])
        /\ graph' = MergeEntity(graph, y.canon[m], k, NormOf[m])
        /\ split' = IF CopiedOnto(y.canon[m], m, k) THEN split \cup {k} ELSE split
  BY WriteEntityDoes
<1>2. PICK n : n = y.canon[m]
  OBVIOUS
<1>3. k \in Cik \cup {None} /\ n \in Entity /\ GraphShape(graph)
  BY <1>1, <1>2 DEF Shapes
<1>4. /\ DOMAIN graph'.nodes = DOMAIN graph.nodes \cup {n}
      /\ k # None => graph'.nodes[n].cik = k
      /\ k = None => SameNodes(graph, graph')
      /\ \A e \in DOMAIN graph.nodes \ {n} : graph'.nodes[e].cik = graph.nodes[e].cik
  <2>1. PICK norm, h : norm = NormOf[m] /\ h = graph' /\ h = MergeEntity(graph, n, k, norm)
    BY <1>1, <1>2
  <2>2. QED
    BY <1>3, <2>1, MergeEntityGrows
<1>5. \A v \in Worker : \A c, e : Calls(work'[v], c, e) => Calls(work[v], c, e)
  BY <1>1 DEF Moves, Calls, At, Renaming
<1>6. split \subseteq split'
  BY <1>1
<1>7. CASE k = None
  <2>1. \A c, e : Calls(y, c, e) => Calls(work[w], c, e)
    BY <1>1, <1>5 DEF Moves
  <2>2. QED
    BY <1>1, <1>4, <1>6, <1>7, <2>1, NamesQuiet
<1>8. CASE k \in Cik
  <2>1. k # None
    BY <1>8, IngestAssumption
  \* The filer named, or a CIK that no other node and no one's name has.
  <2>2. k \notin split' =>
            /\ \A e \in DOMAIN graph.nodes : graph.nodes[e].cik = k => e = n
            /\ \A v \in Worker : \A a \in Entity : Calls(work[v], k, a) => a = n
    <3>1. CASE CikOf[m] # None
      <4>1. Calls(work[w], k, n)
        BY <1>1, <1>2, <3>1 DEF Calls, At, Renaming
      <4>2. QED
        BY <1>3, <1>6, <1>8, <4>1 DEF NamesInv
    <3>2. CASE CikOf[m] = None
      <4>1. \A v \in Worker : \A a : Calls(work[v], k, a) => Naming(v, k)
        BY DEF Calls, Naming, Renaming
      <4>2. QED
        BY <1>1, <1>2, <2>1, <3>2, <4>1 DEF CopiedOnto
    <3>3. QED
      BY <3>1, <3>2
  <2>3. OneNodePerCik'
    <3>1. \A e \in DOMAIN graph.nodes \ {n} : graph.nodes[e].cik # k \/ k \in split'
      BY <2>2
    <3>2. ASSUME NEW a \in DOMAIN graph'.nodes, NEW b \in DOMAIN graph'.nodes,
                 graph'.nodes[a].cik = graph'.nodes[b].cik, a # b
          PROVE  graph'.nodes[a].cik \in split' \cup {None}
      <4>1. CASE a = n
        <5>1. b \in DOMAIN graph.nodes \ {n} /\ graph.nodes[b].cik = k
          BY <1>4, <2>1, <3>2, <4>1
        <5>2. QED
          BY <1>4, <2>1, <3>1, <4>1, <5>1
      <4>2. CASE b = n
        <5>1. a \in DOMAIN graph.nodes \ {n} /\ graph.nodes[a].cik = k
          BY <1>4, <2>1, <3>2, <4>2
        <5>2. QED
          BY <1>4, <3>1, <5>1
      <4>3. CASE a # n /\ b # n
        BY <1>4, <1>6, <3>2, <4>3 DEF NamesInv, OneNodePerCik
      <4>4. QED
        BY <4>1, <4>2, <4>3
    <3>3. QED
      BY <3>2 DEF OneNodePerCik
  <2>4. \A c \in Cik \ split' : \A v, u \in Worker : \A a, b \in Entity :
          Calls(work'[v], c, a) /\ Calls(work'[u], c, b) => v = u /\ a = b
    BY <1>5, <1>6 DEF NamesInv
  <2>5. ASSUME NEW c \in Cik \ split', NEW v \in Worker, NEW a \in Entity, Calls(work'[v], c, a),
               NEW e \in DOMAIN graph'.nodes, graph'.nodes[e].cik = c
        PROVE  e = a
    <3>1. Calls(work[v], c, a)
      BY <1>5, <2>5
    <3>2. CASE e = n
      <4>1. c = k
        BY <1>4, <2>1, <2>5, <3>2
      <4>2. QED
        BY <2>2, <3>1, <3>2, <4>1
    <3>3. CASE e # n
      <4>1. e \in DOMAIN graph.nodes /\ graph.nodes[e].cik = c
        BY <1>4, <2>5, <3>3
      <4>2. QED
        BY <1>6, <3>1, <4>1 DEF NamesInv
    <3>4. QED
      BY <3>2, <3>3
  <2>6. QED
    BY <2>3, <2>4, <2>5 DEF NamesInv
<1>9. QED
  BY <1>3, <1>7, <1>8

LEMMA NamesKept ==
    ASSUME Shapes, NamesInv, NEW w \in Worker, StepOf(w) PROVE NamesInv'
<1>1. CASE Canonicalise(w)
  BY <1>1, CanonicaliseKeepsNames
<1>2. CASE WriteEntity(w)
  BY <1>2, WriteEntityKeepsNames
<1>3. ASSUME NEW y, Moves(w, y), y.pc \notin Renaming, SameNodes(graph, graph'), split' = split
      PROVE  NamesInv'
  <2>1. \A c, n : Calls(y, c, n) => Calls(work[w], c, n)
    BY <1>3 DEF Calls
  <2>2. QED
    BY <1>3, <2>1, NamesQuiet
<1>4. CASE \E d \in Doc : Begin(w, d)
  <2>1. PICK d \in Doc : Begin(w, d)
    BY <1>4
  <2>2. PICK y : Moves(w, y) /\ y.pc = "resolve"
    BY <2>1, BeginDoes
  <2>3. graph' = graph /\ split' = split
    BY <2>1 DEF Begin, history
  <2>4. QED
    BY <1>3, <2>2, <2>3, SameNodesSame DEF Renaming
<1>5. CASE Enqueue(w) \/ SetProvenance(w)
  <2>1. PICK y : Moves(w, y) /\ y.pc \in {"resolve", "attribute"}
    BY <1>5, EnqueueDoes, SetProvenanceDoes
  <2>2. graph' = graph /\ split' = split
    BY <1>5 DEF Enqueue, SetProvenance, history
  <2>3. QED
    BY <1>3, <2>1, <2>2, SameNodesSame DEF Renaming
<1>6. CASE WriteDocument(w)
  <2>1. PICK y : Moves(w, y) /\ DOMAIN y.canon = {}
    BY <1>6, WriteDocumentDoes
  <2>2. graph' = MergeDocument(graph, work[w].doc) /\ work[w].doc \in Doc /\ split' = split
    BY <1>6 DEF WriteDocument, history, At, Shapes, WorkShape
  <2>3. SameNodes(graph, graph')
    BY <2>2, MergeDocumentGrows DEF Shapes
  <2>4. \A c, n : Calls(y, c, n) => Calls(work[w], c, n)
    BY <2>1 DEF Calls
  <2>5. QED
    BY <2>1, <2>2, <2>3, <2>4, NamesQuiet
<1>7. CASE NamesChosen(w) \/ WriteMention(w)
  <2>1. PICK y : /\ Moves(w, y) /\ y.canon = work[w].canon /\ work[w].pc \in Renaming
    BY <1>7, NamesChosenDoes, WriteMentionDoes DEF At, Renaming
  <2>2. \A c, n : Calls(y, c, n) => Calls(work[w], c, n)
    BY <2>1 DEF Calls
  <2>3. split' = split
    BY <1>7 DEF NamesChosen, WriteMention, history
  <2>4. SameNodes(graph, graph')
    <3>1. CASE NamesChosen(w)
      BY <3>1, SameNodesSame DEF NamesChosen
    <3>2. CASE WriteMention(w)
      <4>1. PICK n : graph' = MergeMention(graph, work[w].doc, n)
        BY <3>2 DEF WriteMention
      <4>2. QED
        BY <4>1, MergeMentionGrows DEF Shapes
    <3>3. QED
      BY <1>7, <3>1, <3>2
  <2>5. QED
    BY <2>1, <2>2, <2>3, <2>4, NamesQuiet
<1>8. CASE BuildTriples(w) \/ ReadExisting(w) \/ ReviewFacts(w)
  <2>1. PICK y : Moves(w, y) /\ y.pc \in {"existing", "write"}
    <3>1. CASE BuildTriples(w)
      BY <3>1, BuildTriplesDoes
    <3>2. CASE ReadExisting(w)
      BY <3>2, ReadExistingDoes
    <3>3. CASE ReviewFacts(w)
      BY <3>3, ReviewFactsDoes
    <3>4. QED
      BY <1>8, <3>1, <3>2, <3>3
  <2>2. graph' = graph /\ split' = split
    BY <1>8 DEF BuildTriples, ReadExisting, ReviewFacts, history
  <2>3. QED
    BY <1>3, <2>1, <2>2, SameNodesSame DEF Renaming
<1>9. CASE WriteFact(w)
  <2>1. PICK y, t, i, conflict :
          /\ Moves(w, y) /\ WorkShape(y) /\ y.pc = "write"
          /\ y.decisions[i].fact = t /\ t \in Fact /\ Count(y, t) \in Nat \ {0}
          /\ graph' = MergeFact(graph, t, Count(y, t), conflict, y.doc)
    BY <1>9, WriteFactDoes
  <2>2. split' = split /\ SameNodes(graph, graph')
    BY <1>9, <2>1, MergeFactGrows DEF WriteFact, Shapes
  <2>3. QED
    BY <1>3, <2>1, <2>2 DEF Renaming
<1>10. CASE WriteRejected(w)
  <2>1. PICK y, t : Moves(w, y) /\ y.pc = "write" /\ graph' = MergeRejected(graph, t, y.doc)
    BY <1>10, WriteRejectedDoes
  <2>2. split' = split /\ SameNodes(graph, graph')
    BY <1>10, <2>1, MergeRejectedGrows DEF WriteRejected, Shapes, history
  <2>3. QED
    BY <1>3, <2>1, <2>2 DEF Renaming
<1>11. CASE Complete(w) \/ Fail(w)
  <2>1. graph' = graph /\ split' = split /\ Moves(w, Idle) /\ Idle.pc = "idle"
    BY <1>11, EndsDo DEF Complete, Fail, history
  <2>2. QED
    BY <1>3, <2>1, SameNodesSame DEF Renaming
<1>12. QED
  BY <1>1, <1>2, <1>4, <1>5, <1>6, <1>7, <1>8, <1>9, <1>10, <1>11 DEF StepOf

-------------------------------------------------------------------------------
(* Corroboration counts the acceptances *)

LEMMA CountQuiet ==
    ASSUME Shapes, NEW w \in Worker, NEW y, Moves(w, y), CountInv,
           graph'.edges = graph.edges, votes' = votes, contended' = contended,
           \A t \in Fact : Key(t) \in Read(y) =>
              Key(t) \in Read(work[w]) /\ Count(y, t) = Count(work[w], t)
    PROVE  CountInv'
<1>1. \A v \in Worker : \A t \in Fact : Key(t) \in Read(work'[v]) =>
        Key(t) \in Read(work[v]) /\ Count(work'[v], t) = Count(work[v], t)
  BY DEF Moves
<1>2. CorroborationCounts'
  BY DEF CountInv, CorroborationCounts
<1>3. \A t \in Fact : t \in DOMAIN graph'.edges <=> votes'[t] > 0
  BY DEF CountInv
<1>4. \A v \in Worker : \A t \in Fact : Key(t) \in Read(work'[v]) =>
        /\ Count(work'[v], t) <= votes'[t]
        /\ Key(t) \notin contended' => Count(work'[v], t) = votes'[t]
  BY <1>1 DEF CountInv
<1>5. QED
  BY <1>2, <1>3, <1>4 DEF CountInv

LEMMA ReadExistingKeepsCount ==
    ASSUME Shapes, CountInv, NEW w \in Worker, ReadExisting(w) PROVE CountInv'
<1>1. PICK y, key :
        /\ Moves(w, y) /\ WorkShape(y) /\ At(w, "existing")
        /\ y.pc = "existing" /\ y.doc = work[w].doc
        /\ DOMAIN y.seen = DOMAIN work[w].seen \cup {key}
        /\ \A k \in DOMAIN y.seen :
              y.seen[k] = IF k = key THEN Existing(graph, key) ELSE work[w].seen[k]
        /\ \E t \in Fact : key = Key(t)
  BY ReadExistingDoes
<1>2. graph' = graph /\ votes' = votes /\ contended' = contended
  BY DEF ReadExisting, history
<1>3. \A t : Done(y, t) = {} /\ Done(work[w], t) = {}
  BY <1>1 DEF Done, At
<1>4. Cardinality({}) = 0
  BY FS_EmptySet
<1>5. \A t : Count(y, t) = Prior(y.seen, t) + 0 /\ Count(work[w], t) = Prior(work[w].seen, t) + 0
  BY <1>3, <1>4 DEF Count
<1>6. Read(y) = DOMAIN y.seen /\ Read(work[w]) = DOMAIN work[w].seen
  BY <1>1 DEF Read, At, Holding
<1>7. ASSUME NEW t \in Fact, Key(t) \in Read(y), Key(t) # key
      PROVE  Count(y, t) <= votes[t] /\ (Key(t) \notin contended => Count(y, t) = votes[t])
  <2>1. Key(t) \in Read(work[w]) /\ y.seen[Key(t)] = work[w].seen[Key(t)]
    BY <1>1, <1>6, <1>7
  <2>2. Count(y, t) = Count(work[w], t)
    BY <1>5, <2>1 DEF Prior
  <2>3. QED
    BY <2>1, <2>2 DEF CountInv
<1>8. ASSUME NEW t \in Fact, Key(t) = key
      PROVE  Count(y, t) <= votes[t] /\ (Key(t) \notin contended => Count(y, t) = votes[t])
  <2>1. PICK seen : seen = y.seen[Key(t)] /\ seen = Existing(graph, key)
    BY <1>1, <1>8
  <2>2. \A u \in Fact : Key(u) = key /\ u[3] = t[3] => u = t
    BY <1>8 DEF Key, Fact
  <2>3. t = <<key[1], key[2], t[3]>>
    BY <1>8 DEF Key, Fact
  <2>4. DOMAIN graph.edges \subseteq Fact
    BY DEF Shapes, GraphShape
  <2>5. t[3] \in DOMAIN seen <=> t \in DOMAIN graph.edges
    BY <1>8, <2>1, <2>2, <2>4 DEF Existing
  <2>6. t \in DOMAIN graph.edges => seen[t[3]] = graph.edges[t].corroboration
    BY <2>1, <2>3, <2>5 DEF Existing
  <2>7. Prior(y.seen, t) = IF t \in DOMAIN graph.edges THEN graph.edges[t].corroboration ELSE 0
    BY <2>1, <2>5, <2>6 DEF Prior
  <2>8. CASE t \in DOMAIN graph.edges
    BY <1>5, <2>7, <2>8, VotesCount
  <2>9. CASE t \notin DOMAIN graph.edges
    <3>1. votes[t] = 0
      BY <2>9 DEF CountInv, Shapes
    <3>2. QED
      BY <1>5, <2>7, <2>9, <3>1
  <2>10. QED
    BY <2>8, <2>9
<1>9. \A v \in Worker : \A t \in Fact : Key(t) \in Read(work'[v]) =>
        /\ Count(work'[v], t) <= votes[t]
        /\ Key(t) \notin contended => Count(work'[v], t) = votes[t]
  <2>1. work'[w] = y /\ \A v \in Worker \ {w} : work'[v] = work[v]
    BY <1>1 DEF Moves
  <2>2. QED
    BY <1>7, <1>8, <2>1 DEF CountInv
<1>10. CorroborationCounts' /\ \A t \in Fact : t \in DOMAIN graph'.edges <=> votes'[t] > 0
  BY <1>2 DEF CountInv, CorroborationCounts
<1>11. QED
  BY <1>2, <1>9, <1>10 DEF CountInv

LEMMA CountIsNat ==
    ASSUME Shapes, NEW w \in Worker, NEW t, Key(t) \in Read(work[w])
    PROVE  Count(work[w], t) \in Nat
<1>1. PICK x : x = work[w] /\ WorkShape(x)
  BY DEF Shapes
<1>2. x.pc \in Holding /\ x.doc \in Doc /\ Key(t) \in DOMAIN x.seen /\ SeenShape(x.seen)
  BY <1>1 DEF Read, WorkShape, WriteShape, Writing, Holding
<1>3. Prior(x.seen, t) \in Nat
  BY <1>2 DEF Prior, SeenShape
<1>4. Cardinality(Done(x, t)) \in Nat
  <2>1. CASE x.pc = "existing"
    BY <2>1, FS_EmptySet DEF Done
  <2>2. CASE x.pc = "write"
    <3>1. Done(x, t) \subseteq DOMAIN Stated[x.doc]
      BY <1>1, <2>2 DEF Done, Accepted, WorkShape, WriteShape
    <3>2. QED
      BY <1>2, <3>1, ListFacts, FS_Subset, FS_CardinalityType
  <2>3. QED
    BY <1>2, <2>1, <2>2 DEF Holding
<1>5. QED
  BY <1>1, <1>3, <1>4 DEF Count

\* What a write of a fact does, as both parts of the invariant about counts need it.
LEMMA WriteFactCounts ==
    ASSUME Shapes, CountInv, NEW w \in Worker, WriteFact(w)
    PROVE  \E y, t, conflict :
            /\ Moves(w, y) /\ t \in Fact /\ y.pc = "write" /\ y.seen = work[w].seen
            /\ work[w].pc = "write" /\ Key(t) \in Read(work[w])
            /\ Count(work[w], t) \in Nat /\ Count(y, t) = Count(work[w], t) + 1
            /\ \A u \in Fact \ {t} : Count(y, u) = Count(work[w], u)
            /\ DOMAIN graph'.edges = DOMAIN graph.edges \cup {t}
            /\ graph'.edges[t].corroboration = Count(y, t) /\ graph'.edges[t].conflict = conflict
            /\ \A u \in DOMAIN graph.edges \ {t} : graph'.edges[u] = graph.edges[u]
            /\ votes'[t] = votes[t] + 1 /\ \A u \in Fact \ {t} : votes'[u] = votes[u]
            /\ contended' = IF HeldElsewhere(w, Key(t)) THEN contended \cup {Key(t)} ELSE contended
            /\ t[2] \in Functional /\ Count(work[w], t) = 0
               /\ (\E u \in Fact : Key(u) = Key(t) /\ Count(work[w], u) > 0) => conflict
<1>1. PICK y, t, i, conflict :
        /\ Moves(w, y) /\ WorkShape(y) /\ At(w, "write") /\ y.pc = "write"
        /\ y.doc = work[w].doc /\ y.seen = work[w].seen /\ y.decisions = work[w].decisions
        /\ i \in Accepted(y.decisions) /\ y.todo = work[w].todo \ {i}
        /\ y.decisions[i].fact = t /\ t \in Fact /\ Key(t) \in DOMAIN y.seen
        /\ graph' = MergeFact(graph, t, Count(y, t), conflict, y.doc)
        /\ Count(work[w], t) \in Nat /\ Count(y, t) = Count(work[w], t) + 1
        /\ Count(y, t) \in Nat \ {0}
        /\ \A u \in Fact \ {t} : Done(y, u) = Done(work[w], u)
        /\ t[2] \in Functional /\ Count(work[w], t) = 0
           /\ (\E u \in Fact : Key(u) = Key(t) /\ Count(work[w], u) > 0) => conflict
        /\ votes' = [votes EXCEPT ![t] = @ + 1]
        /\ contended' = IF HeldElsewhere(w, Key(t)) THEN contended \cup {Key(t)} ELSE contended
  BY WriteFactDoes
<1>2. PICK c, d : c \in Nat \ {0} /\ c = Count(y, t) /\ d = y.doc /\ graph' = MergeFact(graph, t, c, conflict, d)
  BY <1>1
<1>3. /\ DOMAIN graph'.edges = DOMAIN graph.edges \cup {t}
      /\ graph'.edges[t].corroboration = c /\ graph'.edges[t].conflict = conflict
      /\ \A u \in DOMAIN graph.edges \ {t} : graph'.edges[u] = graph.edges[u]
  BY <1>1, <1>2, MergeFactGrows DEF Shapes
<1>4. \A u \in Fact \ {t} : Count(y, u) = Count(work[w], u)
  BY <1>1 DEF Count
<1>5. votes'[t] = votes[t] + 1 /\ \A u \in Fact \ {t} : votes'[u] = votes[u]
  BY <1>1 DEF Shapes
<1>6. work[w].pc = "write" /\ Key(t) \in Read(work[w])
  BY <1>1 DEF At, Read, Holding
<1>7. graph'.edges[t].corroboration = Count(y, t)
  BY <1>2, <1>3
<1> WITNESS y, t, conflict
<1>8. QED
  BY <1>1, <1>3, <1>4, <1>5, <1>6, <1>7

LEMMA WriteFactKeepsCount ==
    ASSUME Shapes, CountInv, NEW w \in Worker, WriteFact(w) PROVE CountInv'
<1>1. PICK y, t, conflict :
        /\ Moves(w, y) /\ t \in Fact /\ y.pc = "write" /\ y.seen = work[w].seen
        /\ work[w].pc = "write" /\ Key(t) \in Read(work[w])
        /\ Count(work[w], t) \in Nat /\ Count(y, t) = Count(work[w], t) + 1
        /\ \A u \in Fact \ {t} : Count(y, u) = Count(work[w], u)
        /\ DOMAIN graph'.edges = DOMAIN graph.edges \cup {t}
        /\ graph'.edges[t].corroboration = Count(y, t) /\ graph'.edges[t].conflict = conflict
        /\ \A u \in DOMAIN graph.edges \ {t} : graph'.edges[u] = graph.edges[u]
        /\ votes'[t] = votes[t] + 1 /\ \A u \in Fact \ {t} : votes'[u] = votes[u]
        /\ contended' = IF HeldElsewhere(w, Key(t)) THEN contended \cup {Key(t)} ELSE contended
  BY WriteFactCounts
<1>2. /\ Count(work[w], t) <= votes[t]
      /\ Key(t) \notin contended => Count(work[w], t) = votes[t]
  BY <1>1 DEF CountInv
<1>3. /\ \A u \in Fact : votes[u] \in Nat /\ DOMAIN graph.edges \subseteq Fact
      /\ contended \subseteq contended'
  BY <1>1 DEF Shapes, GraphShape
<1>4. \A u \in DOMAIN graph.edges : LET c == graph.edges[u].corroboration
                                    IN  IF Key(u) \in contended THEN c \in 1 .. votes[u] ELSE c = votes[u]
  BY DEF CountInv, CorroborationCounts
<1>5. ASSUME NEW u \in DOMAIN graph'.edges
      PROVE  LET c == graph'.edges[u].corroboration
             IN  IF Key(u) \in contended' THEN c \in 1 .. votes'[u] ELSE c = votes'[u]
  <2>1. CASE u = t
    BY <1>1, <1>2, <1>3, <2>1
  <2>2. CASE u # t
    <3>1. /\ u \in DOMAIN graph.edges /\ u \in Fact /\ votes'[u] = votes[u]
          /\ graph'.edges[u] = graph.edges[u]
      BY <1>1, <1>3, <2>2
    <3>2. votes[u] \in Nat /\ votes[u] > 0
      BY <1>3, <3>1 DEF CountInv
    <3>3. QED
      BY <1>3, <1>4, <3>1, <3>2
  <2>3. QED
    BY <2>1, <2>2
<1>6. ASSUME NEW u \in Fact PROVE u \in DOMAIN graph'.edges <=> votes'[u] > 0
  BY <1>1, <1>3 DEF CountInv
<1>7. ASSUME NEW v \in Worker, NEW u \in Fact, Key(u) \in Read(work'[v])
      PROVE  /\ Count(work'[v], u) <= votes'[u]
             /\ Key(u) \notin contended' => Count(work'[v], u) = votes'[u]
  <2>1. CASE v = w
    <3>1. work'[v] = y /\ Key(u) \in Read(work[w])
      BY <1>1, <1>7, <2>1 DEF Moves, Read
    <3>2. /\ Count(work[w], u) <= votes[u]
          /\ Key(u) \notin contended => Count(work[w], u) = votes[u]
      BY <3>1 DEF CountInv
    <3>3. CASE u = t
      BY <1>1, <1>3, <3>1, <3>2, <3>3
    <3>4. CASE u # t
      BY <1>1, <1>3, <3>1, <3>2, <3>4
    <3>5. QED
      BY <3>3, <3>4
  <2>2. CASE v # w
    <3>1. work'[v] = work[v]
      BY <1>1, <2>2 DEF Moves
    <3>2. /\ Count(work[v], u) <= votes[u]
          /\ Key(u) \notin contended => Count(work[v], u) = votes[u]
      BY <1>7, <3>1 DEF CountInv
    <3>3. CASE u # t
      BY <1>1, <1>3, <3>1, <3>2, <3>3
    <3>4. CASE u = t
      <4>1. HeldElsewhere(w, Key(t))
        BY <1>7, <2>2, <3>1, <3>4 DEF HeldElsewhere, Read, Holding
      <4>2. Key(t) \in contended'
        BY <1>1, <4>1
      <4>3. Count(work[v], u) <= votes'[u]
        <5>1. PICK n : n = Count(work[v], u) /\ n <= votes[t] /\ votes'[t] = votes[t] + 1
          BY <1>1, <3>2, <3>4
        <5>2. n \in Nat
          BY <1>7, <3>1, <5>1, CountIsNat
        <5>3. QED
          BY <1>3, <3>4, <5>1, <5>2
      <4>4. QED
        BY <3>1, <3>4, <4>2, <4>3
    <3>5. QED
      BY <3>3, <3>4
  <2>3. QED
    BY <2>1, <2>2
<1>8. QED
  BY <1>5, <1>6, <1>7 DEF CountInv, CorroborationCounts

\* Only a write of a fact changes an edge.
LEMMA EdgesQuiet ==
    ASSUME Shapes, NEW w \in Worker, StepOf(w), ~WriteFact(w)
    PROVE  graph'.edges = graph.edges /\ votes' = votes /\ contended' = contended
<1>1. CASE (\E d \in Doc : Begin(w, d)) \/ Enqueue(w) \/ SetProvenance(w) \/ NamesChosen(w)
  BY <1>1 DEF history, Begin, Enqueue, SetProvenance, NamesChosen
<1>2. CASE WriteDocument(w)
  <2>1. work[w].doc \in Doc /\ graph' = MergeDocument(graph, work[w].doc)
    BY <1>2 DEF WriteDocument, At, Shapes, WorkShape
  <2>2. QED
    BY <1>2, <2>1, MergeDocumentGrows DEF WriteDocument, history, Shapes
<1>3. CASE Canonicalise(w)
  BY <1>3 DEF Canonicalise
<1>4. CASE WriteEntity(w)
  <2>1. PICK y, m, cik : /\ y.canon[m] \in Entity /\ cik \in Cik \cup {None}
                         /\ graph' = MergeEntity(graph, y.canon[m], cik, NormOf[m])
    BY <1>4, WriteEntityDoes
  <2>2. graph'.edges = graph.edges
    <3>1. GraphShape(graph)
      BY DEF Shapes
    <3>2. PICK n, norm : n \in Entity /\ graph' = MergeEntity(graph, n, cik, norm)
      BY <2>1
    <3>3. MergeEntity(graph, n, cik, norm).edges = graph.edges
      BY <2>1, <3>1, <3>2, MergeEntityGrows
    <3>4. QED
      BY <3>2, <3>3
  <2>3. votes' = votes /\ contended' = contended
    BY <1>4 DEF WriteEntity
  <2>4. QED
    BY <2>2, <2>3
<1>5. CASE WriteMention(w)
  <2>1. PICK n : graph' = MergeMention(graph, work[w].doc, n)
    BY <1>5 DEF WriteMention
  <2>2. graph'.edges = graph.edges
    BY <2>1, MergeMentionGrows DEF Shapes
  <2>3. QED
    BY <1>5, <2>2 DEF WriteMention, history
<1>6. CASE BuildTriples(w) \/ ReadExisting(w) \/ ReviewFacts(w) \/ Complete(w) \/ Fail(w)
  BY <1>6 DEF history, BuildTriples, ReadExisting, ReviewFacts, Complete, Fail
<1>7. CASE WriteRejected(w)
  <2>1. PICK y, t : graph' = MergeRejected(graph, t, y.doc)
    BY <1>7, WriteRejectedDoes
  <2>2. QED
    BY <1>7, <2>1, MergeRejectedGrows DEF WriteRejected, history, Shapes
<1>8. QED
  BY <1>1, <1>2, <1>3, <1>4, <1>5, <1>6, <1>7 DEF StepOf

LEMMA CountKept ==
    ASSUME Shapes, CountInv, NEW w \in Worker, StepOf(w) PROVE CountInv'
<1>1. CASE WriteFact(w)
  BY <1>1, WriteFactKeepsCount
<1>2. CASE ReadExisting(w)
  BY <1>2, ReadExistingKeepsCount
<1>3. ASSUME NEW y, Moves(w, y), ~WriteFact(w),
             \A t \in Fact : Key(t) \in Read(y) =>
                Key(t) \in Read(work[w]) /\ Count(y, t) = Count(work[w], t)
      PROVE  CountInv'
  BY <1>3, EdgesQuiet, CountQuiet
<1>4. ASSUME ~WriteFact(w), NEW y, Moves(w, y), y.pc \notin Holding \/ DOMAIN y.seen = {}
      PROVE  CountInv'
  <2>1. \A t : Key(t) \notin Read(y)
    BY <1>4 DEF Read
  <2>2. QED
    BY <1>3, <1>4, <2>1
<1>5. CASE ~WriteFact(w) /\ \E d \in Doc : Begin(w, d)
  <2>1. PICK y : Moves(w, y) /\ y.pc = "resolve"
    BY <1>5, BeginDoes
  <2>2. QED
    BY <1>4, <1>5, <2>1 DEF Holding
<1>6. CASE ~WriteFact(w) /\ (Enqueue(w) \/ SetProvenance(w))
  <2>1. PICK y : Moves(w, y) /\ y.pc \in {"resolve", "attribute"}
    BY <1>6, EnqueueDoes, SetProvenanceDoes
  <2>2. QED
    BY <1>4, <1>6, <2>1 DEF Holding
<1>7. CASE ~WriteFact(w) /\ (WriteDocument(w) \/ Canonicalise(w))
  <2>1. PICK y : Moves(w, y) /\ y.pc = "name"
    <3>1. CASE WriteDocument(w)
      BY <3>1, WriteDocumentDoes
    <3>2. CASE Canonicalise(w)
      BY <3>2, CanonicaliseDoes
    <3>3. QED
      BY <1>7, <3>1, <3>2
  <2>2. QED
    BY <1>4, <1>7, <2>1 DEF Holding
<1>8. CASE ~WriteFact(w) /\ (NamesChosen(w) \/ WriteEntity(w) \/ WriteMention(w))
  <2>1. PICK y : Moves(w, y) /\ y.pc \in {"nodes", "mention"}
    <3>1. CASE NamesChosen(w)
      BY <3>1, NamesChosenDoes
    <3>2. CASE WriteEntity(w)
      BY <3>2, WriteEntityDoes
    <3>3. CASE WriteMention(w)
      BY <3>3, WriteMentionDoes
    <3>4. QED
      BY <1>8, <3>1, <3>2, <3>3
  <2>2. QED
    BY <1>4, <1>8, <2>1 DEF Holding
<1>9. CASE ~WriteFact(w) /\ BuildTriples(w)
  <2>1. PICK y : Moves(w, y) /\ DOMAIN y.seen = {}
    BY <1>9, BuildTriplesDoes
  <2>2. QED
    BY <1>4, <1>9, <2>1
<1>10. CASE ~WriteFact(w) /\ ReviewFacts(w)
  <2>1. PICK y : /\ Moves(w, y) /\ y.pc = "write" /\ At(w, "existing")
                 /\ y.seen = work[w].seen /\ y.todo = DOMAIN y.decisions
    BY <1>10, ReviewFactsDoes
  <2>2. \A t : Done(y, t) = {} /\ Done(work[w], t) = {}
    BY <2>1 DEF Done, At, Accepted
  <2>3. \A t : Count(y, t) = Count(work[w], t)
    BY <2>1, <2>2 DEF Count
  <2>4. Read(y) = Read(work[w])
    BY <2>1 DEF Read, At, Holding
  <2>5. QED
    BY <1>3, <1>10, <2>1, <2>3, <2>4
<1>11. CASE ~WriteFact(w) /\ WriteRejected(w)
  <2>1. PICK y : /\ Moves(w, y) /\ At(w, "write") /\ y.pc = "write" /\ y.seen = work[w].seen
                 /\ y.decisions = work[w].decisions
                 /\ Accepted(y.decisions) \ y.todo = Accepted(y.decisions) \ work[w].todo
    BY <1>11, WriteRejectedDoes
  <2>2. \A t : Done(y, t) = Done(work[w], t)
    BY <2>1 DEF Done, At
  <2>3. \A t : Count(y, t) = Count(work[w], t)
    BY <2>1, <2>2 DEF Count
  <2>4. Read(y) = Read(work[w])
    BY <2>1 DEF Read, At
  <2>5. QED
    BY <1>3, <1>11, <2>1, <2>3, <2>4
<1>12. CASE ~WriteFact(w) /\ (Complete(w) \/ Fail(w))
  <2>1. Moves(w, Idle) /\ Idle.pc = "idle"
    BY <1>12, EndsDo
  <2>2. QED
    BY <1>4, <1>12, <2>1 DEF Holding
<1>13. QED
  BY <1>1, <1>2, <1>5, <1>6, <1>7, <1>8, <1>9, <1>10, <1>11, <1>12 DEF StepOf

\* A write of a new second object flags it; a write of one that is there has
\* been done twice.
LEMMA FlagsKept ==
    ASSUME Shapes, CountInv, SecondObjectFlagged, NEW w \in Worker, StepOf(w)
    PROVE  SecondObjectFlagged'
<1>1. CASE ~WriteFact(w)
  BY <1>1, EdgesQuiet DEF SecondObjectFlagged
<1>2. CASE WriteFact(w)
  <2>1. PICK y, t, conflict :
          /\ t \in Fact /\ Key(t) \in Read(work[w]) /\ Count(work[w], t) \in Nat
          /\ DOMAIN graph'.edges = DOMAIN graph.edges \cup {t}
          /\ graph'.edges[t].corroboration = Count(y, t) /\ graph'.edges[t].conflict = conflict
          /\ \A u \in DOMAIN graph.edges \ {t} : graph'.edges[u] = graph.edges[u]
          /\ votes'[t] = votes[t] + 1 /\ \A u \in Fact \ {t} : votes'[u] = votes[u]
          /\ contended' = IF HeldElsewhere(w, Key(t)) THEN contended \cup {Key(t)} ELSE contended
          /\ t[2] \in Functional /\ Count(work[w], t) = 0
             /\ (\E u \in Fact : Key(u) = Key(t) /\ Count(work[w], u) > 0) => conflict
    BY <1>2, WriteFactCounts
  <2>2. /\ \A u \in Fact : votes[u] \in Nat /\ DOMAIN graph.edges \subseteq Fact
        /\ \A u \in Fact : u \in DOMAIN graph.edges <=> votes[u] > 0
    BY DEF Shapes, GraphShape, CountInv
  <2>3. ASSUME NEW a \in DOMAIN graph'.edges, NEW b \in DOMAIN graph'.edges,
               a[2] \in Functional, Key(a) = Key(b), a # b, Key(a) \notin contended'
        PROVE  \E v \in DOMAIN graph'.edges :
                  Key(v) = Key(a) /\ (graph'.edges[v].conflict \/ votes'[v] > 1)
    <3>1. Key(a) \notin contended
      BY <2>1, <2>3
    <3>2. CASE Key(t) # Key(a)
      <4>1. a \in DOMAIN graph.edges /\ b \in DOMAIN graph.edges
        BY <2>1, <2>3, <3>2
      <4>2. PICK v \in DOMAIN graph.edges :
                Key(v) = Key(a) /\ (graph.edges[v].conflict \/ votes[v] > 1)
        BY <2>3, <3>1, <4>1 DEF SecondObjectFlagged
      <4>3. /\ v \in DOMAIN graph'.edges /\ graph'.edges[v] = graph.edges[v]
            /\ votes'[v] = votes[v]
        BY <2>1, <2>2, <3>2, <4>2
      <4>4. QED
        BY <4>2, <4>3
    <3>3. CASE Key(t) = Key(a) /\ t \in DOMAIN graph.edges
      <4>1. votes'[t] > 1
        BY <2>1, <2>2, <3>3
      <4>2. QED
        BY <2>1, <3>3, <4>1
    <3>4. CASE Key(t) = Key(a) /\ t \notin DOMAIN graph.edges
      <4>1. PICK u \in DOMAIN graph.edges : u # t /\ Key(u) = Key(t)
        BY <2>1, <2>3, <3>4
      <4>2. u \in Fact /\ Key(u) \in Read(work[w])
        BY <2>1, <2>2, <4>1
      <4>3. Count(work[w], u) = votes[u]
        BY <3>1, <3>4, <4>1, <4>2 DEF CountInv
      <4>4. Count(work[w], u) > 0
        BY <2>2, <4>2, <4>3
      <4>5. Count(work[w], t) = 0
        <5>1. votes[t] = 0
          BY <2>1, <2>2, <3>4
        <5>2. Count(work[w], t) <= votes[t]
          BY <2>1 DEF CountInv
        <5>3. QED
          BY <2>1, <5>1, <5>2
      <4>6. t[2] \in Functional
        BY <2>3, <3>4 DEF Key
      <4>7. conflict
        BY <2>1, <4>1, <4>2, <4>4, <4>5, <4>6
      <4>8. QED
        BY <2>1, <3>4, <4>7
    <3>5. QED
      BY <3>2, <3>3, <3>4
  <2>4. QED
    BY <2>3 DEF SecondObjectFlagged
<1>3. QED
  BY <1>1, <1>2

-------------------------------------------------------------------------------
(* The theorems about Ingest *)

LEMMA IngestStarts ==
    ASSUME Init PROVE IngestInv
<1>1. /\ graph = EmptyGraph /\ queue = <<>> /\ work = [w \in Worker |-> Idle]
      /\ reported = {} /\ votes = [t \in Fact |-> 0] /\ uploaded = {}
  BY DEF Init
<1>2. /\ DOMAIN EmptyGraph.nodes = {} /\ DOMAIN EmptyGraph.edges = {} /\ EmptyGraph.documents = {}
      /\ GraphShape(EmptyGraph)
  BY DEF EmptyGraph, GraphShape
<1>3. Idle.pc = "idle" /\ WorkShape(Idle)
  BY DEF Idle, WorkShape, Pc, Writing, Renaming, Holding
<1>4. Shapes
  BY <1>1, <1>2, <1>3 DEF Shapes
<1>5. queue \in Seq(Row) /\ DOMAIN queue = {}
  BY <1>1
<1>6. \A w \in Worker : work[w].pc = "idle"
  BY <1>1, <1>3
<1>7. QueueInv
  BY <1>1, <1>2, <1>5, <1>6 DEF QueueInv, Asking, Resolving, At, MentionsQueued
<1>8. FactsInv
  BY <1>1, <1>6 DEF FactsInv, ReportedFactsStand, At, Writing, Renaming, Holding
<1>9. NamesInv
  BY <1>1, <1>2, <1>6 DEF NamesInv, OneNodePerCik, Calls, Renaming
<1>10. CountInv
  BY <1>1, <1>2, <1>6 DEF CountInv, CorroborationCounts, Read, Holding
<1>11. SecondObjectFlagged
  BY <1>1, <1>2 DEF SecondObjectFlagged
<1>12. QED
  BY <1>4, <1>7, <1>8, <1>9, <1>10, <1>11 DEF IngestInv

LEMMA IngestKeeps ==
    ASSUME IngestInv, [Next]_vars PROVE IngestInv'
<1>1. CASE UNCHANGED vars
  BY <1>1 DEF vars, IngestInv, Shapes, QueueInv, MentionsQueued, FactsInv, ReportedFactsStand,
              NamesInv, OneNodePerCik, CountInv, CorroborationCounts, SecondObjectFlagged, At
<1>2. CASE Next
  <2>1. PICK w \in Worker : StepOf(w)
    BY <1>2, NextIsAStep
  <2>2. Shapes /\ QueueInv /\ FactsInv /\ NamesInv /\ CountInv /\ SecondObjectFlagged
    BY DEF IngestInv
  <2>3. Shapes'
    BY <2>2, ShapesKept
  <2>4. QueueInv' /\ FactsInv' /\ NamesInv'
    BY <2>1, <2>2, QueueKept, FactsKept, NamesKept
  <2>5. CountInv' /\ SecondObjectFlagged'
    BY <2>1, <2>2, CountKept, FlagsKept
  <2>6. QED
    BY <2>3, <2>4, <2>5 DEF IngestInv
<1>3. QED
  BY <1>1, <1>2

\* The inductive invariant: the shape of a worker's state at each stage, what
\* it has queued, named, read and written so far, and the five properties.
THEOREM IngestInvariant == Spec => []IngestInv
<1>1. QED
  BY IngestStarts, IngestKeeps, PTL DEF Spec

\* However many ingests write the graph at once, and wherever one fails, a fact
\* that a completed ingest accepted is an edge with its document's provenance
\* (GraphWriter.write).
THEOREM ReportedFactsStandHolds == Spec => []ReportedFactsStand
<1>1. IngestInv => ReportedFactsStand
  BY DEF IngestInv, FactsInv
<1>2. QED
  BY <1>1, IngestInvariant, PTL

\* A document that an upload wrote has every unresolved mention in SQLite's queue
\* with its id, whatever fails between the two stores and whatever enrichments
\* write, which queue nothing (ingest_document).
THEOREM MentionsQueuedHolds == Spec => []MentionsQueued
<1>1. IngestInv => MentionsQueued
  BY DEF IngestInv, QueueInv
<1>2. QED
  BY <1>1, IngestInvariant, PTL

\* The steward's counter on an edge is the number of times its fact was
\* accepted, or behind it when two reviews read the edge at once (Steward.review).
THEOREM CorroborationCountsHolds == Spec => []CorroborationCounts
<1>1. IngestInv => CorroborationCounts
  BY DEF IngestInv, CountInv
<1>2. QED
  BY <1>1, IngestInvariant, PTL

\* Two nodes with one CIK come only from ingests that named the filer at once,
\* or from a look at the graph that failed (_canonical_company_names).
THEOREM OneNodePerCikHolds == Spec => []OneNodePerCik
<1>1. IngestInv => OneNodePerCik
  BY DEF IngestInv, NamesInv
<1>2. QED
  BY <1>1, IngestInvariant, PTL

\* Two objects of a functional relation never stand unflagged, unless one was
\* stated again or two reviews read the subject at once (Steward.review).
THEOREM SecondObjectFlaggedHolds == Spec => []SecondObjectFlagged
<1>1. IngestInv => SecondObjectFlagged
  BY DEF IngestInv
<1>2. QED
  BY <1>1, IngestInvariant, PTL

-------------------------------------------------------------------------------
(* What the theorems about Reconcile rest on *)

Steps == {"ensure", "stamp", "discover", "out", "in"}
RequestPc == {"idle", "record"} \cup Steps

RequestShape(r) ==
    /\ r.pc \in RequestPc /\ (r.pc = "idle" => r = Idle)
    /\ r.pc \in {"ensure", "stamp", "discover"} =>
        /\ r = [pc |-> r.pc, row |-> r.row, dup |-> r.dup, canon |-> r.canon, cik |-> r.cik]
        /\ r.cik \in Cik \cup {None}
    /\ r.pc \in {"out", "in"} => r.todo \subseteq Rel \cup {MENTIONS}
    /\ r.pc = "in" => r.rel \in r.todo
    /\ r.pc \in Steps => r.canon \in Entity /\ CikOf[r.canon] # None

Merging(pairs, n) == \E p \in pairs : p[1] = n
Gone(g, lost, n) == n \notin DOMAIN g.nodes \/ n \in lost

\* A request's duplicate is its row's mention, which no merge is onto.
Requests ==
    /\ request = [a \in Analyst |-> request[a]]
    /\ \A a \in Analyst :
        /\ RequestShape(request[a])
        /\ request[a].pc # "idle" =>
            /\ request[a].row \in DOMAIN queue /\ request[a].dup = queue[request[a].row].mention
            /\ Merging(onto, request[a].dup)
        /\ request[a].pc \in Steps => <<request[a].dup, request[a].canon>> \in onto
        /\ request[a].pc = "record" => Gone(graph, failed \cup rewritten, request[a].dup)

Decided ==
    /\ status = [r \in DOMAIN status |-> status[r]] /\ DOMAIN status \subseteq DOMAIN queue
    /\ \A r \in DOMAIN status : status[r] = "merged" => Merging(onto, queue[r].mention)
    /\ MergedMeansGone

\* The outgoing edges of type rel have been moved.
OutDone(r, rel) == rel \notin r.todo \/ (r.pc = "in" /\ rel = r.rel)

\* Where a request has been, an edge is left at the duplicate only if it goes to
\* the canonical node or an ingest came late.
MovedOff(g, r, lost) ==
    r.dup \in lost
    \/ /\ \A t \in DOMAIN g.edges :
            /\ t[1] = r.dup /\ OutDone(r, t[2]) => t[3] = r.canon
            /\ t[3] = r.dup /\ t[2] \notin r.todo => t[1] = r.canon
       /\ MENTIONS \notin r.todo => \A m \in g.mentions : m[2] # r.dup

Moved ==
    \A a \in Analyst :
        /\ request[a].pc \in Steps \ {"ensure"} => request[a].canon \in DOMAIN graph.nodes
        /\ request[a].pc \in {"out", "in"} => MovedOff(graph, request[a], late)

ReconcileInv == Shapes /\ QueueInv /\ Requests /\ Decided /\ Moved

-------------------------------------------------------------------------------
(* The statements of repoint_entity *)

LEMMA MergeNodeDoes ==
    ASSUME NEW g, GraphShape(g), NEW n \in Entity, NEW h, h = MergeNode(g, n)
    PROVE  /\ GraphShape(h) /\ DOMAIN h.nodes = DOMAIN g.nodes \cup {n}
           /\ h.edges = g.edges /\ h.mentions = g.mentions /\ h.documents = g.documents
<1> DEFINE nodes == WithNodes(g, {n})
<1>1. /\ DOMAIN nodes = DOMAIN g.nodes \cup {n} /\ nodes = [m \in DOMAIN nodes |-> nodes[m]]
      /\ \A m \in DOMAIN nodes :
            /\ nodes[m].cik \in Cik \cup {None}
            /\ nodes[m] = [cik |-> nodes[m].cik, norm |-> nodes[m].norm]
  BY DEF WithNodes, GraphShape
<1>2. h = [g EXCEPT !.nodes = nodes]
  BY DEF MergeNode
<1> HIDE DEF nodes
<1>3. h = [nodes |-> nodes, edges |-> g.edges, mentions |-> g.mentions,
           rejected |-> g.rejected, documents |-> g.documents]
  BY <1>2 DEF GraphShape
<1>4. h.nodes = nodes /\ h.edges = g.edges /\ h.mentions = g.mentions /\ h.documents = g.documents
      /\ h = [nodes |-> h.nodes, edges |-> h.edges, mentions |-> h.mentions,
              rejected |-> h.rejected, documents |-> h.documents]
  BY <1>3
<1>5. QED
  BY <1>1, <1>4 DEF GraphShape

LEMMA StampCikDoes ==
    ASSUME NEW g, GraphShape(g), NEW n, NEW cik \in Cik \cup {None}, NEW h, h = StampCik(g, n, cik)
    PROVE  /\ GraphShape(h) /\ DOMAIN h.nodes = DOMAIN g.nodes
           /\ h.edges = g.edges /\ h.mentions = g.mentions /\ h.documents = g.documents
<1>1. CASE ~(n \in DOMAIN g.nodes /\ cik # None)
  BY <1>1 DEF StampCik
<1>2. CASE n \in DOMAIN g.nodes /\ cik # None
  <2> DEFINE node == [cik |-> cik, norm |-> g.nodes[n].norm]
             nodes == [g.nodes EXCEPT ![n] = node]
  <2>1. PICK z, zs : /\ z = [g.nodes[n] EXCEPT !.cik = cik] /\ zs = [g.nodes EXCEPT ![n] = z]
                     /\ h = [g EXCEPT !.nodes = zs]
    BY <1>2 DEF StampCik
  <2>2. z = node
    <3>1. g.nodes[n] = [cik |-> g.nodes[n].cik, norm |-> g.nodes[n].norm]
      BY <1>2 DEF GraphShape
    <3>2. QED
      BY <2>1, <3>1
  <2>3. node.cik = cik /\ node = [cik |-> node.cik, norm |-> node.norm]
    OBVIOUS
  <2> HIDE DEF node
  <2>4. zs = nodes
    BY <2>1, <2>2
  <2>5. DOMAIN nodes = DOMAIN g.nodes /\ nodes = [m \in DOMAIN nodes |-> nodes[m]]
        /\ nodes[n] = node /\ \A m \in DOMAIN g.nodes \ {n} : nodes[m] = g.nodes[m]
    BY <1>2 DEF GraphShape
  <2> HIDE DEF nodes
  <2>6. \A m \in DOMAIN nodes :
            /\ nodes[m].cik \in Cik \cup {None}
            /\ nodes[m] = [cik |-> nodes[m].cik, norm |-> nodes[m].norm]
    BY <2>3, <2>5 DEF GraphShape
  <2>7. h = [nodes |-> nodes, edges |-> g.edges, mentions |-> g.mentions,
             rejected |-> g.rejected, documents |-> g.documents]
    BY <2>1, <2>4 DEF GraphShape
  <2>8. h.nodes = nodes /\ h.edges = g.edges /\ h.mentions = g.mentions /\ h.documents = g.documents
        /\ h = [nodes |-> h.nodes, edges |-> h.edges, mentions |-> h.mentions,
                rejected |-> h.rejected, documents |-> h.documents]
    BY <2>7
  <2>9. QED
    BY <2>5, <2>6, <2>8 DEF GraphShape
<1>3. QED
  BY <1>1, <1>2

LEMMA MoveEdgesDoes ==
    ASSUME NEW g, NEW moved, NEW to, NEW h, h = MoveEdges(g, moved, to),
           GraphShape(g), moved \subseteq DOMAIN g.edges, \A e \in moved : to[e] \in Fact
    PROVE  /\ GraphShape(h) /\ DOMAIN h.edges = (DOMAIN g.edges \ moved) \cup {to[e] : e \in moved}
           /\ h.nodes = g.nodes /\ h.mentions = g.mentions /\ h.documents = g.documents
<1> DEFINE images == {to[e] : e \in moved}
           source(u) == CHOOSE e \in moved : to[e] = u
           edges == [u \in (DOMAIN g.edges \ moved) \cup images |->
                        IF u \in images THEN g.edges[source(u)] ELSE g.edges[u]]
<1>1. h = [g EXCEPT !.edges = edges]
  BY DEF MoveEdges
<1>2. \A u \in images : source(u) \in moved
  OBVIOUS
<1>3. DOMAIN edges = (DOMAIN g.edges \ moved) \cup images
      /\ \A u \in DOMAIN edges : \E e \in DOMAIN g.edges : edges[u] = g.edges[e]
  BY <1>2
<1> HIDE DEF edges, source
<1>4. h = [nodes |-> g.nodes, edges |-> edges, mentions |-> g.mentions,
           rejected |-> g.rejected, documents |-> g.documents]
  BY <1>1 DEF GraphShape
<1>5. h.nodes = g.nodes /\ h.edges = edges /\ h.mentions = g.mentions /\ h.documents = g.documents
      /\ h = [nodes |-> h.nodes, edges |-> h.edges, mentions |-> h.mentions,
              rejected |-> h.rejected, documents |-> h.documents]
  BY <1>4
<1>6. DOMAIN edges \subseteq Fact
  BY <1>3 DEF GraphShape
<1>7. \A u \in DOMAIN edges : edges[u].corroboration \in Nat \ {0}
  BY <1>3 DEF GraphShape
<1>8. QED
  BY <1>3, <1>5, <1>6, <1>7 DEF GraphShape

\* An edge a statement of repoint_entity leaves, and what it makes of another.
LEMMA RepointOutDoes ==
    ASSUME NEW g, GraphShape(g), NEW rel \in Rel, NEW dup, NEW canon \in Entity,
           NEW h, h = RepointOut(g, rel, dup, canon)
    PROVE  /\ GraphShape(h) /\ h.nodes = g.nodes /\ h.mentions = g.mentions
           /\ h.documents = g.documents
           /\ \A u : u \in DOMAIN h.edges <=>
                \/ /\ u \in DOMAIN g.edges
                   /\ ~(u[1] = dup /\ u[2] = rel /\ u[3] # canon /\ canon \in DOMAIN g.nodes)
                \/ \E e \in DOMAIN g.edges :
                      /\ e[1] = dup /\ e[2] = rel /\ e[3] # canon /\ canon \in DOMAIN g.nodes
                      /\ u = <<canon, rel, e[3]>>
<1> DEFINE moved == {e \in DOMAIN g.edges :
                        e[1] = dup /\ e[2] = rel /\ e[3] # canon /\ canon \in DOMAIN g.nodes}
           to == [e \in moved |-> <<canon, rel, e[3]>>]
<1>1. h = MoveEdges(g, moved, to) /\ moved \subseteq DOMAIN g.edges
  BY DEF RepointOut
<1>2. DOMAIN g.edges \subseteq Fact
  BY DEF GraphShape
<1>3. \A e \in moved : to[e] = <<canon, rel, e[3]>> /\ to[e] \in Fact
  BY <1>2 DEF Fact
<1>4. \A e : e \in moved <=>
        e \in DOMAIN g.edges /\ e[1] = dup /\ e[2] = rel /\ e[3] # canon /\ canon \in DOMAIN g.nodes
  OBVIOUS
<1> HIDE DEF moved, to
<1>5. /\ GraphShape(h) /\ DOMAIN h.edges = (DOMAIN g.edges \ moved) \cup {to[e] : e \in moved}
      /\ h.nodes = g.nodes /\ h.mentions = g.mentions /\ h.documents = g.documents
  BY <1>1, <1>3, MoveEdgesDoes
<1>6. \A u : u \in {to[e] : e \in moved} <=> \E e \in moved : u = <<canon, rel, e[3]>>
  BY <1>3
<1>7. \A u : u \in DOMAIN h.edges <=>
        (u \in DOMAIN g.edges /\ u \notin moved) \/ \E e \in moved : u = <<canon, rel, e[3]>>
  BY <1>5, <1>6
<1>8. QED
  BY <1>4, <1>5, <1>7

LEMMA RepointInDoes ==
    ASSUME NEW g, GraphShape(g), NEW rel \in Rel, NEW dup, NEW canon \in Entity,
           NEW h, h = RepointIn(g, rel, dup, canon)
    PROVE  /\ GraphShape(h) /\ h.nodes = g.nodes /\ h.mentions = g.mentions
           /\ h.documents = g.documents
           /\ \A u : u \in DOMAIN h.edges <=>
                \/ /\ u \in DOMAIN g.edges
                   /\ ~(u[3] = dup /\ u[2] = rel /\ u[1] # canon /\ canon \in DOMAIN g.nodes)
                \/ \E e \in DOMAIN g.edges :
                      /\ e[3] = dup /\ e[2] = rel /\ e[1] # canon /\ canon \in DOMAIN g.nodes
                      /\ u = <<e[1], rel, canon>>
<1> DEFINE moved == {e \in DOMAIN g.edges :
                        e[3] = dup /\ e[2] = rel /\ e[1] # canon /\ canon \in DOMAIN g.nodes}
           to == [e \in moved |-> <<e[1], rel, canon>>]
<1>1. h = MoveEdges(g, moved, to) /\ moved \subseteq DOMAIN g.edges
  BY DEF RepointIn
<1>2. DOMAIN g.edges \subseteq Fact
  BY DEF GraphShape
<1>3. \A e \in moved : to[e] = <<e[1], rel, canon>> /\ to[e] \in Fact
  BY <1>2 DEF Fact
<1>4. \A e : e \in moved <=>
        e \in DOMAIN g.edges /\ e[3] = dup /\ e[2] = rel /\ e[1] # canon /\ canon \in DOMAIN g.nodes
  OBVIOUS
<1> HIDE DEF moved, to
<1>5. /\ GraphShape(h) /\ DOMAIN h.edges = (DOMAIN g.edges \ moved) \cup {to[e] : e \in moved}
      /\ h.nodes = g.nodes /\ h.mentions = g.mentions /\ h.documents = g.documents
  BY <1>1, <1>3, MoveEdgesDoes
<1>6. \A u : u \in {to[e] : e \in moved} <=> \E e \in moved : u = <<e[1], rel, canon>>
  BY <1>3
<1>7. \A u : u \in DOMAIN h.edges <=>
        (u \in DOMAIN g.edges /\ u \notin moved) \/ \E e \in moved : u = <<e[1], rel, canon>>
  BY <1>5, <1>6
<1>8. QED
  BY <1>4, <1>5, <1>7

LEMMA RepointMentionsDoes ==
    ASSUME NEW g, GraphShape(g), NEW dup, NEW canon \in DOMAIN g.nodes,
           NEW h, h = RepointMentions(g, dup, canon)
    PROVE  /\ GraphShape(h) /\ h.nodes = g.nodes /\ h.edges = g.edges
           /\ h.documents = g.documents
           /\ h.mentions = {IF m[2] = dup THEN <<m[1], canon>> ELSE m : m \in g.mentions}
<1> DEFINE mentions == {IF m[2] = dup THEN <<m[1], canon>> ELSE m : m \in g.mentions}
<1>1. h = [g EXCEPT !.mentions = mentions]
  BY DEF RepointMentions
<1> HIDE DEF mentions
<1>2. h = [nodes |-> g.nodes, edges |-> g.edges, mentions |-> mentions,
           rejected |-> g.rejected, documents |-> g.documents]
  BY <1>1 DEF GraphShape
<1>3. h.nodes = g.nodes /\ h.edges = g.edges /\ h.mentions = mentions /\ h.documents = g.documents
      /\ h = [nodes |-> h.nodes, edges |-> h.edges, mentions |-> h.mentions,
              rejected |-> h.rejected, documents |-> h.documents]
  BY <1>2
<1>4. mentions \subseteq Doc \X Entity
  <2>1. ASSUME NEW m \in g.mentions
        PROVE  (IF m[2] = dup THEN <<m[1], canon>> ELSE m) \in Doc \X Entity
    <3>1. m \in Doc \X Entity /\ canon \in Entity
      BY DEF GraphShape
    <3>2. QED
      BY <3>1
  <2>2. QED
    BY <2>1 DEF mentions
<1>5. QED
  BY <1>3, <1>4 DEF GraphShape, mentions

LEMMA DetachDeleteDoes ==
    ASSUME NEW g, GraphShape(g), NEW n, NEW h, h = DetachDelete(g, n)
    PROVE  /\ GraphShape(h) /\ DOMAIN h.nodes = DOMAIN g.nodes \ {n}
           /\ DOMAIN h.edges = {t \in DOMAIN g.edges : n \notin {t[1], t[3]}}
           /\ h.mentions = {m \in g.mentions : m[2] # n} /\ h.documents = g.documents
<1> DEFINE nodes == [m \in DOMAIN g.nodes \ {n} |-> g.nodes[m]]
           edges == [t \in {u \in DOMAIN g.edges : n \notin {u[1], u[3]}} |-> g.edges[t]]
           mentions == {m \in g.mentions : m[2] # n}
<1>1. h = [g EXCEPT !.nodes = nodes, !.edges = edges, !.mentions = mentions]
  BY DEF DetachDelete
<1>2. /\ DOMAIN nodes = DOMAIN g.nodes \ {n} /\ nodes = [m \in DOMAIN nodes |-> nodes[m]]
      /\ \A m \in DOMAIN nodes : nodes[m] = g.nodes[m]
      /\ DOMAIN edges = {u \in DOMAIN g.edges : n \notin {u[1], u[3]}}
      /\ \A t \in DOMAIN edges : edges[t] = g.edges[t]
  OBVIOUS
<1> HIDE DEF nodes, edges, mentions
<1>3. h = [nodes |-> nodes, edges |-> edges, mentions |-> mentions,
           rejected |-> g.rejected, documents |-> g.documents]
  BY <1>1 DEF GraphShape
<1>4. h.nodes = nodes /\ h.edges = edges /\ h.mentions = mentions /\ h.documents = g.documents
      /\ h = [nodes |-> h.nodes, edges |-> h.edges, mentions |-> h.mentions,
              rejected |-> h.rejected, documents |-> h.documents]
  BY <1>3
<1>5. QED
  BY <1>2, <1>4 DEF GraphShape, mentions

-------------------------------------------------------------------------------
(* Each part of the invariant, from what a step does to what it is about *)

LEMMA MentionsFixed ==
    ASSUME Shapes, QueueInv, NEW w \in Worker, StepOf(w)
    PROVE  \A r \in DOMAIN queue : r \in DOMAIN queue' /\ queue'[r].mention = queue[r].mention
<1>1. CASE Enqueue(w)
  <2>1. PICK y, i : /\ i \in Unresolved(work[w].doc) /\ work[w].pc = "resolve"
                    /\ queue' = Append(queue, [mention |-> Mentions[work[w].doc][i], doc |-> None])
    BY <1>1, EnqueueDoes DEF At
  <2>2. PICK row : row = [mention |-> Mentions[work[w].doc][i], doc |-> None]
    OBVIOUS
  <2>3. work[w].doc \in Doc
    BY <2>1 DEF Shapes, WorkShape
  <2>4. row \in Row /\ queue \in Seq(Row) /\ queue' = Append(queue, row)
    BY <2>1, <2>2, <2>3, ListFacts DEF Row, QueueInv, Unresolved
  <2>5. QED
    BY <2>4, AppendProperties, LenProperties
<1>2. CASE SetProvenance(w)
  <2>1. PICK at, d : queue' = [queue EXCEPT ![at].doc = d]
    BY <1>2 DEF SetProvenance
  <2>2. \A r \in DOMAIN queue : queue[r] \in Row
    BY LenProperties DEF QueueInv
  <2>3. \A r \in DOMAIN queue : queue[r] = [mention |-> queue[r].mention, doc |-> queue[r].doc]
    BY <2>2 DEF Row
  <2>4. DOMAIN queue' = DOMAIN queue /\ \A r \in DOMAIN queue : r # at => queue'[r] = queue[r]
    BY <2>1
  <2>5. at \in DOMAIN queue => queue'[at] = [mention |-> queue[at].mention, doc |-> d]
    BY <2>1, <2>3
  <2>6. QED
    BY <2>4, <2>5
<1>3. CASE ~Enqueue(w) /\ ~SetProvenance(w)
  <2>1. queue' = queue
    <3>1. CASE (\E d \in Doc : Begin(w, d)) \/ WriteDocument(w) \/ NamesChosen(w)
               \/ WriteEntity(w) \/ WriteMention(w) \/ BuildTriples(w)
      BY <3>1 DEF Begin, WriteDocument, NamesChosen, WriteEntity, WriteMention, BuildTriples
    <3>2. CASE Canonicalise(w)
      BY <3>2 DEF Canonicalise
    <3>3. CASE ReadExisting(w) \/ ReviewFacts(w) \/ WriteFact(w) \/ WriteRejected(w)
               \/ Complete(w) \/ Fail(w)
      BY <3>3 DEF ReadExisting, ReviewFacts, WriteFact, WriteRejected, Complete, Fail
    <3>4. QED
      BY <1>3, <3>1, <3>2, <3>3 DEF StepOf
  <2>2. QED
    BY <2>1
<1>4. QED
  BY <1>1, <1>2, <1>3

LEMMA RequestsKeep ==
    ASSUME NEW a \in Analyst, NEW y, Requests, request' = [request EXCEPT ![a] = y],
           queue' = queue, onto \subseteq onto', RequestShape(y),
           y.pc # "idle" => /\ y.row \in DOMAIN queue /\ y.dup = queue[y.row].mention
                            /\ Merging(onto', y.dup),
           y.pc \in Steps => <<y.dup, y.canon>> \in onto',
           y.pc = "record" => Gone(graph', failed' \cup rewritten', y.dup),
           \A r \in DOMAIN queue : Gone(graph, failed \cup rewritten, queue[r].mention)
                => Gone(graph', failed' \cup rewritten', queue[r].mention)
    PROVE  Requests'
<1>1. /\ request' = [b \in Analyst |-> request'[b]] /\ request'[a] = y
      /\ \A b \in Analyst \ {a} : request'[b] = request[b]
  BY DEF Requests
<1>2. ASSUME NEW b \in Analyst
      PROVE  /\ RequestShape(request'[b])
             /\ request'[b].pc # "idle" =>
                  /\ request'[b].row \in DOMAIN queue'
                  /\ request'[b].dup = queue'[request'[b].row].mention
                  /\ Merging(onto', request'[b].dup)
             /\ request'[b].pc \in Steps => <<request'[b].dup, request'[b].canon>> \in onto'
             /\ request'[b].pc = "record" => Gone(graph', failed' \cup rewritten', request'[b].dup)
  <2>1. CASE b = a
    BY <1>1, <2>1
  <2>2. CASE b # a
    <3>1. PICK r : r = request[b] /\ r = request'[b]
      BY <1>1, <2>2
    <3>2. /\ RequestShape(r)
          /\ r.pc # "idle" => /\ r.row \in DOMAIN queue /\ r.dup = queue[r.row].mention
                              /\ Merging(onto, r.dup)
          /\ r.pc \in Steps => <<r.dup, r.canon>> \in onto
          /\ r.pc = "record" => Gone(graph, failed \cup rewritten, r.dup)
      BY <3>1 DEF Requests
    <3>3. Merging(onto, r.dup) => Merging(onto', r.dup)
      BY DEF Merging
    <3>4. r.pc = "record" => r.pc # "idle"
      OBVIOUS
    <3>5. r.pc = "record" => Gone(graph', failed' \cup rewritten', r.dup)
      BY <3>2, <3>4
    <3>6. QED
      BY <3>1, <3>2, <3>3, <3>5
  <2>3. QED
    BY <2>1, <2>2
<1>3. QED
  BY <1>1, <1>2 DEF Requests

LEMMA DecidedKeeps ==
    ASSUME Decided, queue' = queue, onto \subseteq onto',
           status' = [r \in DOMAIN status' |-> status'[r]], DOMAIN status' \subseteq DOMAIN queue,
           \A r \in DOMAIN status' : status'[r] = "merged" =>
                \/ r \in DOMAIN status /\ status[r] = "merged"
                \/ /\ Merging(onto', queue[r].mention)
                   /\ Gone(graph', failed' \cup rewritten', queue[r].mention),
           \A r \in DOMAIN queue : Gone(graph, failed \cup rewritten, queue[r].mention)
                => Gone(graph', failed' \cup rewritten', queue[r].mention)
    PROVE  Decided'
<1>1. \A r \in DOMAIN status : status[r] = "merged" =>
        /\ r \in DOMAIN queue /\ Merging(onto, queue[r].mention)
        /\ Gone(graph, failed \cup rewritten, queue[r].mention)
  BY DEF Decided, MergedMeansGone, Gone
<1>2. \A n : Merging(onto, n) => Merging(onto', n)
  BY DEF Merging
<1>3. \A r \in DOMAIN status' : status'[r] = "merged" =>
        /\ Merging(onto', queue'[r].mention)
        /\ Gone(graph', failed' \cup rewritten', queue'[r].mention)
  BY <1>1, <1>2
<1>4. MergedMeansGone'
  BY <1>3 DEF MergedMeansGone, Gone
<1>5. QED
  BY <1>3, <1>4 DEF Decided

LEMMA MovedKeeps ==
    ASSUME Requests, Moved, NEW a \in Analyst, NEW y, request' = [request EXCEPT ![a] = y],
           \A n \in DOMAIN graph.nodes : CikOf[n] # None => n \in DOMAIN graph'.nodes,
           \A b \in Analyst \ {a} : request[b].pc \in {"out", "in"} =>
                MovedOff(graph', request[b], late'),
           y.pc \in Steps \ {"ensure"} => y.canon \in DOMAIN graph'.nodes,
           y.pc \in {"out", "in"} => MovedOff(graph', y, late')
    PROVE  Moved'
<1>1. request'[a] = y /\ \A b \in Analyst \ {a} : request'[b] = request[b]
  BY DEF Requests
<1>2. \A b \in Analyst \ {a} : request[b].pc \in Steps \ {"ensure"} =>
        request[b].canon \in DOMAIN graph'.nodes
  BY DEF Moved, Requests, RequestShape
<1>3. \A b \in Analyst : request'[b].pc \in Steps \ {"ensure"} =>
        request'[b].canon \in DOMAIN graph'.nodes
  BY <1>1, <1>2
<1>4. \A b \in Analyst : request'[b].pc \in {"out", "in"} => MovedOff(graph', request'[b], late')
  BY <1>1
<1>5. QED
  BY <1>3, <1>4 DEF Moved

\* Nothing about ingests changes when a request writes the graph.
LEMMA IngestsStay ==
    ASSUME Shapes, QueueInv, GraphShape(graph'), graph'.documents = graph.documents,
           queue' = queue, work' = work, votes' = votes, uploaded' = uploaded
    PROVE  Shapes' /\ QueueInv'
<1>1. Shapes'
  BY DEF Shapes
<1>2. MentionsQueued'
  BY DEF QueueInv, MentionsQueued
<1>3. QED
  BY <1>1, <1>2 DEF QueueInv, At

\* The mentions in the queue have no CIK; what a merge is onto has one.
LEMMA DupIsNot ==
    ASSUME QueueInv, Requests, NEW a \in Analyst, request[a].pc # "idle"
    PROVE  /\ request[a].row \in DOMAIN queue /\ request[a].dup = queue[request[a].row].mention
           /\ CikOf[request[a].dup] = None
           /\ request[a].pc \in Steps =>
                /\ request[a].canon \in Entity /\ CikOf[request[a].canon] # None
                /\ request[a].canon # request[a].dup
                /\ <<request[a].dup, request[a].canon>> \in onto
  BY DEF QueueInv, Requests, RequestShape

\* Edge u is what a move of an edge from dup to canon makes of it.
MovedFrom(g, dup, canon, u) ==
    \E e \in DOMAIN g.edges :
        /\ e[2] = u[2]
        /\ \/ e[1] = dup /\ u[1] = canon /\ u[3] = e[3]
           \/ e[3] = dup /\ u[3] = canon /\ u[1] = e[1]

\* Another request's moves put no edge at this one's duplicate that its own moves
\* would have to see again.
LEMMA MovedOffStays ==
    ASSUME NEW g, NEW h, NEW r, NEW dup, NEW canon, NEW lost, MovedOff(g, r, lost),
           r.dup # canon, r.canon # dup, h.mentions = g.mentions,
           \A u \in DOMAIN h.edges : u \in DOMAIN g.edges \/ MovedFrom(g, dup, canon, u)
    PROVE  MovedOff(h, r, lost)
<1>1. CASE r.dup \in lost
  BY <1>1 DEF MovedOff
<1>2. CASE r.dup \notin lost
  <2>1. \A t \in DOMAIN g.edges :
            /\ t[1] = r.dup /\ OutDone(r, t[2]) => t[3] = r.canon
            /\ t[3] = r.dup /\ t[2] \notin r.todo => t[1] = r.canon
    BY <1>2 DEF MovedOff
  <2>2. ASSUME NEW u \in DOMAIN h.edges
        PROVE  /\ u[1] = r.dup /\ OutDone(r, u[2]) => u[3] = r.canon
               /\ u[3] = r.dup /\ u[2] \notin r.todo => u[1] = r.canon
    <3>1. CASE u \in DOMAIN g.edges
      BY <2>1, <3>1
    <3>2. CASE MovedFrom(g, dup, canon, u)
      <4>1. PICK e \in DOMAIN g.edges :
              /\ e[2] = u[2]
              /\ \/ e[1] = dup /\ u[1] = canon /\ u[3] = e[3]
                 \/ e[3] = dup /\ u[3] = canon /\ u[1] = e[1]
        BY <3>2 DEF MovedFrom
      <4>2. QED
        BY <2>1, <4>1
    <3>3. QED
      BY <3>1, <3>2
  <2>3. MENTIONS \notin r.todo => \A m \in h.mentions : m[2] # r.dup
    BY <1>2 DEF MovedOff
  <2>4. QED
    BY <2>2, <2>3 DEF MovedOff
<1>3. QED
  BY <1>1, <1>2

\* A state with fewer edges and mentions at the duplicate.
LEMMA MovedOffShrinks ==
    ASSUME NEW g, NEW h, NEW r, NEW lost, NEW found, MovedOff(g, r, lost),
           \A u \in DOMAIN h.edges : u \in DOMAIN g.edges \/ r.dup \notin {u[1], u[3]} \/ r.dup \in found,
           \A m \in h.mentions : m \in g.mentions \/ m[2] # r.dup \/ r.dup \in found,
           r.dup \in lost => r.dup \in found
    PROVE  MovedOff(h, r, found)
<1>1. CASE r.dup \in found
  BY <1>1 DEF MovedOff
<1>2. CASE r.dup \notin found
  <2>1. /\ \A t \in DOMAIN g.edges :
              /\ t[1] = r.dup /\ OutDone(r, t[2]) => t[3] = r.canon
              /\ t[3] = r.dup /\ t[2] \notin r.todo => t[1] = r.canon
        /\ MENTIONS \notin r.todo => \A m \in g.mentions : m[2] # r.dup
    BY <1>2 DEF MovedOff
  <2>2. \A u \in DOMAIN h.edges : r.dup \in {u[1], u[3]} => u \in DOMAIN g.edges
    BY <1>2
  <2>3. \A m \in h.mentions : m[2] = r.dup => m \in g.mentions
    BY <1>2
  <2>4. QED
    BY <2>1, <2>2, <2>3 DEF MovedOff
<1>3. QED
  BY <1>1, <1>2

LEMMA MovedOffFree ==
    ASSUME NEW h, NEW r, NEW lost,
           \A u \in DOMAIN h.edges : r.dup \notin {u[1], u[3]}, \A m \in h.mentions : m[2] # r.dup
    PROVE  MovedOff(h, r, lost)
  BY DEF MovedOff

-------------------------------------------------------------------------------
(* Each step of the reconciliation keeps the invariant *)

\* A step that leaves the graph alone.
LEMMA DeskOnly ==
    ASSUME ReconcileInv, NEW a \in Analyst, NEW y, request' = [request EXCEPT ![a] = y],
           UNCHANGED vars, onto \subseteq onto', late' = late, rewritten' = rewritten,
           failed \subseteq failed', RequestShape(y),
           status' = [r \in DOMAIN status' |-> status'[r]], DOMAIN status' \subseteq DOMAIN queue,
           \A r \in DOMAIN status' : status'[r] = "merged" =>
                \/ r \in DOMAIN status /\ status[r] = "merged"
                \/ /\ Merging(onto', queue[r].mention)
                   /\ Gone(graph', failed' \cup rewritten', queue[r].mention),
           y.pc # "idle" => /\ y.row \in DOMAIN queue /\ y.dup = queue[y.row].mention
                            /\ Merging(onto', y.dup),
           y.pc \in Steps => <<y.dup, y.canon>> \in onto',
           y.pc = "record" => Gone(graph', failed' \cup rewritten', y.dup),
           y.pc \in Steps \ {"ensure"} => y.canon \in DOMAIN graph.nodes,
           y.pc \in {"out", "in"} => MovedOff(graph, y, late)
    PROVE  ReconcileInv'
<1>1. Shapes /\ QueueInv /\ Requests /\ Decided /\ Moved
  BY DEF ReconcileInv
<1>2. graph' = graph /\ queue' = queue /\ work' = work /\ votes' = votes /\ uploaded' = uploaded
  BY DEF vars, history
<1>3. Shapes' /\ QueueInv'
  BY <1>1, <1>2, IngestsStay DEF Shapes
<1>4. \A r \in DOMAIN queue : Gone(graph, failed \cup rewritten, queue[r].mention)
        => Gone(graph', failed' \cup rewritten', queue[r].mention)
  BY <1>2 DEF Gone
<1>5. Requests'
  BY <1>1, <1>2, <1>4, RequestsKeep
<1>6. Decided'
  BY <1>1, <1>2, <1>4, DecidedKeeps
<1>7. \A b \in Analyst \ {a} : request[b].pc \in {"out", "in"} => MovedOff(graph', request[b], late')
  BY <1>1, <1>2 DEF Moved
<1>8. Moved'
  BY <1>1, <1>2, <1>7, MovedKeeps
<1>9. QED
  BY <1>3, <1>5, <1>6, <1>8 DEF ReconcileInv

\* A step that writes the graph, and nothing else but the request.
LEMMA GraphStep ==
    ASSUME ReconcileInv, NEW a \in Analyst, NEW y, request' = [request EXCEPT ![a] = y],
           queue' = queue, work' = work, votes' = votes, uploaded' = uploaded,
           status' = status, onto' = onto,
           GraphShape(graph'), graph'.documents = graph.documents, RequestShape(y),
           y.pc # "idle", y.row = request[a].row, y.dup = request[a].dup, request[a].pc \in Steps,
           y.pc \in Steps => y.canon = request[a].canon,
           y.pc = "record" => Gone(graph', failed' \cup rewritten', y.dup),
           \A r \in DOMAIN queue : Gone(graph, failed \cup rewritten, queue[r].mention)
                => Gone(graph', failed' \cup rewritten', queue[r].mention),
           \A n \in DOMAIN graph.nodes : CikOf[n] # None => n \in DOMAIN graph'.nodes,
           \A b \in Analyst \ {a} : request[b].pc \in {"out", "in"} =>
                MovedOff(graph', request[b], late'),
           y.pc \in Steps \ {"ensure"} => y.canon \in DOMAIN graph'.nodes,
           y.pc \in {"out", "in"} => MovedOff(graph', y, late')
    PROVE  ReconcileInv'
<1>1. Shapes /\ QueueInv /\ Requests /\ Decided /\ Moved
  BY DEF ReconcileInv
<1>2. Shapes' /\ QueueInv'
  BY <1>1, IngestsStay
<1>3. /\ y.row \in DOMAIN queue /\ y.dup = queue[y.row].mention /\ Merging(onto', y.dup)
      /\ y.pc \in Steps => <<y.dup, y.canon>> \in onto'
  BY <1>1, DupIsNot DEF Requests, Steps
<1>4. Requests'
  BY <1>1, <1>3, RequestsKeep
<1>5. Decided'
  <2>1. status' = [r \in DOMAIN status' |-> status'[r]] /\ DOMAIN status' \subseteq DOMAIN queue
    BY <1>1 DEF Decided
  <2>2. QED
    BY <1>1, <2>1, DecidedKeeps
<1>6. Moved'
  BY <1>1, MovedKeeps
<1>7. QED
  BY <1>2, <1>4, <1>5, <1>6 DEF ReconcileInv

LEMMA RequestIs ==
    ASSUME ReconcileInv, NEW a \in Analyst, request[a].pc # "idle"
    PROVE  /\ Shapes /\ QueueInv /\ Requests /\ Decided /\ Moved
           /\ RequestShape(request[a]) /\ request[a].pc \in Steps \cup {"record"}
           /\ request[a].row \in DOMAIN queue /\ request[a].dup = queue[request[a].row].mention
           /\ Merging(onto, request[a].dup) /\ CikOf[request[a].dup] = None
           /\ request[a].pc = "record" => Gone(graph, failed \cup rewritten, request[a].dup)
           /\ request[a].pc \in Steps =>
                /\ request[a].canon \in Entity /\ CikOf[request[a].canon] # None
                /\ request[a].canon # request[a].dup
                /\ <<request[a].dup, request[a].canon>> \in onto
           /\ request[a].pc \in Steps \ {"ensure"} => request[a].canon \in DOMAIN graph.nodes
           /\ request[a].pc \in {"out", "in"} => MovedOff(graph, request[a], late)
<1>1. Shapes /\ QueueInv /\ Requests /\ Decided /\ Moved
  BY DEF ReconcileInv
<1>2. RequestShape(request[a]) /\ request[a].pc \in Steps \cup {"record"}
  BY <1>1 DEF Requests, RequestShape, RequestPc
<1>3. QED
  BY <1>1, <1>2, DupIsNot DEF Requests, Moved

LEMMA StatusStays ==
    ASSUME ReconcileInv, status' = status
    PROVE  /\ status' = [r \in DOMAIN status' |-> status'[r]] /\ DOMAIN status' \subseteq DOMAIN queue
           /\ \A r \in DOMAIN status' : status'[r] = "merged" =>
                r \in DOMAIN status /\ status[r] = "merged"
  BY DEF ReconcileInv, Decided

LEMMA BeginMergeKeeps ==
    ASSUME ReconcileInv, NEW a \in Analyst, NEW row \in DOMAIN queue,
           NEW canon \in Candidates[queue[row].mention], BeginMerge(a, row, canon)
    PROVE  ReconcileInv'
<1> DEFINE dup == queue[row].mention
<1>1. PICK cik \in {None, CikOf[canon]} :
        request' = [request EXCEPT ![a] = [pc |-> "ensure", row |-> row, dup |-> dup,
                                           canon |-> canon, cik |-> cik]]
  BY DEF BeginMerge
<1>2. /\ UNCHANGED vars /\ status' = status /\ failed' = failed /\ late' = late
      /\ rewritten' = rewritten /\ onto' = onto \cup {<<dup, canon>>}
  BY DEF BeginMerge
<1>3. queue[row] \in Row
  BY LenProperties DEF ReconcileInv, QueueInv
<1>4. dup \in Entity /\ canon \in Entity /\ CikOf[canon] # None /\ CikOf[canon] \in Cik
  BY <1>3, ReconcileAssumption, IngestAssumption DEF Row
<1> HIDE DEF dup
<1> DEFINE y == [pc |-> "ensure", row |-> row, dup |-> dup, canon |-> canon, cik |-> cik]
<1>5. y.pc = "ensure" /\ y.row = row /\ y.dup = dup /\ y.canon = canon /\ RequestShape(y)
  BY <1>4 DEF RequestShape, RequestPc, Steps
<1>6. Merging(onto', dup) /\ <<dup, canon>> \in onto'
  <2>1. <<dup, canon>> \in onto'
    BY <1>2
  <2>2. <<dup, canon>>[1] = dup
    OBVIOUS
  <2>3. QED
    BY <2>1, <2>2 DEF Merging
<1> HIDE DEF y
<1>7. QED
  BY <1>1, <1>2, <1>5, <1>6, StatusStays, DeskOnly DEF y, dup

LEMMA DiscoverKeeps ==
    ASSUME ReconcileInv, NEW a \in Analyst, Discover(a) PROVE ReconcileInv'
<1> DEFINE r == request[a]
           types == {t[2] : t \in {u \in DOMAIN graph.edges : r.dup \in {u[1], u[3]}}}
           mentioned == {MENTIONS : m \in {n \in graph.mentions : n[2] = r.dup}}
           todo == types \cup mentioned
           y == [pc |-> "out", row |-> r.row, dup |-> r.dup, canon |-> r.canon, todo |-> todo]
<1>1. r.pc = "discover" /\ request' = [request EXCEPT ![a] = y]
      /\ UNCHANGED vars /\ status' = status /\ failed' = failed /\ late' = late
      /\ rewritten' = rewritten /\ onto' = onto
  BY DEF Discover, Moving, past
<1>2. todo \subseteq Rel \cup {MENTIONS}
  <2>1. \A t \in DOMAIN graph.edges : t[2] \in Rel
    BY DEF ReconcileInv, Shapes, GraphShape, Fact
  <2>2. QED
    BY <2>1
<1>3. /\ \A t \in DOMAIN graph.edges : r.dup \in {t[1], t[3]} => t[2] \in todo
      /\ \A m \in graph.mentions : m[2] = r.dup => MENTIONS \in todo
  OBVIOUS
<1> HIDE DEF todo, r
<1>4. /\ r.row \in DOMAIN queue /\ r.dup = queue[r.row].mention /\ Merging(onto, r.dup)
      /\ r.canon \in Entity /\ CikOf[r.canon] # None /\ <<r.dup, r.canon>> \in onto
      /\ r.canon \in DOMAIN graph.nodes
  BY <1>1, RequestIs DEF r, Steps
<1>5. /\ y.pc = "out" /\ y.row = r.row /\ y.dup = r.dup /\ y.canon = r.canon /\ y.todo = todo
      /\ RequestShape(y)
  BY <1>2, <1>4 DEF RequestShape, RequestPc, Steps
<1> HIDE DEF y
<1>6. MovedOff(graph, y, late)
  BY <1>3, <1>5 DEF MovedOff, OutDone
<1>7. QED
  BY <1>1, <1>4, <1>5, <1>6, StatusStays, DeskOnly

LEMMA RepointFailsKeeps ==
    ASSUME ReconcileInv, NEW a \in Analyst, RepointFails(a) PROVE ReconcileInv'
<1> DEFINE r == request[a]
           y == [pc |-> "record", row |-> r.row, dup |-> r.dup]
<1>1. r.pc \in Steps /\ request' = [request EXCEPT ![a] = y]
      /\ UNCHANGED vars /\ status' = status /\ failed' = failed \cup {r.dup} /\ late' = late
      /\ rewritten' = rewritten /\ onto' = onto
  BY DEF RepointFails, Steps
<1>2. r.row \in DOMAIN queue /\ r.dup = queue[r.row].mention /\ Merging(onto, r.dup)
  BY <1>1, RequestIs DEF Steps
<1> HIDE DEF r
<1>3. y.pc = "record" /\ y.row = r.row /\ y.dup = r.dup /\ RequestShape(y)
  BY DEF RequestShape, RequestPc, Steps
<1> HIDE DEF y
<1>4. Gone(graph', failed' \cup rewritten', y.dup)
  BY <1>1, <1>3 DEF Gone
<1>5. QED
  BY <1>1, <1>2, <1>3, <1>4, StatusStays, DeskOnly DEF Steps

LEMMA IdleShape == Idle.pc = "idle" /\ RequestShape(Idle)
  BY DEF Idle, RequestShape, RequestPc, Steps

LEMMA RecordMergeKeeps ==
    ASSUME ReconcileInv, NEW a \in Analyst, RecordMerge(a) PROVE ReconcileInv'
<1> DEFINE r == request[a]
<1>1. /\ r.pc = "record" /\ request' = [request EXCEPT ![a] = Idle]
      /\ UNCHANGED vars /\ failed' = failed /\ late' = late /\ rewritten' = rewritten /\ onto' = onto
      /\ status' = [q \in DOMAIN status \cup {r.row} |-> IF q = r.row THEN "merged" ELSE status[q]]
  BY DEF RecordMerge, Record, past
<1>2. /\ r.row \in DOMAIN queue /\ r.dup = queue[r.row].mention /\ Merging(onto, r.dup)
      /\ Gone(graph, failed \cup rewritten, r.dup) /\ DOMAIN status \subseteq DOMAIN queue
  BY <1>1, RequestIs DEF Steps, Decided
<1> HIDE DEF r
<1>3. /\ status' = [q \in DOMAIN status' |-> status'[q]] /\ DOMAIN status' \subseteq DOMAIN queue
      /\ \A q \in DOMAIN status' : q = r.row \/ (q \in DOMAIN status /\ status'[q] = status[q])
  BY <1>1, <1>2
<1>4. graph' = graph
  BY <1>1 DEF vars
<1>5. \A q \in DOMAIN status' : status'[q] = "merged" =>
        \/ q \in DOMAIN status /\ status[q] = "merged"
        \/ /\ Merging(onto', queue[q].mention)
           /\ Gone(graph', failed' \cup rewritten', queue[q].mention)
  BY <1>1, <1>2, <1>3, <1>4
<1>6. QED
  BY <1>1, <1>3, <1>5, IdleShape, DeskOnly DEF Steps

LEMMA CutOffKeeps ==
    ASSUME ReconcileInv, NEW a \in Analyst, CutOff(a) PROVE ReconcileInv'
<1>1. /\ request' = [request EXCEPT ![a] = Idle]
      /\ UNCHANGED vars /\ failed \subseteq failed' /\ late' = late /\ rewritten' = rewritten
      /\ onto' = onto /\ status' = status
  BY DEF CutOff
<1>2. QED
  BY <1>1, IdleShape, StatusStays, DeskOnly DEF Steps

LEMMA MarkKeeps ==
    ASSUME ReconcileInv, NEW row \in DOMAIN queue, Mark(row) PROVE ReconcileInv'
<1>1. PICK verdict \in {"promoted", "rejected", "pinned"} :
        status' = [r \in DOMAIN status \cup {row} |-> IF r = row THEN verdict ELSE status[r]]
  BY DEF Mark, Record
<1>2. Shapes /\ QueueInv /\ Requests /\ Decided /\ Moved
  BY DEF ReconcileInv
<1>3. /\ graph' = graph /\ queue' = queue /\ work' = work /\ votes' = votes /\ request' = request
      /\ uploaded' = uploaded
      /\ onto' = onto /\ failed' = failed /\ late' = late /\ rewritten' = rewritten
  BY DEF Mark, vars, history, past
<1>4. Shapes' /\ QueueInv'
  BY <1>2, <1>3, IngestsStay DEF Shapes
<1>5. Requests' /\ Moved'
  BY <1>2, <1>3 DEF Requests, Moved
<1>6. /\ status' = [q \in DOMAIN status' |-> status'[q]] /\ DOMAIN status' \subseteq DOMAIN queue
      /\ \A q \in DOMAIN status' : status'[q] = "merged" =>
            q \in DOMAIN status /\ status[q] = "merged"
  BY <1>1, <1>2 DEF Decided
<1>7. Decided'
  BY <1>2, <1>3, <1>6, DecidedKeeps
<1>8. QED
  BY <1>4, <1>5, <1>7 DEF ReconcileInv

\* A queued mention, or one whose request is over, has no CIK, so the node a step
\* adds for a filer is not it.
LEMMA GoneKeeps ==
    ASSUME QueueInv, failed' = failed, rewritten' = rewritten,
           \A n \in DOMAIN graph'.nodes : n \in DOMAIN graph.nodes \/ CikOf[n] # None
    PROVE  \A r \in DOMAIN queue : Gone(graph, failed \cup rewritten, queue[r].mention)
                => Gone(graph', failed' \cup rewritten', queue[r].mention)
  BY DEF Gone, QueueInv

LEMMA EnsureKeeps ==
    ASSUME ReconcileInv, NEW a \in Analyst, Ensure(a) PROVE ReconcileInv'
<1> DEFINE r == request[a]
           pc == IF r.cik = None THEN "discover" ELSE "stamp"
           y == [pc |-> pc, row |-> r.row, dup |-> r.dup, canon |-> r.canon, cik |-> r.cik]
<1>1. /\ r.pc = "ensure" /\ graph' = MergeNode(graph, r.canon)
      /\ request' = [request EXCEPT ![a].pc = pc]
      /\ queue' = queue /\ work' = work /\ votes' = votes /\ uploaded' = uploaded
      /\ status' = status /\ onto' = onto
      /\ failed' = failed /\ late' = late /\ rewritten' = rewritten
  BY DEF Ensure, history, past
<1>2. /\ Shapes /\ QueueInv /\ Requests /\ Moved /\ RequestShape(r)
      /\ r.canon \in Entity /\ CikOf[r.canon] # None
  BY <1>1, RequestIs DEF Steps
<1>3. /\ GraphShape(graph') /\ DOMAIN graph'.nodes = DOMAIN graph.nodes \cup {r.canon}
      /\ graph'.edges = graph.edges /\ graph'.mentions = graph.mentions
      /\ graph'.documents = graph.documents
  BY <1>1, <1>2, MergeNodeDoes DEF Shapes
<1>4. request' = [request EXCEPT ![a] = y]
  <2>1. r = [pc |-> r.pc, row |-> r.row, dup |-> r.dup, canon |-> r.canon, cik |-> r.cik]
    BY <1>1, <1>2 DEF RequestShape
  <2>2. PICK z : request' = [request EXCEPT ![a] = z] /\ z = [r EXCEPT !.pc = pc]
    BY <1>1
  <2>3. z = y
    BY <2>1, <2>2
  <2>4. QED
    BY <2>2, <2>3
<1>5. /\ y.pc \in {"discover", "stamp"} /\ y.row = r.row /\ y.dup = r.dup /\ y.canon = r.canon
      /\ y = [pc |-> y.pc, row |-> y.row, dup |-> y.dup, canon |-> y.canon, cik |-> y.cik]
      /\ y.cik = r.cik /\ r.cik \in Cik \cup {None}
  BY <1>1, <1>2 DEF RequestShape
<1> HIDE DEF y, r
<1>6. RequestShape(y)
  BY <1>2, <1>5 DEF RequestShape, RequestPc, Steps
<1>7. \A n \in DOMAIN queue : Gone(graph, failed \cup rewritten, queue[n].mention)
        => Gone(graph', failed' \cup rewritten', queue[n].mention)
  BY <1>1, <1>2, <1>3, GoneKeeps
<1>8. \A b \in Analyst : request[b].pc \in {"out", "in"} => MovedOff(graph', request[b], late')
  <2>1. ASSUME NEW b \in Analyst, request[b].pc \in {"out", "in"}
        PROVE  MovedOff(graph', request[b], late')
    <3>1. MovedOff(graph, request[b], late)
      BY <1>2, <2>1 DEF Moved
    <3>2. QED
      BY <1>1, <1>3, <3>1, MovedOffShrinks
  <2>2. QED
    BY <2>1
<1>9. QED
  BY <1>1, <1>3, <1>4, <1>5, <1>6, <1>7, <1>8, GraphStep DEF Steps, r

LEMMA StampKeeps ==
    ASSUME ReconcileInv, NEW a \in Analyst, Stamp(a) PROVE ReconcileInv'
<1> DEFINE r == request[a]
           y == [pc |-> "discover", row |-> r.row, dup |-> r.dup, canon |-> r.canon, cik |-> r.cik]
<1>1. /\ r.pc = "stamp" /\ graph' = StampCik(graph, r.canon, r.cik)
      /\ request' = [request EXCEPT ![a].pc = "discover"]
      /\ queue' = queue /\ work' = work /\ votes' = votes /\ uploaded' = uploaded
      /\ status' = status /\ onto' = onto
      /\ failed' = failed /\ late' = late /\ rewritten' = rewritten
  BY DEF Stamp, history, past
<1>2. /\ Shapes /\ QueueInv /\ Requests /\ Moved /\ RequestShape(r)
      /\ r.canon \in DOMAIN graph.nodes /\ r.canon \in Entity /\ CikOf[r.canon] # None
      /\ r.cik \in Cik \cup {None}
  BY <1>1, RequestIs DEF Steps, RequestShape
<1>3. /\ GraphShape(graph') /\ DOMAIN graph'.nodes = DOMAIN graph.nodes
      /\ graph'.edges = graph.edges /\ graph'.mentions = graph.mentions
      /\ graph'.documents = graph.documents
  BY <1>1, <1>2, StampCikDoes DEF Shapes
<1>4. request' = [request EXCEPT ![a] = y]
  <2>1. r = [pc |-> r.pc, row |-> r.row, dup |-> r.dup, canon |-> r.canon, cik |-> r.cik]
    BY <1>1, <1>2 DEF RequestShape
  <2>2. PICK z : request' = [request EXCEPT ![a] = z] /\ z = [r EXCEPT !.pc = "discover"]
    BY <1>1
  <2>3. z = y
    BY <2>1, <2>2
  <2>4. QED
    BY <2>2, <2>3
<1>5. /\ y.pc = "discover" /\ y.row = r.row /\ y.dup = r.dup /\ y.canon = r.canon
      /\ y = [pc |-> y.pc, row |-> y.row, dup |-> y.dup, canon |-> y.canon, cik |-> y.cik]
      /\ y.cik = r.cik
  OBVIOUS
<1> HIDE DEF y, r
<1>6. RequestShape(y)
  BY <1>2, <1>5 DEF RequestShape, RequestPc, Steps
<1>7. \A n \in DOMAIN queue : Gone(graph, failed \cup rewritten, queue[n].mention)
        => Gone(graph', failed' \cup rewritten', queue[n].mention)
  BY <1>1, <1>2, <1>3, GoneKeeps
<1>8. \A b \in Analyst : request[b].pc \in {"out", "in"} => MovedOff(graph', request[b], late')
  <2>1. ASSUME NEW b \in Analyst, request[b].pc \in {"out", "in"}
        PROVE  MovedOff(graph', request[b], late')
    <3>1. MovedOff(graph, request[b], late)
      BY <1>2, <2>1 DEF Moved
    <3>2. QED
      BY <1>1, <1>3, <3>1, MovedOffShrinks
  <2>2. QED
    BY <2>1
<1>9. QED
  BY <1>1, <1>2, <1>3, <1>4, <1>5, <1>6, <1>7, <1>8, GraphStep DEF Steps, r

\* A move of the outgoing edges of a type leaves one at the duplicate only if it
\* goes to the canonical node.
LEMMA OutIsDone ==
    ASSUME NEW g, NEW h, NEW r, NEW y, NEW rel, NEW lost, MovedOff(g, r, lost),
           DOMAIN g.edges \subseteq Fact, h.mentions = g.mentions, r.pc = "out", rel \in r.todo,
           y.pc = "in", y.dup = r.dup, y.canon = r.canon, y.todo = r.todo, y.rel = rel,
           r.canon # r.dup, r.canon \in DOMAIN g.nodes,
           \/ rel = MENTIONS /\ h.edges = g.edges
           \/ \A u : u \in DOMAIN h.edges <=>
                \/ /\ u \in DOMAIN g.edges
                   /\ ~(u[1] = r.dup /\ u[2] = rel /\ u[3] # r.canon /\ r.canon \in DOMAIN g.nodes)
                \/ \E e \in DOMAIN g.edges :
                      /\ e[1] = r.dup /\ e[2] = rel /\ e[3] # r.canon /\ r.canon \in DOMAIN g.nodes
                      /\ u = <<r.canon, rel, e[3]>>
    PROVE  MovedOff(h, y, lost)
<1>1. CASE r.dup \in lost
  BY <1>1 DEF MovedOff
<1>2. CASE r.dup \notin lost
  <2>1. \A t \in DOMAIN g.edges :
            /\ t[1] = r.dup /\ t[2] \notin r.todo => t[3] = r.canon
            /\ t[3] = r.dup /\ t[2] \notin r.todo => t[1] = r.canon
    BY <1>2 DEF MovedOff, OutDone
  <2>2. MENTIONS \notin y.todo => \A m \in h.mentions : m[2] # y.dup
    BY <1>2 DEF MovedOff
  <2>3. \A t \in DOMAIN g.edges : t[2] # MENTIONS
    BY ReconcileAssumption DEF Fact
  <2>4. ASSUME NEW u \in DOMAIN h.edges
        PROVE  /\ u[1] = r.dup /\ (u[2] \notin r.todo \/ u[2] = rel) => u[3] = r.canon
               /\ u[3] = r.dup /\ u[2] \notin r.todo => u[1] = r.canon
    <3>1. CASE rel = MENTIONS /\ h.edges = g.edges
      BY <2>1, <2>3, <3>1
    <3>2. CASE /\ u \in DOMAIN g.edges
               /\ ~(u[1] = r.dup /\ u[2] = rel /\ u[3] # r.canon /\ r.canon \in DOMAIN g.nodes)
      BY <2>1, <3>2
    <3>3. CASE \E e \in DOMAIN g.edges : u = <<r.canon, rel, e[3]>>
      <4>1. u[1] = r.canon /\ u[2] = rel
        BY <3>3
      <4>2. QED
        BY <4>1
    <3>4. QED
      BY <3>1, <3>2, <3>3
  <2>5. \A t \in DOMAIN h.edges :
            /\ t[1] = y.dup /\ OutDone(y, t[2]) => t[3] = y.canon
            /\ t[3] = y.dup /\ t[2] \notin y.todo => t[1] = y.canon
    BY <2>4 DEF OutDone
  <2>6. QED
    BY <2>2, <2>5 DEF MovedOff
<1>3. QED
  BY <1>1, <1>2

LEMMA MoveOutKeeps ==
    ASSUME ReconcileInv, NEW a \in Analyst, NEW rel \in Rel \cup {MENTIONS}, MoveOut(a, rel)
    PROVE  ReconcileInv'
<1> DEFINE r == request[a]
           y == [pc |-> "in", row |-> r.row, dup |-> r.dup, canon |-> r.canon, todo |-> r.todo,
                 rel |-> rel]
<1>1. /\ r.pc = "out" /\ rel \in r.todo /\ request' = [request EXCEPT ![a] = y]
      /\ graph' = IF rel = MENTIONS THEN graph ELSE RepointOut(graph, rel, r.dup, r.canon)
      /\ queue' = queue /\ work' = work /\ votes' = votes /\ uploaded' = uploaded
      /\ status' = status /\ onto' = onto
      /\ failed' = failed /\ late' = late /\ rewritten' = rewritten
  BY DEF MoveOut, history, past
<1>2. /\ Shapes /\ QueueInv /\ Requests /\ Moved /\ RequestShape(r) /\ MovedOff(graph, r, late)
      /\ r.canon \in DOMAIN graph.nodes /\ r.canon \in Entity /\ CikOf[r.canon] # None
      /\ r.canon # r.dup /\ CikOf[r.dup] = None /\ r.todo \subseteq Rel \cup {MENTIONS}
  BY <1>1, RequestIs DEF Steps, RequestShape
<1>3. GraphShape(graph) /\ DOMAIN graph.edges \subseteq Fact
  BY <1>2 DEF Shapes, GraphShape
<1>4. /\ y.pc = "in" /\ y.row = r.row /\ y.dup = r.dup /\ y.canon = r.canon /\ y.todo = r.todo
      /\ y.rel = rel
  OBVIOUS
<1> HIDE DEF y, r
<1>5. RequestShape(y)
  BY <1>1, <1>2, <1>4 DEF RequestShape, RequestPc, Steps
<1>6. /\ GraphShape(graph') /\ graph'.nodes = graph.nodes /\ graph'.mentions = graph.mentions
      /\ graph'.documents = graph.documents
      /\ \/ rel = MENTIONS /\ graph'.edges = graph.edges
         \/ \A u : u \in DOMAIN graph'.edges <=>
              \/ /\ u \in DOMAIN graph.edges
                 /\ ~(u[1] = r.dup /\ u[2] = rel /\ u[3] # r.canon /\ r.canon \in DOMAIN graph.nodes)
              \/ \E e \in DOMAIN graph.edges :
                    /\ e[1] = r.dup /\ e[2] = rel /\ e[3] # r.canon /\ r.canon \in DOMAIN graph.nodes
                    /\ u = <<r.canon, rel, e[3]>>
  <2>1. CASE rel = MENTIONS
    BY <1>1, <1>3, <2>1
  <2>2. CASE rel # MENTIONS
    <3>1. rel \in Rel /\ graph' = RepointOut(graph, rel, r.dup, r.canon)
      BY <1>1, <2>2
    <3>2. QED
      BY <1>2, <1>3, <3>1, RepointOutDoes
  <2>3. QED
    BY <2>1, <2>2
<1>7. MovedOff(graph', y, late')
  BY <1>1, <1>2, <1>3, <1>4, <1>6, OutIsDone
<1>8. \A n \in DOMAIN queue : Gone(graph, failed \cup rewritten, queue[n].mention)
        => Gone(graph', failed' \cup rewritten', queue[n].mention)
  BY <1>1, <1>6 DEF Gone
<1>9. \A u \in DOMAIN graph'.edges :
        u \in DOMAIN graph.edges \/ MovedFrom(graph, r.dup, r.canon, u)
  BY <1>6 DEF MovedFrom
<1>10. ASSUME NEW b \in Analyst, request[b].pc \in {"out", "in"}
       PROVE  MovedOff(graph', request[b], late')
  <2>1. MovedOff(graph, request[b], late)
    BY <1>2, <1>10 DEF Moved
  <2>2. request[b].dup # r.canon /\ request[b].canon # r.dup
    BY <1>2, <1>10, DupIsNot DEF Steps
  <2>3. graph'.mentions = graph.mentions /\ late' = late
    BY <1>1, <1>6
  <2>4. QED
    BY <1>9, <2>1, <2>2, <2>3, MovedOffStays
<1>11. QED
  BY <1>1, <1>2, <1>4, <1>5, <1>6, <1>7, <1>8, <1>10, GraphStep DEF Steps, r

\* A move of the incoming edges of a type, after the outgoing, leaves none at the
\* duplicate but those of the canonical node.
LEMMA InIsDone ==
    ASSUME NEW g, NEW h, NEW r, NEW y, NEW rel, NEW lost, MovedOff(g, r, lost),
           DOMAIN g.edges \subseteq Fact, r.pc = "in", r.rel = rel, rel \in r.todo, rel # MENTIONS,
           h.mentions = g.mentions,
           y.pc = "out", y.dup = r.dup, y.canon = r.canon, y.todo = r.todo \ {rel},
           r.canon # r.dup, r.canon \in DOMAIN g.nodes,
           \A u : u \in DOMAIN h.edges <=>
                \/ /\ u \in DOMAIN g.edges
                   /\ ~(u[3] = r.dup /\ u[2] = rel /\ u[1] # r.canon /\ r.canon \in DOMAIN g.nodes)
                \/ \E e \in DOMAIN g.edges :
                      /\ e[3] = r.dup /\ e[2] = rel /\ e[1] # r.canon /\ r.canon \in DOMAIN g.nodes
                      /\ u = <<e[1], rel, r.canon>>
    PROVE  MovedOff(h, y, lost)
<1>1. CASE r.dup \in lost
  BY <1>1 DEF MovedOff
<1>2. CASE r.dup \notin lost
  <2>1. \A t \in DOMAIN g.edges :
            /\ t[1] = r.dup /\ (t[2] \notin r.todo \/ t[2] = rel) => t[3] = r.canon
            /\ t[3] = r.dup /\ t[2] \notin r.todo => t[1] = r.canon
    BY <1>2 DEF MovedOff, OutDone
  <2>2. MENTIONS \notin y.todo => \A m \in h.mentions : m[2] # y.dup
    BY <1>2 DEF MovedOff
  <2>3. ASSUME NEW u \in DOMAIN h.edges
        PROVE  /\ u[1] = r.dup /\ (u[2] \notin r.todo \/ u[2] = rel) => u[3] = r.canon
               /\ u[3] = r.dup /\ (u[2] \notin r.todo \/ u[2] = rel) => u[1] = r.canon
    <3>1. CASE /\ u \in DOMAIN g.edges
               /\ ~(u[3] = r.dup /\ u[2] = rel /\ u[1] # r.canon /\ r.canon \in DOMAIN g.nodes)
      BY <2>1, <3>1
    <3>2. CASE \E e \in DOMAIN g.edges :
                  /\ e[3] = r.dup /\ e[2] = rel /\ e[1] # r.canon /\ u = <<e[1], rel, r.canon>>
      <4>1. u[3] = r.canon
        BY <3>2
      <4>2. QED
        BY <4>1
    <3>3. QED
      BY <3>1, <3>2
  <2>4. \A t \in DOMAIN h.edges :
            /\ t[1] = y.dup /\ OutDone(y, t[2]) => t[3] = y.canon
            /\ t[3] = y.dup /\ t[2] \notin y.todo => t[1] = y.canon
    BY <2>3 DEF OutDone
  <2>5. QED
    BY <2>2, <2>4 DEF MovedOff
<1>3. QED
  BY <1>1, <1>2

LEMMA MentionsAreDone ==
    ASSUME NEW g, NEW h, NEW r, NEW y, NEW lost, MovedOff(g, r, lost),
           DOMAIN g.edges \subseteq Fact, r.pc = "in", r.rel = MENTIONS,
           y.pc = "out", y.dup = r.dup, y.canon = r.canon, y.todo = r.todo \ {MENTIONS},
           h.edges = g.edges, \A m \in h.mentions : m[2] # r.dup
    PROVE  MovedOff(h, y, lost)
<1>1. CASE r.dup \in lost
  BY <1>1 DEF MovedOff
<1>2. CASE r.dup \notin lost
  <2>1. \A t \in DOMAIN g.edges :
            /\ t[1] = r.dup /\ t[2] \notin r.todo => t[3] = r.canon
            /\ t[3] = r.dup /\ t[2] \notin r.todo => t[1] = r.canon
            /\ t[2] # MENTIONS
    BY <1>2, ReconcileAssumption DEF MovedOff, OutDone, Fact
  <2>2. \A t \in DOMAIN h.edges :
            /\ t[1] = y.dup /\ OutDone(y, t[2]) => t[3] = y.canon
            /\ t[3] = y.dup /\ t[2] \notin y.todo => t[1] = y.canon
    BY <2>1 DEF OutDone
  <2>3. QED
    BY <2>2 DEF MovedOff
<1>3. QED
  BY <1>1, <1>2

LEMMA MoveInKeeps ==
    ASSUME ReconcileInv, NEW a \in Analyst, MoveIn(a) PROVE ReconcileInv'
<1> DEFINE r == request[a]
           rel == r.rel
           y == [pc |-> "out", row |-> r.row, dup |-> r.dup, canon |-> r.canon,
                 todo |-> r.todo \ {rel}]
<1>1. /\ r.pc = "in" /\ request' = [request EXCEPT ![a] = y]
      /\ graph' = IF rel = MENTIONS THEN RepointMentions(graph, r.dup, r.canon)
                  ELSE RepointIn(graph, rel, r.dup, r.canon)
      /\ queue' = queue /\ work' = work /\ votes' = votes /\ uploaded' = uploaded
      /\ status' = status /\ onto' = onto
      /\ failed' = failed /\ late' = late /\ rewritten' = rewritten
  BY DEF MoveIn, Moving, history, past
<1>2. /\ Shapes /\ QueueInv /\ Requests /\ Moved /\ RequestShape(r) /\ MovedOff(graph, r, late)
      /\ r.canon \in DOMAIN graph.nodes /\ r.canon \in Entity /\ CikOf[r.canon] # None
      /\ r.canon # r.dup /\ CikOf[r.dup] = None /\ r.todo \subseteq Rel \cup {MENTIONS}
      /\ rel \in r.todo
  BY <1>1, RequestIs DEF Steps, RequestShape
<1>3. GraphShape(graph) /\ DOMAIN graph.edges \subseteq Fact
  BY <1>2 DEF Shapes, GraphShape
<1>4. /\ y.pc = "out" /\ y.row = r.row /\ y.dup = r.dup /\ y.canon = r.canon
      /\ y.todo = r.todo \ {rel}
  OBVIOUS
<1>5. r.rel = rel
  OBVIOUS
<1> HIDE DEF y, r, rel
<1>6. RequestShape(y)
  BY <1>1, <1>2, <1>4 DEF RequestShape, RequestPc, Steps
<1>7. ASSUME NEW b \in Analyst, request[b].pc \in {"out", "in"}
      PROVE  MovedOff(graph, request[b], late) /\ request[b].dup # r.canon /\ request[b].canon # r.dup
  BY <1>2, <1>7, DupIsNot DEF Moved, Steps
<1>8. CASE rel = MENTIONS
  <2>1. /\ GraphShape(graph') /\ graph'.nodes = graph.nodes /\ graph'.edges = graph.edges
        /\ graph'.documents = graph.documents
        /\ graph'.mentions = {IF m[2] = r.dup THEN <<m[1], r.canon>> ELSE m : m \in graph.mentions}
    BY <1>1, <1>2, <1>3, <1>8, RepointMentionsDoes
  <2>2. \A m \in graph'.mentions :
          m[2] # r.dup /\ (m \in graph.mentions \/ m[2] = r.canon)
    BY <1>2, <2>1
  <2>3. MovedOff(graph', y, late')
    BY <1>1, <1>2, <1>3, <1>4, <1>5, <1>8, <2>1, <2>2, MentionsAreDone
  <2>4. \A b \in Analyst \ {a} : request[b].pc \in {"out", "in"} =>
          MovedOff(graph', request[b], late')
    <3>1. ASSUME NEW b \in Analyst, request[b].pc \in {"out", "in"}
          PROVE  MovedOff(graph', request[b], late')
      <4>1. MovedOff(graph, request[b], late) /\ request[b].dup # r.canon
        BY <1>7, <3>1
      <4>2. /\ \A u \in DOMAIN graph'.edges : u \in DOMAIN graph.edges
            /\ \A m \in graph'.mentions : m \in graph.mentions \/ m[2] # request[b].dup
        BY <2>1, <2>2, <4>1
      <4>3. QED
        BY <1>1, <4>1, <4>2, MovedOffShrinks
    <3>2. QED
      BY <3>1
  <2>5. \A n \in DOMAIN queue : Gone(graph, failed \cup rewritten, queue[n].mention)
          => Gone(graph', failed' \cup rewritten', queue[n].mention)
    BY <1>1, <2>1 DEF Gone
  <2>6. QED
    BY <1>1, <1>2, <1>4, <1>6, <2>1, <2>3, <2>4, <2>5, GraphStep DEF Steps, r
<1>9. CASE rel # MENTIONS
  <2>1. rel \in Rel /\ graph' = RepointIn(graph, rel, r.dup, r.canon)
    BY <1>1, <1>2, <1>9
  <2>2. /\ GraphShape(graph') /\ graph'.nodes = graph.nodes /\ graph'.mentions = graph.mentions
        /\ graph'.documents = graph.documents
        /\ \A u : u \in DOMAIN graph'.edges <=>
              \/ /\ u \in DOMAIN graph.edges
                 /\ ~(u[3] = r.dup /\ u[2] = rel /\ u[1] # r.canon /\ r.canon \in DOMAIN graph.nodes)
              \/ \E e \in DOMAIN graph.edges :
                    /\ e[3] = r.dup /\ e[2] = rel /\ e[1] # r.canon /\ r.canon \in DOMAIN graph.nodes
                    /\ u = <<e[1], rel, r.canon>>
    BY <1>2, <1>3, <2>1, RepointInDoes
  <2>3. MovedOff(graph', y, late')
    BY <1>1, <1>2, <1>3, <1>4, <1>5, <1>9, <2>2, InIsDone
  <2>4. \A u \in DOMAIN graph'.edges :
          u \in DOMAIN graph.edges \/ MovedFrom(graph, r.dup, r.canon, u)
    BY <2>2 DEF MovedFrom
  <2>5. \A b \in Analyst \ {a} : request[b].pc \in {"out", "in"} =>
          MovedOff(graph', request[b], late')
    <3>1. ASSUME NEW b \in Analyst, request[b].pc \in {"out", "in"}
          PROVE  MovedOff(graph', request[b], late')
      <4>1. MovedOff(graph, request[b], late) /\ request[b].dup # r.canon /\ request[b].canon # r.dup
        BY <1>7, <3>1
      <4>2. graph'.mentions = graph.mentions /\ late' = late
        BY <1>1, <2>2
      <4>3. QED
        BY <2>4, <4>1, <4>2, MovedOffStays
    <3>2. QED
      BY <3>1
  <2>6. \A n \in DOMAIN queue : Gone(graph, failed \cup rewritten, queue[n].mention)
          => Gone(graph', failed' \cup rewritten', queue[n].mention)
    BY <1>1, <2>2 DEF Gone
  <2>7. QED
    BY <1>1, <1>2, <1>4, <1>6, <2>2, <2>3, <2>5, <2>6, GraphStep DEF Steps, r
<1>10. QED
  BY <1>8, <1>9

LEMMA DeleteKeeps ==
    ASSUME ReconcileInv, NEW a \in Analyst, Delete(a) PROVE ReconcileInv'
<1> DEFINE r == request[a]
           y == [pc |-> "record", row |-> r.row, dup |-> r.dup]
<1>1. /\ r.pc = "out" /\ request' = [request EXCEPT ![a] = y]
      /\ graph' = DetachDelete(graph, r.dup)
      /\ queue' = queue /\ work' = work /\ votes' = votes /\ uploaded' = uploaded
      /\ status' = status /\ onto' = onto
      /\ failed' = failed \ {r.dup} /\ late' = late \ {r.dup} /\ rewritten' = rewritten \ {r.dup}
  BY DEF Delete, history
<1>2. /\ Shapes /\ QueueInv /\ Requests /\ Moved /\ CikOf[r.dup] = None
  BY <1>1, RequestIs DEF Steps
<1>3. GraphShape(graph)
  BY <1>2 DEF Shapes
<1>4. y.pc = "record" /\ y.row = r.row /\ y.dup = r.dup
  OBVIOUS
<1>5. RequestShape(y)
  BY <1>4 DEF RequestShape, RequestPc, Steps
<1> HIDE DEF y, r
<1>6. /\ GraphShape(graph') /\ DOMAIN graph'.nodes = DOMAIN graph.nodes \ {r.dup}
      /\ DOMAIN graph'.edges = {t \in DOMAIN graph.edges : r.dup \notin {t[1], t[3]}}
      /\ graph'.mentions = {m \in graph.mentions : m[2] # r.dup}
      /\ graph'.documents = graph.documents
  BY <1>1, <1>3, DetachDeleteDoes
<1>7. Gone(graph', failed' \cup rewritten', y.dup)
  BY <1>4, <1>6 DEF Gone
<1>8. \A n \in DOMAIN queue : Gone(graph, failed \cup rewritten, queue[n].mention)
        => Gone(graph', failed' \cup rewritten', queue[n].mention)
  BY <1>1, <1>6 DEF Gone
<1>9. ASSUME NEW b \in Analyst, request[b].pc \in {"out", "in"}
      PROVE  MovedOff(graph', request[b], late')
  <2>1. CASE request[b].dup = r.dup
    BY <1>6, <2>1, MovedOffFree
  <2>2. CASE request[b].dup # r.dup
    <3>1. MovedOff(graph, request[b], late)
      BY <1>2, <1>9 DEF Moved
    <3>2. request[b].dup \in late => request[b].dup \in late'
      BY <1>1, <2>2
    <3>3. QED
      BY <1>6, <3>1, <3>2, MovedOffShrinks
  <2>3. QED
    BY <2>1, <2>2
<1>10. \A n \in DOMAIN graph.nodes : CikOf[n] # None => n \in DOMAIN graph'.nodes
  BY <1>2, <1>6
<1>11. QED
  BY <1>1, <1>4, <1>5, <1>6, <1>7, <1>8, <1>9, <1>10, GraphStep DEF Steps, r

LEMMA IngestStepKeeps ==
    ASSUME ReconcileInv, IngestStep PROVE ReconcileInv'
<1>1. /\ Next /\ status' = status /\ request' = request /\ onto' = onto /\ failed' = failed
      /\ late' = late \cup {n \in Written :
                    \E a \in Analyst : request[a].pc \in {"out", "in"} /\ request[a].dup = n}
      /\ rewritten' = rewritten \cup {n \in Written : \E p \in onto : p[1] = n}
  BY DEF IngestStep, desk
<1>2. Shapes /\ QueueInv /\ Requests /\ Decided /\ Moved
  BY DEF ReconcileInv
<1>3. PICK w \in Worker : StepOf(w)
  BY <1>1, NextIsAStep
<1>4. Shapes' /\ QueueInv'
  BY <1>1, <1>2, <1>3, ShapesKept, QueueKept
<1>5. \A r \in DOMAIN queue : r \in DOMAIN queue' /\ queue'[r].mention = queue[r].mention
  BY <1>2, <1>3, MentionsFixed
<1>6. DOMAIN graph.nodes \subseteq DOMAIN graph'.nodes
  BY <1>1, <1>2, GraphGrows DEF Grows
<1>7. /\ \A n \in DOMAIN graph'.nodes : n \in DOMAIN graph.nodes \/ n \in Written
      /\ \A u \in DOMAIN graph'.edges : u \in DOMAIN graph.edges \/ {u[1], u[3]} \subseteq Written
      /\ \A m \in graph'.mentions : m \in graph.mentions \/ m[2] \in Written
  <2>1. \A n \in DOMAIN graph'.nodes : n \in DOMAIN graph.nodes \/ n \in Written
    BY DEF Written
  <2>2. ASSUME NEW u \in DOMAIN graph'.edges, u \notin DOMAIN graph.edges
        PROVE  {u[1], u[3]} \subseteq Written
    <3>1. {u[1], u[3]} \in {{t[1], t[3]} : t \in DOMAIN graph'.edges \ DOMAIN graph.edges}
      BY <2>2
    <3>2. QED
      BY <3>1 DEF Written
  <2>3. ASSUME NEW m \in graph'.mentions, m \notin graph.mentions PROVE m[2] \in Written
    <3>1. m[2] \in {n[2] : n \in graph'.mentions \ graph.mentions}
      BY <2>3
    <3>2. QED
      BY <3>1 DEF Written
  <2>4. QED
    BY <2>1, <2>2, <2>3
<1>8. \A n : Merging(onto, n) /\ Gone(graph, failed \cup rewritten, n)
        => Gone(graph', failed' \cup rewritten', n)
  BY <1>1, <1>7 DEF Gone, Merging
<1>9. Requests'
  <2>1. ASSUME NEW a \in Analyst
        PROVE  /\ RequestShape(request[a])
               /\ request[a].pc # "idle" =>
                    /\ request[a].row \in DOMAIN queue'
                    /\ request[a].dup = queue'[request[a].row].mention
                    /\ Merging(onto, request[a].dup)
               /\ request[a].pc \in Steps => <<request[a].dup, request[a].canon>> \in onto
               /\ request[a].pc = "record" => Gone(graph', failed' \cup rewritten', request[a].dup)
    BY <1>2, <1>5, <1>8 DEF Requests
  <2>2. request = [a \in Analyst |-> request[a]]
    BY <1>2 DEF Requests
  <2>3. QED
    BY <1>1, <2>1, <2>2 DEF Requests
<1>10. Decided'
  <2>1. \A r \in DOMAIN status : status[r] = "merged" =>
          /\ r \in DOMAIN queue /\ Merging(onto, queue[r].mention)
          /\ Gone(graph, failed \cup rewritten, queue[r].mention)
    BY <1>2 DEF Decided, MergedMeansGone, Gone
  <2>2. \A r \in DOMAIN status : status[r] = "merged" =>
          /\ r \in DOMAIN queue' /\ Merging(onto, queue'[r].mention)
          /\ Gone(graph', failed' \cup rewritten', queue'[r].mention)
    BY <1>5, <1>8, <2>1
  <2>3. status = [r \in DOMAIN status |-> status[r]] /\ DOMAIN status \subseteq DOMAIN queue'
    BY <1>2, <1>5 DEF Decided
  <2>4. MergedMeansGone'
    BY <1>1, <2>2 DEF MergedMeansGone, Gone
  <2>5. QED
    BY <1>1, <2>2, <2>3, <2>4 DEF Decided
<1>11. Moved'
  <2>1. ASSUME NEW a \in Analyst, request[a].pc \in {"out", "in"}
        PROVE  MovedOff(graph', request[a], late')
    <3>1. MovedOff(graph, request[a], late)
      BY <1>2, <2>1 DEF Moved
    <3>2. request[a].dup \in Written \/ request[a].dup \in late => request[a].dup \in late'
      BY <1>1, <2>1
    <3>3. /\ \A u \in DOMAIN graph'.edges : u \in DOMAIN graph.edges
                \/ request[a].dup \notin {u[1], u[3]} \/ request[a].dup \in late'
          /\ \A m \in graph'.mentions : m \in graph.mentions
                \/ m[2] # request[a].dup \/ request[a].dup \in late'
      BY <1>7, <3>2
    <3>4. QED
      BY <3>1, <3>2, <3>3, MovedOffShrinks
  <2>2. \A a \in Analyst : request[a].pc \in Steps \ {"ensure"} =>
          request[a].canon \in DOMAIN graph'.nodes
    BY <1>2, <1>6 DEF Moved
  <2>3. QED
    BY <1>1, <2>1, <2>2 DEF Moved
<1>12. QED
  BY <1>4, <1>9, <1>10, <1>11 DEF ReconcileInv

LEMMA ReconcileStarts ==
    ASSUME ReconcileInit PROVE ReconcileInv
<1>1. /\ Init /\ status = [r \in {} |-> r] /\ request = [a \in Analyst |-> Idle]
  BY DEF ReconcileInit
<1>2. Shapes /\ QueueInv
  BY <1>1, IngestStarts DEF IngestInv
<1>3. Requests
  BY <1>1, IdleShape DEF Requests, Steps
<1>4. Decided
  BY <1>1 DEF Decided, MergedMeansGone
<1>5. Moved
  BY <1>1, IdleShape DEF Moved, Steps
<1>6. QED
  BY <1>2, <1>3, <1>4, <1>5 DEF ReconcileInv

LEMMA ReconcileKeeps ==
    ASSUME ReconcileInv, [ReconcileNext]_allvars PROVE ReconcileInv'
<1>1. CASE UNCHANGED allvars
  <2>1. UNCHANGED <<vars, status, request, onto, failed, late, rewritten>>
    BY <1>1 DEF allvars, desk, past
  <2>2. QED
    <3>1. Shapes' /\ QueueInv'
      BY <2>1 DEF vars, ReconcileInv, Shapes, QueueInv, MentionsQueued, At
    <3>2. Requests' /\ Moved'
      BY <2>1 DEF vars, ReconcileInv, Requests, Moved
    <3>3. Decided'
      BY <2>1 DEF vars, ReconcileInv, Decided, MergedMeansGone
    <3>4. QED
      BY <3>1, <3>2, <3>3 DEF ReconcileInv
<1>2. CASE IngestStep
  BY <1>2, IngestStepKeeps
<1>3. CASE \E row \in DOMAIN queue : Mark(row)
  BY <1>3, MarkKeeps
<1>4. ASSUME NEW a \in Analyst, MergeStep(a) PROVE ReconcileInv'
  <2>1. CASE \E row \in DOMAIN queue : \E canon \in Candidates[queue[row].mention] :
                BeginMerge(a, row, canon)
    BY <2>1, BeginMergeKeeps
  <2>2. CASE Ensure(a) \/ Stamp(a) \/ Discover(a)
    BY <2>2, EnsureKeeps, StampKeeps, DiscoverKeeps
  <2>3. CASE \E rel \in Rel \cup {MENTIONS} : MoveOut(a, rel)
    BY <2>3, MoveOutKeeps
  <2>4. CASE MoveIn(a) \/ Delete(a)
    BY <2>4, MoveInKeeps, DeleteKeeps
  <2>5. CASE RepointFails(a) \/ RecordMerge(a) \/ CutOff(a)
    BY <2>5, RepointFailsKeeps, RecordMergeKeeps, CutOffKeeps
  <2>6. QED
    BY <1>4, <2>1, <2>2, <2>3, <2>4, <2>5 DEF MergeStep
<1>5. QED
  BY <1>1, <1>2, <1>3, <1>4 DEF ReconcileNext

\* The inductive invariant: an edge left at a duplicate that a request is moving
\* was seen by no move only if it goes to the canonical node or an ingest came
\* late, and what a request has deleted is gone until an ingest writes it again.
THEOREM ReconcileInvariant == ReconcileSpec => []ReconcileInv
<1>1. QED
  BY ReconcileStarts, ReconcileKeeps, PTL DEF ReconcileSpec

\* A queue row marked merged means the graph has no such node, unless the moving
\* of its edges failed or an ingest wrote it again (resolution/graph_reconcile.py
\* and the row in SQLite agree), with any number of analysts and ingests.
THEOREM MergedMeansGoneHolds == ReconcileSpec => []MergedMeansGone
<1>1. ReconcileInv => MergedMeansGone
  BY DEF ReconcileInv, Decided
<1>2. QED
  BY <1>1, ReconcileInvariant, PTL

-------------------------------------------------------------------------------
(* No step loses a fact or a mention *)

LEMMA UnderHolds ==
    /\ \A n : n \in Under(n)
    /\ \A n, c : <<n, c>> \in onto => c \in Under(n)
<1>1. ASSUME NEW n PROVE n \in Under(n)
  BY DEF Under
<1>2. ASSUME NEW n, NEW c, <<n, c>> \in onto PROVE c \in Under(n)
  <2>1. <<n, c>> \in {q \in onto : q[1] = n} /\ <<n, c>>[2] = c
    BY <1>2
  <2>2. QED
    BY <2>1 DEF Under
<1>3. QED
  BY <1>1, <1>2

\* A step after which every edge and mention is there, or is what a move from
\* dup to canon makes of it.
LEMMA NothingLostBy ==
    ASSUME NEW dup, NEW canon, <<dup, canon>> \in onto \/ canon = dup,
           \A t \in DOMAIN graph.edges :
              \/ t \in DOMAIN graph'.edges
              \/ t[1] = dup /\ <<canon, t[2], t[3]>> \in DOMAIN graph'.edges
              \/ t[3] = dup /\ <<t[1], t[2], canon>> \in DOMAIN graph'.edges
              \/ Under(t[1]) \cap Under(t[3]) # {} \/ {t[1], t[3]} \cap late # {},
           \A m \in graph.mentions :
              m \in graph'.mentions \/ (m[2] = dup /\ <<m[1], canon>> \in graph'.mentions)
              \/ m[2] \in late,
           GraphShape(graph)
    PROVE  /\ \A t \in DOMAIN graph.edges :
                 /\ Under(t[1]) \cap Under(t[3]) = {}
                 /\ {t[1], t[3]} \cap late = {}
                 => \E u \in DOMAIN graph'.edges :
                       u[1] \in Under(t[1]) /\ u[2] = t[2] /\ u[3] \in Under(t[3])
           /\ \A m \in graph.mentions :
                 m[2] \notin late => \E n \in Under(m[2]) : <<m[1], n>> \in graph'.mentions
<1>1. canon \in Under(dup) /\ \A n : n \in Under(n)
  BY UnderHolds
<1>2. ASSUME NEW t \in DOMAIN graph.edges,
             Under(t[1]) \cap Under(t[3]) = {}, {t[1], t[3]} \cap late = {}
      PROVE  \E u \in DOMAIN graph'.edges :
                u[1] \in Under(t[1]) /\ u[2] = t[2] /\ u[3] \in Under(t[3])
  <2>1. CASE t \in DOMAIN graph'.edges
    BY <1>1, <2>1
  <2>2. CASE t[1] = dup /\ <<canon, t[2], t[3]>> \in DOMAIN graph'.edges
    <3>1. PICK u \in DOMAIN graph'.edges : u = <<canon, t[2], t[3]>>
      BY <2>2
    <3>2. u[1] = canon /\ u[2] = t[2] /\ u[3] = t[3]
      BY <3>1
    <3>3. QED
      BY <1>1, <2>2, <3>2
  <2>3. CASE t[3] = dup /\ <<t[1], t[2], canon>> \in DOMAIN graph'.edges
    <3>1. PICK u \in DOMAIN graph'.edges : u = <<t[1], t[2], canon>>
      BY <2>3
    <3>2. u[1] = t[1] /\ u[2] = t[2] /\ u[3] = canon
      BY <3>1
    <3>3. QED
      BY <1>1, <2>3, <3>2
  <2>4. QED
    BY <1>2, <2>1, <2>2, <2>3
<1>3. ASSUME NEW m \in graph.mentions, m[2] \notin late
      PROVE  \E n \in Under(m[2]) : <<m[1], n>> \in graph'.mentions
  <2>1. m = <<m[1], m[2]>>
    BY DEF GraphShape
  <2>2. QED
    BY <1>1, <1>3, <2>1
<1>4. QED
  BY <1>2, <1>3

LEMMA MoveOutLosesNothing ==
    ASSUME ReconcileInv, NEW a \in Analyst, NEW rel \in Rel \cup {MENTIONS}, MoveOut(a, rel)
    PROVE  /\ <<request[a].dup, request[a].canon>> \in onto /\ graph'.mentions = graph.mentions
           /\ \A t \in DOMAIN graph.edges :
                 \/ t \in DOMAIN graph'.edges
                 \/ /\ t[1] = request[a].dup
                    /\ <<request[a].canon, t[2], t[3]>> \in DOMAIN graph'.edges
<1> DEFINE r == request[a]
<1>1. /\ r.pc = "out"
      /\ graph' = IF rel = MENTIONS THEN graph ELSE RepointOut(graph, rel, r.dup, r.canon)
  BY DEF MoveOut
<1>2. <<r.dup, r.canon>> \in onto /\ r.canon \in Entity /\ GraphShape(graph)
  BY <1>1, RequestIs DEF Steps, Shapes
<1> HIDE DEF r
<1>3. CASE rel = MENTIONS
  BY <1>1, <1>2, <1>3 DEF r
<1>4. CASE rel # MENTIONS
  <2>1. rel \in Rel /\ graph' = RepointOut(graph, rel, r.dup, r.canon)
    BY <1>1, <1>4
  <2>2. /\ graph'.mentions = graph.mentions
        /\ \A u : u \in DOMAIN graph'.edges <=>
              \/ /\ u \in DOMAIN graph.edges
                 /\ ~(u[1] = r.dup /\ u[2] = rel /\ u[3] # r.canon /\ r.canon \in DOMAIN graph.nodes)
              \/ \E e \in DOMAIN graph.edges :
                    /\ e[1] = r.dup /\ e[2] = rel /\ e[3] # r.canon /\ r.canon \in DOMAIN graph.nodes
                    /\ u = <<r.canon, rel, e[3]>>
    BY <1>2, <2>1, RepointOutDoes
  <2>3. \A t \in DOMAIN graph.edges :
          t \in DOMAIN graph'.edges \/ (t[1] = r.dup /\ <<r.canon, t[2], t[3]>> \in DOMAIN graph'.edges)
    BY <2>2
  <2>4. QED
    BY <1>2, <2>2, <2>3 DEF r
<1>5. QED
  BY <1>3, <1>4

LEMMA MoveInLosesNothing ==
    ASSUME ReconcileInv, NEW a \in Analyst, MoveIn(a)
    PROVE  /\ <<request[a].dup, request[a].canon>> \in onto
           /\ \A t \in DOMAIN graph.edges :
                 \/ t \in DOMAIN graph'.edges
                 \/ /\ t[3] = request[a].dup
                    /\ <<t[1], t[2], request[a].canon>> \in DOMAIN graph'.edges
           /\ \A m \in graph.mentions :
                 \/ m \in graph'.mentions
                 \/ m[2] = request[a].dup /\ <<m[1], request[a].canon>> \in graph'.mentions
<1> DEFINE r == request[a]
           rel == r.rel
<1>1. /\ r.pc = "in"
      /\ graph' = IF rel = MENTIONS THEN RepointMentions(graph, r.dup, r.canon)
                  ELSE RepointIn(graph, rel, r.dup, r.canon)
  BY DEF MoveIn
<1>2. /\ <<r.dup, r.canon>> \in onto /\ r.canon \in Entity /\ r.canon \in DOMAIN graph.nodes
      /\ GraphShape(graph) /\ rel \in Rel \cup {MENTIONS}
  BY <1>1, RequestIs DEF Steps, Shapes, RequestShape
<1> HIDE DEF r, rel
<1>3. CASE rel = MENTIONS
  <2>1. /\ graph'.edges = graph.edges
        /\ graph'.mentions = {IF m[2] = r.dup THEN <<m[1], r.canon>> ELSE m : m \in graph.mentions}
    BY <1>1, <1>2, <1>3, RepointMentionsDoes
  <2>2. \A m \in graph.mentions :
          m \in graph'.mentions \/ (m[2] = r.dup /\ <<m[1], r.canon>> \in graph'.mentions)
    BY <2>1
  <2>3. QED
    BY <1>2, <2>1, <2>2 DEF r
<1>4. CASE rel # MENTIONS
  <2>1. rel \in Rel /\ graph' = RepointIn(graph, rel, r.dup, r.canon)
    BY <1>1, <1>2, <1>4
  <2>2. /\ graph'.mentions = graph.mentions
        /\ \A u : u \in DOMAIN graph'.edges <=>
              \/ /\ u \in DOMAIN graph.edges
                 /\ ~(u[3] = r.dup /\ u[2] = rel /\ u[1] # r.canon /\ r.canon \in DOMAIN graph.nodes)
              \/ \E e \in DOMAIN graph.edges :
                    /\ e[3] = r.dup /\ e[2] = rel /\ e[1] # r.canon /\ r.canon \in DOMAIN graph.nodes
                    /\ u = <<e[1], rel, r.canon>>
    BY <1>2, <2>1, RepointInDoes
  <2>3. \A t \in DOMAIN graph.edges :
          t \in DOMAIN graph'.edges \/ (t[3] = r.dup /\ <<t[1], t[2], r.canon>> \in DOMAIN graph'.edges)
    BY <2>2
  <2>4. QED
    BY <1>2, <2>2, <2>3 DEF r
<1>5. QED
  BY <1>3, <1>4

\* When its turn comes to be deleted, all that is left at a duplicate is late or
\* between it and the canonical node.
LEMMA DeleteLosesNothing ==
    ASSUME ReconcileInv, NEW a \in Analyst, Delete(a)
    PROVE  /\ \A t \in DOMAIN graph.edges :
                 \/ t \in DOMAIN graph'.edges
                 \/ Under(t[1]) \cap Under(t[3]) # {} \/ {t[1], t[3]} \cap late # {}
           /\ \A m \in graph.mentions : m \in graph'.mentions \/ m[2] \in late
<1> DEFINE r == request[a]
<1>1. r.pc = "out" /\ r.todo = {} /\ graph' = DetachDelete(graph, r.dup)
  BY DEF Delete
<1>2. <<r.dup, r.canon>> \in onto /\ GraphShape(graph) /\ MovedOff(graph, r, late)
  BY <1>1, RequestIs DEF Steps, Shapes
<1> HIDE DEF r
<1>3. /\ DOMAIN graph'.edges = {t \in DOMAIN graph.edges : r.dup \notin {t[1], t[3]}}
      /\ graph'.mentions = {m \in graph.mentions : m[2] # r.dup}
  BY <1>1, <1>2, DetachDeleteDoes
<1>4. r.dup \in late
      \/ /\ \A t \in DOMAIN graph.edges :
               (t[1] = r.dup => t[3] = r.canon) /\ (t[3] = r.dup => t[1] = r.canon)
         /\ \A m \in graph.mentions : m[2] # r.dup
  BY <1>1, <1>2 DEF MovedOff, OutDone
<1>5. r.canon \in Under(r.dup) /\ r.canon \in Under(r.canon)
  BY <1>2, UnderHolds
<1>6. ASSUME NEW t \in DOMAIN graph.edges, t \notin DOMAIN graph'.edges, {t[1], t[3]} \cap late = {}
      PROVE  Under(t[1]) \cap Under(t[3]) # {}
  <2>1. r.dup \in {t[1], t[3]}
    BY <1>3, <1>6
  <2>2. (t[1] = r.dup /\ t[3] = r.canon) \/ (t[3] = r.dup /\ t[1] = r.canon)
    BY <1>4, <1>6, <2>1
  <2>3. QED
    BY <1>5, <2>2
<1>7. \A m \in graph.mentions : m \in graph'.mentions \/ m[2] \in late
  BY <1>3, <1>4
<1>8. QED
  BY <1>6, <1>7

LEMMA NothingIsLost ==
    ASSUME ReconcileInv, [ReconcileNext]_allvars
    PROVE  /\ \A t \in DOMAIN graph.edges :
                 /\ Under(t[1]) \cap Under(t[3]) = {}
                 /\ {t[1], t[3]} \cap late = {}
                 => \E u \in DOMAIN graph'.edges :
                       u[1] \in Under(t[1]) /\ u[2] = t[2] /\ u[3] \in Under(t[3])
           /\ \A m \in graph.mentions :
                 m[2] \notin late => \E n \in Under(m[2]) : <<m[1], n>> \in graph'.mentions
<1> DEFINE Kept == /\ DOMAIN graph.edges \subseteq DOMAIN graph'.edges
                   /\ graph.mentions \subseteq graph'.mentions
<1>1. Shapes /\ GraphShape(graph)
  BY DEF ReconcileInv, Shapes
<1>2. CASE Kept
  BY <1>1, <1>2, NothingLostBy
<1>3. CASE UNCHANGED vars \/ UNCHANGED allvars
  BY <1>2, <1>3 DEF vars, allvars
<1>4. CASE IngestStep
  <2>1. [Next]_vars
    BY <1>4 DEF IngestStep
  <2>2. QED
    BY <1>1, <1>2, <2>1, GraphGrows DEF Grows
<1>5. CASE \E row \in DOMAIN queue : Mark(row)
  BY <1>3, <1>5 DEF Mark
<1>6. ASSUME NEW a \in Analyst, MergeStep(a)
      PROVE  Kept \/ MoveIn(a) \/ Delete(a) \/ \E rel \in Rel \cup {MENTIONS} : MoveOut(a, rel)
  <2>1. CASE \E row \in DOMAIN queue : \E canon \in Candidates[queue[row].mention] :
                BeginMerge(a, row, canon)
    BY <2>1 DEF BeginMerge, vars
  <2>2. CASE Ensure(a)
    <3>1. request[a].pc = "ensure" /\ graph' = MergeNode(graph, request[a].canon)
      BY <2>2 DEF Ensure
    <3>2. request[a].canon \in Entity
      BY <3>1, RequestIs DEF Steps
    <3>3. QED
      BY <1>1, <3>1, <3>2, MergeNodeDoes
  <2>3. CASE Stamp(a)
    <3>1. request[a].pc = "stamp" /\ graph' = StampCik(graph, request[a].canon, request[a].cik)
      BY <2>3 DEF Stamp
    <3>2. request[a].cik \in Cik \cup {None}
      BY <3>1, RequestIs DEF Steps, RequestShape
    <3>3. QED
      BY <1>1, <3>1, <3>2, StampCikDoes
  <2>4. CASE Discover(a) \/ RepointFails(a) \/ RecordMerge(a) \/ CutOff(a)
    BY <2>4 DEF Discover, RepointFails, RecordMerge, CutOff, vars
  <2>5. QED
    BY <1>6, <2>1, <2>2, <2>3, <2>4 DEF MergeStep
<1>7. ASSUME NEW a \in Analyst, NEW rel \in Rel \cup {MENTIONS}, MoveOut(a, rel)
      PROVE  \E dup, canon :
                /\ <<dup, canon>> \in onto /\ graph'.mentions = graph.mentions
                /\ \A t \in DOMAIN graph.edges :
                      \/ t \in DOMAIN graph'.edges
                      \/ t[1] = dup /\ <<canon, t[2], t[3]>> \in DOMAIN graph'.edges
  BY <1>7, MoveOutLosesNothing
<1>8. ASSUME NEW a \in Analyst, MoveIn(a)
      PROVE  \E dup, canon :
                /\ <<dup, canon>> \in onto
                /\ \A t \in DOMAIN graph.edges :
                      \/ t \in DOMAIN graph'.edges
                      \/ t[3] = dup /\ <<t[1], t[2], canon>> \in DOMAIN graph'.edges
                /\ \A m \in graph.mentions :
                      m \in graph'.mentions \/ (m[2] = dup /\ <<m[1], canon>> \in graph'.mentions)
  BY <1>8, MoveInLosesNothing
<1> HIDE DEF Kept
<1>9. CASE \E a \in Analyst : \E rel \in Rel \cup {MENTIONS} : MoveOut(a, rel)
  <2>1. PICK dup, canon :
          /\ <<dup, canon>> \in onto /\ graph'.mentions = graph.mentions
          /\ \A t \in DOMAIN graph.edges :
                \/ t \in DOMAIN graph'.edges
                \/ t[1] = dup /\ <<canon, t[2], t[3]>> \in DOMAIN graph'.edges
    BY <1>7, <1>9
  <2>2. QED
    BY <1>1, <2>1, NothingLostBy
<1>10. CASE \E a \in Analyst : MoveIn(a)
  <2>1. PICK dup, canon :
          /\ <<dup, canon>> \in onto
          /\ \A t \in DOMAIN graph.edges :
                \/ t \in DOMAIN graph'.edges
                \/ t[3] = dup /\ <<t[1], t[2], canon>> \in DOMAIN graph'.edges
          /\ \A m \in graph.mentions :
                m \in graph'.mentions \/ (m[2] = dup /\ <<m[1], canon>> \in graph'.mentions)
    BY <1>8, <1>10
  <2>2. QED
    BY <1>1, <2>1, NothingLostBy
<1>11. CASE \E a \in Analyst : Delete(a)
  BY <1>1, <1>11, DeleteLosesNothing, NothingLostBy
<1>12. QED
  BY <1>2, <1>3, <1>4, <1>5, <1>6, <1>9, <1>10, <1>11 DEF ReconcileNext

\* Through merges that interleave, fail or are cut off, while ingests write the
\* same nodes, each fact and mention stands under the duplicate or a node it was
\* merged onto (repoint_entity), but for what NothingLostInMerge excepts.
THEOREM NothingLostInMergeHolds == ReconcileSpec => NothingLostInMerge
<1>1. ReconcileInv /\ [ReconcileNext]_allvars =>
        [/\ \A t \in DOMAIN graph.edges :
               /\ Under(t[1]) \cap Under(t[3]) = {}
               /\ {t[1], t[3]} \cap late = {}
               => \E u \in DOMAIN graph'.edges :
                     u[1] \in Under(t[1]) /\ u[2] = t[2] /\ u[3] \in Under(t[3])
         /\ \A m \in graph.mentions :
               m[2] \notin late => \E n \in Under(m[2]) : <<m[1], n>> \in graph'.mentions]_allvars
  BY NothingIsLost
<1>2. QED
  BY <1>1, ReconcileInvariant, PTL DEF ReconcileSpec, NothingLostInMerge
===============================================================================
