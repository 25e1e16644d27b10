-------------------------- MODULE QueryPipelineProofs --------------------------
(***************************************************************************)
(* Theorems about QueryPipeline, for any firms, graph, filings, questions  *)
(* and number of deletes, merges and commits meanwhile: what an answer     *)
(* cites or shows is its firm's, no filing that was the firm's all along   *)
(* is denied, and one that is near leaves no answer bare.                  *)
(***************************************************************************)
EXTENDS QueryPipeline, FiniteSetTheorems, TLAPS

Pc == {"resolve", "holdings", "vocab", "tool", "generate", "gather", "fallback", "text",
       "filings", "rescue", "structural", "synth", "done"}
Results == [source : {"none", "graph", "text_vector"}, ok : BOOLEAN, rows : BOOLEAN,
            chunks : SUBSET Chunk]

\* The fields of q, and the types that the paths of the handler depend on.
QuestionType ==
    /\ q = [req |-> q.req, pc |-> q.pc, firm |-> q.firm, companies |-> q.companies,
            tool |-> q.tool, fund |-> q.fund, analytics |-> q.analytics, rows |-> q.rows,
            cres |-> q.cres, tries |-> q.tries, visible |-> q.visible]
    /\ q.pc \in Pc /\ q.cres \in Results /\ q.visible \subseteq Chunk

WorldType ==
    /\ "mentions" \in DOMAIN graph
    /\ start \subseteq chunks /\ chunks \subseteq Chunk

\* What is held and mentioned is among what was at some time; what was all
\* along is held and mentioned.
Remembered ==
    /\ Held(graph) \subseteq ever.held /\ About(graph) \subseteq ever.about
    /\ stayed.held \subseteq Held(graph) /\ stayed.about \subseteq About(graph)

\* What the answer may draw on: companies the firm held, and text that may be
\* seen and is about them or stamped.
Known(x) == x \in Company /\ <<q.firm, x>> \in ever.held
Permitted(c) ==
    /\ Entitled(c)
    /\ Stamp[c] = q.firm \/ \E x \in Company : Known(x) /\ <<c, x>> \in ever.about

Scoped ==
    q.firm # None =>
        /\ \A x \in q.companies : Known(x)
        /\ \A c \in q.visible \cup q.cres.chunks : Permitted(c)
        /\ UNION q.rows = {} \/ \E x \in UNION q.rows : Known(x)

\* Nothing is found before there is a scope.
Fresh ==
    /\ q.pc \in {"resolve", "holdings"} =>
        q.companies = {} /\ q.visible = {} /\ q.cres = NoResult /\ q.rows = {}
    /\ q.pc = "resolve" => q.firm = None
    /\ q.pc \in {"filings", "rescue", "structural"} => q.firm # None

\* A filing that a bare answer would have to cite.
Wanted == {c \in Filed \cap TopK : Entitled(c)}

\* Once the holdings are read, the scope has what is held all along; a search
\* that went through has found those wanted; and only a firm without any comes
\* to the structural answer or to a synthesis with nothing at hand.
Covers == q.firm # None /\ q.pc \notin {"resolve", "holdings"} /\ "holdings" \notin failed =>
    \A x \in Company : <<q.firm, x>> \in stayed.held => x \in q.companies
Searched == q.firm # None /\ failed = {} /\ q.cres.source = "text_vector" =>
    Wanted \subseteq q.cres.chunks
Denied == q.pc = "structural" /\ "holdings" \notin failed => Filed = {}
Bare ==
    /\ q.pc = "synth" /\ q.firm # None /\ failed = {}
    /\ q.rows = {} /\ q.visible = {} /\ q.cres.chunks = {} /\ ~q.cres.rows
    => Wanted = {}

Answered == answer # None => q.pc = "done"

PathInv ==
    /\ QuestionType /\ WorldType /\ Remembered
    /\ Scoped /\ Fresh /\ Covers /\ Searched /\ Denied /\ Bare /\ Answered

Promises == AnswerIsTheFirms /\ FilingsNeverDenied /\ FilingsAreCited
QueryInv == PathInv /\ Promises

-------------------------------------------------------------------------------
(* The world *)

\* With more chunks, one that was there before is nearest less often.
LEMMA TopKShrinks ==
    ASSUME chunks \subseteq chunks', chunks' \subseteq Chunk
    PROVE  TopK' \cap chunks \subseteq TopK
<1> SUFFICES ASSUME NEW c \in chunks, Cardinality(Nearer(c)') < K
             PROVE  Cardinality(Nearer(c)) < K
  BY DEF TopK
<1>1. Nearer(c) \subseteq Nearer(c)' /\ Nearer(c)' \subseteq Chunk
  BY DEF Nearer
<1>2. IsFiniteSet(Nearer(c)')
  BY <1>1, QueryAssumption, FS_Subset
<1>3. /\ Cardinality(Nearer(c)) \in Nat /\ Cardinality(Nearer(c)') \in Nat
      /\ Cardinality(Nearer(c)) <= Cardinality(Nearer(c)')
  BY <1>1, <1>2, FS_Subset, FS_CardinalityType
<1>4. K \in Nat
  BY QueryAssumption
<1>5. QED
  BY <1>3, <1>4

LEMMA InitWorld == Init => WorldType /\ Remembered
<1> SUFFICES ASSUME Init PROVE WorldType /\ Remembered
  OBVIOUS
<1>1. PICK filed \in SUBSET Chunk :
        graph = [FirstGraph EXCEPT !.mentions = [c \in filed |-> Mentions[c]]] /\ start = filed
  BY DEF Init
<1>2. DOMAIN graph.mentions = filed /\ "mentions" \in DOMAIN graph
  BY <1>1, QueryAssumption
<1>3. ever = [held |-> Held(graph), about |-> About(graph)] /\ stayed = ever
  BY DEF Init
<1>4. QED
  BY <1>1, <1>2, <1>3 DEF WorldType, Remembered, chunks

\* What happens meanwhile only adds chunks and what was ever held, and takes
\* from what is held all along.
Drifts ==
    /\ start' = start /\ q' = q /\ failed' = failed
    /\ answer = None /\ answer' = None
    /\ chunks \subseteq chunks'
    /\ ever.held \subseteq ever'.held /\ ever.about \subseteq ever'.about
    /\ stayed'.held \subseteq stayed.held /\ stayed'.about \subseteq stayed.about

\* Whatever the graph becomes, as long as it keeps its chunks.
Keeps(g) ==
    /\ "mentions" \in DOMAIN g
    /\ chunks \subseteq DOMAIN g.mentions /\ DOMAIN g.mentions \subseteq Chunk

LEMMA BecomesDrifts ==
    ASSUME WorldType, Remembered, answer = None, NEW g, Keeps(g), Becomes(g)
    PROVE  WorldType' /\ Remembered' /\ Drifts
<1>1. graph' = g /\ start' = start /\ q' = q /\ failed' = failed /\ answer' = None
  BY DEF Becomes
<1>2. chunks' = DOMAIN g.mentions
  BY <1>1 DEF chunks
<1>3. /\ ever'.held = ever.held \cup Held(g) /\ ever'.about = ever.about \cup About(g)
      /\ stayed'.held = stayed.held \cap Held(g) /\ stayed'.about = stayed.about \cap About(g)
  BY DEF Becomes
<1>4. WorldType'
  BY <1>1, <1>2 DEF WorldType, Keeps
<1>5. Remembered'
  BY <1>1, <1>3 DEF Remembered
<1>6. QED
  BY <1>1, <1>2, <1>3, <1>4, <1>5 DEF Drifts, Keeps

LEMMA DetachedKeeps ==
    ASSUME NEW g, "mentions" \in DOMAIN g, NEW n
    PROVE  "mentions" \in DOMAIN Detached(g, n) /\ DOMAIN Detached(g, n).mentions = DOMAIN g.mentions
BY DEF Detached

LEMMA RepointedKeeps ==
    ASSUME NEW g, "mentions" \in DOMAIN g, NEW type, NEW d, NEW c
    PROVE  /\ "mentions" \in DOMAIN Repointed(g, type, d, c)
           /\ DOMAIN Repointed(g, type, d, c).mentions = DOMAIN g.mentions
<1> DEFINE to(x) == IF x = d THEN c ELSE x
<1>1. ASSUME NEW field, field # "mentions", NEW v, Repointed(g, type, d, c) = [g EXCEPT ![field] = v]
      PROVE  /\ "mentions" \in DOMAIN Repointed(g, type, d, c)
             /\ DOMAIN Repointed(g, type, d, c).mentions = DOMAIN g.mentions
  BY <1>1
<1>2. CASE type \in {"out", "in", "managed", "exposed", "serves", "formerly"}
  BY <1>1, <1>2 DEF Repointed
<1>3. CASE type \notin {"out", "in", "managed", "exposed", "serves", "formerly"}
  <2>1. Repointed(g, type, d, c) = [g EXCEPT ![type] = [k \in DOMAIN g[type] |-> {to(x) : x \in g[type][k]}]]
    BY <1>3 DEF Repointed
  <2> HIDE DEF to
  <2>2. QED
    BY <2>1
<1>4. QED
  BY <1>2, <1>3

LEMMA MeanwhileDrifts == WorldType /\ Remembered /\ Meanwhile => WorldType' /\ Remembered' /\ Drifts
<1> SUFFICES ASSUME WorldType, Remembered, Meanwhile
             PROVE  WorldType' /\ Remembered' /\ Drifts
  OBVIOUS
<1>1. "mentions" \in DOMAIN graph /\ chunks = DOMAIN graph.mentions /\ chunks \subseteq Chunk
  BY DEF WorldType, chunks
<1>2. CASE Switch \/ MergeFails
  BY <1>2 DEF Switch, MergeFails, Happens, WorldType, Remembered, Drifts, chunks
<1>3. CASE Delete
  <2>1. PICK f : Becomes(WithoutFirm(graph, f)) /\ answer = None
    BY <1>3 DEF Delete, Happens
  <2> DEFINE funds == {x \in DOMAIN graph.holds : graph.managed[x] # f}
             g == [graph EXCEPT !.holds = [x \in funds |-> @[x]], !.managed = [x \in funds |-> @[x]]]
  <2>2. "mentions" \in DOMAIN g /\ DOMAIN g.mentions = chunks
    BY <1>1
  <2>3. WithoutFirm(graph, f) = Detached(g, f)
    BY DEF WithoutFirm
  <2> HIDE DEF g
  <2>4. Keeps(Detached(g, f))
    BY <1>1, <2>2, DetachedKeeps DEF Keeps
  <2>5. QED
    BY <2>1, <2>3, <2>4, BecomesDrifts
<1>4. CASE Launch
  <2>1. PICK f : /\ answer = None
                 /\ Becomes([graph EXCEPT !.nodes = @ \cup {ManagerOf[f]}, !.holds = With(@, f, {}),
                                          !.managed = With(@, f, ManagerOf[f])])
    BY <1>4 DEF Launch, Happens
  <2> DEFINE g == [graph EXCEPT !.nodes = @ \cup {ManagerOf[f]}, !.holds = With(@, f, {}),
                                !.managed = With(@, f, ManagerOf[f])]
  <2>2. Keeps(g)
    BY <1>1 DEF Keeps
  <2>3. QED
    BY <2>1, <2>2, BecomesDrifts
<1>5. CASE Hold
  <2>1. PICK f, c : /\ answer = None
                    /\ Becomes([graph EXCEPT !.nodes = @ \cup {c}, !.holds[f] = @ \cup {c}])
    BY <1>5 DEF Hold, Happens
  <2> DEFINE g == [graph EXCEPT !.nodes = @ \cup {c}, !.holds[f] = @ \cup {c}]
  <2>2. Keeps(g)
    BY <1>1 DEF Keeps
  <2>3. QED
    BY <2>1, <2>2, BecomesDrifts
<1>6. CASE File
  <2>1. PICK c \in Chunk :
            /\ answer = None
            /\ Becomes([graph EXCEPT !.nodes = @ \cup Mentions[c], !.mentions = With(@, c, Mentions[c])])
    BY <1>6 DEF File, Happens
  <2> DEFINE g == [graph EXCEPT !.nodes = @ \cup Mentions[c], !.mentions = With(@, c, Mentions[c])]
  <2>2. "mentions" \in DOMAIN g /\ g.mentions = With(graph.mentions, c, Mentions[c])
    BY <1>1
  <2>3. DOMAIN g.mentions = chunks \cup {c}
    <3> HIDE DEF g
    <3>1. QED
      BY <1>1, <2>2 DEF With
  <2>4. Keeps(g)
    BY <1>1, <2>2, <2>3 DEF Keeps
  <2>5. QED
    BY <2>1, <2>4, BecomesDrifts
<1>7. CASE Discover
  <2>1. PICK m : answer = None /\ Becomes([graph EXCEPT !.nodes = @ \cup {m[2]}])
    BY <1>7 DEF Discover, Happens
  <2> DEFINE g == [graph EXCEPT !.nodes = @ \cup {m[2]}]
  <2>2. Keeps(g)
    BY <1>1 DEF Keeps
  <2>3. QED
    BY <2>1, <2>2, BecomesDrifts
<1>8. CASE Move
  <2>1. PICK g : /\ answer = None /\ Becomes(g)
                 /\ g = graph \/ \E type : g = Repointed(graph, type, merge.dup, merge.canonical)
    BY <1>8 DEF Move
  <2>2. Keeps(g)
    BY <1>1, <2>1, RepointedKeeps DEF Keeps
  <2>3. QED
    BY <2>1, <2>2, BecomesDrifts
<1>9. CASE DropDuplicate
  <2>1. answer = None /\ Becomes(Detached(graph, merge.dup))
    BY <1>9 DEF DropDuplicate
  <2>2. Keeps(Detached(graph, merge.dup))
    BY <1>1, DetachedKeeps DEF Keeps
  <2>3. QED
    BY <2>1, <2>2, BecomesDrifts
<1>10. QED
  BY <1>2, <1>3, <1>4, <1>5, <1>6, <1>7, <1>8, <1>9 DEF Meanwhile

LEMMA DriftShrinks ==
    ASSUME Drifts, WorldType, WorldType'
    PROVE  Filed' \subseteq Filed /\ Wanted' \subseteq Wanted
<1>1. Filed' \subseteq Filed
  BY DEF Drifts, Filed
<1>2. Filed' \subseteq chunks
  BY <1>1 DEF Filed, WorldType
<1>3. TopK' \cap chunks \subseteq TopK
  BY TopKShrinks DEF Drifts, WorldType
<1>4. \A c : Entitled(c)' <=> Entitled(c)
  BY DEF Drifts, Entitled
<1>5. QED
  BY <1>1, <1>2, <1>3, <1>4 DEF Wanted

LEMMA MeanwhileKeeps == QueryInv /\ Meanwhile => QueryInv'
<1> SUFFICES ASSUME QueryInv, Meanwhile PROVE QueryInv'
  OBVIOUS
<1>1. WorldType /\ Remembered
  BY DEF QueryInv, PathInv
<1>2. WorldType' /\ Remembered' /\ Drifts
  BY <1>1, MeanwhileDrifts
<1>3. Filed' \subseteq Filed /\ Wanted' \subseteq Wanted
  BY <1>1, <1>2, DriftShrinks
<1>4. q' = q /\ failed' = failed /\ answer' = None
  BY <1>2 DEF Drifts
<1>5. /\ \A c : Entitled(c)' <=> Entitled(c)
      /\ \A x : Known(x) => Known(x)'
  BY <1>4, <1>2 DEF Entitled, Known, Drifts
<1>6. \A c : Permitted(c) => Permitted(c)'
  BY <1>2, <1>4, <1>5 DEF Permitted, Drifts
<1>7. QuestionType' /\ Fresh' /\ Answered'
  BY <1>4 DEF QueryInv, PathInv, QuestionType, Fresh, Answered
<1>8. Scoped'
  BY <1>4, <1>5, <1>6 DEF QueryInv, PathInv, Scoped
<1>9. Covers' /\ Denied'
  BY <1>2, <1>3, <1>4 DEF QueryInv, PathInv, Covers, Denied, Drifts
<1>10. Searched' /\ Bare'
  BY <1>3, <1>4 DEF QueryInv, PathInv, Searched, Bare
<1>11. Promises'
  BY <1>4 DEF Promises, AnswerIsTheFirms, FilingsNeverDenied, FilingsAreCited
<1>12. QED
  BY <1>2, <1>7, <1>8, <1>9, <1>10, <1>11 DEF QueryInv, PathInv

-------------------------------------------------------------------------------
(* The handler's steps *)

\* A step of the handler leaves the world; while the scope is settled, what
\* may be drawn on and what is wanted stay as they are.
LEMMA SteadyWorld ==
    ASSUME QueryInv, UNCHANGED world
    PROVE  WorldType' /\ Remembered' /\ TopK' = TopK
  BY DEF QueryInv, PathInv, world, WorldType, Remembered, TopK, Nearer, chunks

LEMMA SteadyScope ==
    ASSUME UNCHANGED world, q'.firm = q.firm, q'.req = q.req
    PROVE  /\ Filed' = Filed /\ Wanted' = Wanted
           /\ \A c : Entitled(c)' <=> Entitled(c)
           /\ \A x : Known(x)' <=> Known(x)
           /\ \A c : Permitted(c)' <=> Permitted(c)
<1>1. Filed' = Filed /\ TopK' = TopK
  BY DEF world, Filed, TopK, Nearer, chunks
<1>2. /\ \A c : Entitled(c)' <=> Entitled(c)
      /\ \A x : Known(x)' <=> Known(x)
  BY DEF world, Entitled, Known
<1>3. \A c : Permitted(c)' <=> Permitted(c)
  BY <1>2 DEF world, Permitted
<1>4. Wanted' = Wanted
  BY <1>1, <1>2 DEF Wanted
<1>5. QED
  BY <1>1, <1>2, <1>3, <1>4

\* While there is no answer, there is nothing to hold it to.
LEMMA NotYet ==
    ASSUME QueryInv, UNCHANGED answer, q.pc # "done"
    PROVE  Promises' /\ Answered'
<1>1. answer' = None
  BY DEF QueryInv, PathInv, Answered
<1>2. QED
  BY <1>1 DEF Promises, Answered, AnswerIsTheFirms, FilingsNeverDenied, FilingsAreCited

LEMMA ScopeCovers ==
    ASSUME NEW c \in chunks, q.firm # None, Scoped, Remembered, InScope(c), Entitled(c)
    PROVE  Permitted(c)
<1>1. CASE Stamp[c] = q.firm
  BY <1>1 DEF Permitted
<1>2. CASE \E x \in q.companies : x \in graph.mentions[c]
  <2>1. PICK x \in q.companies : x \in graph.mentions[c]
    BY <1>2
  <2>2. <<c, x>> \in About(graph)
    BY <2>1 DEF About, chunks
  <2>3. QED
    BY <2>1, <2>2 DEF Scoped, Remembered, Known, Permitted
<1>3. QED
  BY <1>1, <1>2 DEF InScope

\* A filing that was the firm's all along is in a scope that covers.
LEMMA CoversFiled ==
    ASSUME Remembered, Covers, q.firm # None, q.pc \notin {"resolve", "holdings"},
           "holdings" \notin failed
    PROVE  \A c \in Filed : InScope(c)
<1> SUFFICES ASSUME NEW c \in Filed, Stamp[c] # q.firm PROVE InScope(c)
  BY DEF InScope
<1>1. PICK x \in Company : <<q.firm, x>> \in stayed.held /\ <<c, x>> \in stayed.about
  BY DEF Filed
<1>2. x \in q.companies
  BY <1>1 DEF Covers
<1>3. x \in graph.mentions[c]
  BY <1>1 DEF Remembered, About
<1>4. QED
  BY <1>2, <1>3 DEF InScope

LEMMA GoMoves ==
    ASSUME QuestionType, NEW p \in Pc, Go(p)
    PROVE  /\ QuestionType' /\ q'.pc = p
           /\ q'.req = q.req /\ q'.firm = q.firm /\ q'.companies = q.companies
           /\ q'.rows = q.rows /\ q'.cres = q.cres /\ q'.visible = q.visible
<1>1. q' = [q EXCEPT !.pc = p]
  BY DEF Go
<1>2. q' = [req |-> q.req, pc |-> p, firm |-> q.firm, companies |-> q.companies,
            tool |-> q.tool, fund |-> q.fund, analytics |-> q.analytics, rows |-> q.rows,
            cres |-> q.cres, tries |-> q.tries, visible |-> q.visible]
  BY <1>1 DEF QuestionType
<1>3. QED
  BY <1>2 DEF QuestionType

\* The scope is resolved, or left open, before anything is found.
LEMMA ResolveKeeps == QueryInv /\ Resolve => QueryInv'
<1> SUFFICES ASSUME QueryInv, Resolve PROVE QueryInv'
  OBVIOUS
<1>1. /\ QuestionType /\ Fresh /\ q.pc = "resolve" /\ q.firm = None
      /\ UNCHANGED world /\ UNCHANGED answer /\ UNCHANGED failed
  BY DEF QueryInv, PathInv, Fresh, Resolve, Reading
<1>2. WorldType' /\ Remembered' /\ Promises' /\ Answered'
  BY <1>1, SteadyWorld, NotYet
<1> DEFINE To(f, p) == q' = [q EXCEPT !.firm = f, !.pc = p] /\ (p = "vocab" => f = None)
<1>3. \E p \in {"holdings", "vocab"} : \E f : To(f, p)
  <2>1. CASE Go("vocab")
    <3>1. To(None, "vocab")
      BY <2>1, <1>1 DEF Go, QuestionType
    <3> HIDE DEF To
    <3>2. QED
      BY <3>1
  <2>2. CASE q' = [q EXCEPT !.firm = q.req.firm, !.pc = "holdings"]
    <3>1. To(q.req.firm, "holdings")
      BY <2>2
    <3> HIDE DEF To
    <3>2. QED
      BY <3>1
  <2>3. CASE q' = [q EXCEPT !.firm = active, !.pc = IF active = None THEN "vocab" ELSE "holdings"]
    <3>1. To(active, IF active = None THEN "vocab" ELSE "holdings")
      BY <2>3
    <3> HIDE DEF To
    <3>2. QED
      BY <3>1
  <2>4. QED
    BY <2>1, <2>2, <2>3 DEF Resolve
<1>. PICK p \in {"holdings", "vocab"} : \E f : To(f, p)
  BY <1>3
<1>. PICK f : To(f, p)
  OBVIOUS
<1>4. q' = [req |-> q.req, pc |-> p, firm |-> f, companies |-> q.companies,
            tool |-> q.tool, fund |-> q.fund, analytics |-> q.analytics, rows |-> q.rows,
            cres |-> q.cres, tries |-> q.tries, visible |-> q.visible]
  BY <1>1, <1>3 DEF QuestionType
<1>5. /\ q'.firm = f /\ q'.pc = p /\ q'.companies = {} /\ q'.visible = {} /\ q'.rows = {}
      /\ q'.cres = NoResult
  BY <1>1, <1>4 DEF Fresh
<1>6. QuestionType'
  BY <1>1, <1>4 DEF QuestionType, Pc
<1>7. Scoped' /\ Fresh' /\ Searched' /\ Covers' /\ Denied' /\ Bare'
  BY <1>5 DEF Scoped, Fresh, Searched, Covers, Denied, Bare, NoResult
<1>8. QED
  BY <1>2, <1>6, <1>7 DEF QueryInv, PathInv

\* What the firm's funds hold now has what they hold all along.
LEMMA ReadHoldingsKeeps == QueryInv /\ ReadHoldings => QueryInv'
<1> SUFFICES ASSUME QueryInv, ReadHoldings PROVE QueryInv'
  OBVIOUS
<1>1. /\ QuestionType /\ WorldType /\ Remembered /\ Fresh /\ q.pc = "holdings"
      /\ UNCHANGED world /\ UNCHANGED answer
  BY DEF QueryInv, PathInv, ReadHoldings, Reading
<1>2. WorldType' /\ Remembered' /\ Promises' /\ Answered'
  BY <1>1, SteadyWorld, NotYet
<1>3. PICK companies :
        /\ q' = [req |-> q.req, pc |-> "vocab", firm |-> q.firm, companies |-> companies,
                 tool |-> q.tool, fund |-> q.fund, analytics |-> q.analytics, rows |-> q.rows,
                 cres |-> q.cres, tries |-> q.tries, visible |-> q.visible]
        /\ companies = {} \/ companies = HeldBy(q.firm)
        /\ "holdings" \notin failed' => companies = HeldBy(q.firm)
  BY <1>1 DEF ReadHoldings, Go, QuestionType, Fresh
<1>4. /\ q'.req = q.req /\ q'.firm = q.firm /\ q'.pc = "vocab" /\ q'.companies = companies
      /\ q'.visible = {} /\ q'.rows = {} /\ q'.cres = NoResult
  BY <1>1, <1>3 DEF Fresh
<1>5. QuestionType'
  BY <1>1, <1>3 DEF QuestionType, Pc
<1>6. \A x : Known(x)' <=> Known(x)
  BY <1>1, <1>4, SteadyScope
<1>7. \A x \in companies : Known(x)
  BY <1>1, <1>3 DEF HeldBy, Remembered, Known
<1>8. Scoped'
  BY <1>4, <1>6, <1>7 DEF Scoped, NoResult
<1>9. Covers'
  <2>1. stayed' = stayed
    BY <1>1 DEF world
  <2>2. QED
    BY <1>1, <1>3, <1>4, <2>1 DEF Covers, Remembered, HeldBy
<1>10. Fresh' /\ Searched' /\ Denied' /\ Bare'
  BY <1>4 DEF Fresh, Searched, Denied, Bare, NoResult
<1>11. QED
  BY <1>2, <1>5, <1>8, <1>9, <1>10 DEF QueryInv, PathInv

-------------------------------------------------------------------------------
(* The graph first *)

\* What a step of the graph path may do.
Pathfinds ==
    /\ UNCHANGED world /\ UNCHANGED answer /\ UNCHANGED failed
    /\ q.pc \in {"vocab", "tool", "generate"}
    /\ q'.pc \in {"text", "tool", "generate", "gather", "fallback"}
    /\ q'.req = q.req /\ q'.firm = q.firm /\ q'.companies = q.companies /\ q'.visible = q.visible
    /\ q'.cres = q.cres \/ (q'.cres.source = "graph" /\ q'.cres.chunks = {})
    /\ q.firm # None /\ q'.rows # q.rows =>
        UNION q'.rows = {} \/ \E x \in UNION q'.rows : Known(x)

LEMMA PathfindsKeeps ==
    ASSUME QueryInv, QuestionType', Pathfinds
    PROVE  QueryInv'
<1>1. /\ QuestionType /\ Scoped /\ Covers /\ Searched
      /\ UNCHANGED world /\ UNCHANGED answer /\ q.pc # "done"
  BY DEF QueryInv, PathInv, Pathfinds
<1>2. WorldType' /\ Remembered' /\ Promises' /\ Answered'
  BY <1>1, SteadyWorld, NotYet
<1>3. /\ Filed' = Filed /\ Wanted' = Wanted
      /\ \A x : Known(x)' <=> Known(x)
      /\ \A c : Permitted(c)' <=> Permitted(c)
  BY SteadyScope DEF Pathfinds
<1>4. stayed' = stayed
  BY DEF world, Pathfinds
<1>5. Scoped'
  BY <1>1, <1>3 DEF Scoped, Pathfinds
<1>6. Fresh' /\ Denied' /\ Bare'
  BY DEF Fresh, Denied, Bare, Pathfinds
<1>7. Covers' /\ Searched'
  BY <1>1, <1>3, <1>4 DEF Covers, Searched, Pathfinds
<1>8. QED
  BY <1>2, <1>5, <1>6, <1>7 DEF QueryInv, PathInv

LEMMA RouteKeeps == QueryInv /\ Route => QueryInv'
<1> SUFFICES ASSUME QueryInv, Route PROVE QueryInv'
  OBVIOUS
<1>1. QuestionType /\ q.pc = "vocab"
  BY DEF QueryInv, PathInv, Route
<1>2. \E p \in {"text", "generate", "tool"} : \E fund, tool :
        q' = [q EXCEPT !.fund = fund, !.tool = tool, !.pc = p]
  BY DEF Route
<1> PICK p \in {"text", "generate", "tool"} : \E fund, tool :
        q' = [q EXCEPT !.fund = fund, !.tool = tool, !.pc = p]
  BY <1>2
<1> PICK fund, tool : q' = [q EXCEPT !.fund = fund, !.tool = tool, !.pc = p]
  OBVIOUS
<1>3. q' = [req |-> q.req, pc |-> p, firm |-> q.firm, companies |-> q.companies,
            tool |-> tool, fund |-> fund, analytics |-> q.analytics, rows |-> q.rows,
            cres |-> q.cres, tries |-> q.tries, visible |-> q.visible]
  BY <1>1 DEF QuestionType
<1>4. QuestionType' /\ Pathfinds
  BY <1>1, <1>3 DEF QuestionType, Pc, Pathfinds, Route, Reading
<1>5. QED
  BY <1>4, PathfindsKeeps

\* A tool's result is kept only if it names a company of the firm.
LEMMA RunToolKeeps == QueryInv /\ RunTool => QueryInv'
<1> SUFFICES ASSUME QueryInv, RunTool PROVE QueryInv'
  OBVIOUS
<1>1. QuestionType /\ Scoped /\ q.pc = "tool"
  BY DEF QueryInv, PathInv, RunTool
<1>2. PICK rows : q' = [q EXCEPT !.analytics = InFirm(rows),
                                 !.rows = IF InFirm(rows) THEN rows ELSE {}, !.pc = "gather"]
  BY DEF RunTool
<1> DEFINE kept == IF InFirm(rows) THEN rows ELSE {}
<1>3. q.firm # None => UNION kept = {} \/ \E x \in UNION kept : Known(x)
  BY <1>1 DEF InFirm, Scoped
<1>4. q' = [q EXCEPT !.analytics = InFirm(rows), !.rows = kept, !.pc = "gather"]
  BY <1>2
<1> HIDE DEF kept
<1>5. q' = [req |-> q.req, pc |-> "gather", firm |-> q.firm, companies |-> q.companies,
            tool |-> q.tool, fund |-> q.fund, analytics |-> InFirm(rows), rows |-> kept,
            cres |-> q.cres, tries |-> q.tries, visible |-> q.visible]
  BY <1>1, <1>4 DEF QuestionType
<1>6. QuestionType' /\ Pathfinds
  BY <1>1, <1>3, <1>5 DEF QuestionType, Pc, Pathfinds, RunTool, Reading
<1>7. QED
  BY <1>6, PathfindsKeeps

LEMMA GenerateKeeps == QueryInv /\ Generate => QueryInv'
<1> SUFFICES ASSUME QueryInv, Generate PROVE QueryInv'
  OBVIOUS
<1>1. QuestionType /\ q.pc = "generate"
  BY DEF QueryInv, PathInv, Generate
<1> DEFINE Round(cres, p, tries) ==
        q' = [req |-> q.req, pc |-> p, firm |-> q.firm, companies |-> q.companies,
              tool |-> q.tool, fund |-> q.fund, analytics |-> q.analytics, rows |-> q.rows,
              cres |-> cres, tries |-> tries, visible |-> q.visible]
<1>2. ASSUME NEW cres \in Results, NEW p \in {"generate", "gather", "fallback"}, NEW tries,
             Round(cres, p, tries), cres = q.cres \/ (cres.source = "graph" /\ cres.chunks = {})
      PROVE  QueryInv'
  <2>1. QuestionType' /\ Pathfinds
    BY <1>1, <1>2 DEF QuestionType, Pc, Pathfinds, Generate, Reading
  <2>2. QED
    BY <2>1, PathfindsKeeps
<1>3. \A ok, rows \in BOOLEAN :
        /\ GraphResult(ok, rows) \in Results
        /\ GraphResult(ok, rows).source = "graph" /\ GraphResult(ok, rows).chunks = {}
  BY DEF GraphResult, Results
<1>4. CASE \E rows \in BOOLEAN : q' = [q EXCEPT !.cres = GraphResult(TRUE, rows), !.pc = "gather"]
  <2>1. PICK rows \in BOOLEAN : q' = [q EXCEPT !.cres = GraphResult(TRUE, rows), !.pc = "gather"]
    BY <1>4
  <2>2. Round(GraphResult(TRUE, rows), "gather", q.tries)
    BY <1>1, <2>1 DEF QuestionType
  <2>3. QED
    BY <1>2, <1>3, <2>2
<1>5. ASSUME NEW tries, GiveUp(tries) PROVE QueryInv'
  <2> DEFINE p == IF q.req.mode = "graph_only" THEN "gather" ELSE "fallback"
  <2>1. Round(GraphResult(FALSE, FALSE), p, tries)
    BY <1>1, <1>5 DEF QuestionType, GiveUp
  <2>2. p \in {"generate", "gather", "fallback"}
    OBVIOUS
  <2>3. QED
    BY <1>2, <1>3, <2>1, <2>2
<1>6. CASE q' = [q EXCEPT !.tries = @ + 1]
  <2>1. Round(q.cres, "generate", q.tries + 1)
    BY <1>1, <1>6 DEF QuestionType
  <2>2. q.cres \in Results
    BY <1>1 DEF QuestionType
  <2>3. QED
    BY <1>2, <2>1, <2>2
<1>7. QED
  BY <1>4, <1>5, <1>6 DEF Generate

-------------------------------------------------------------------------------
(* Evidence *)

\* A search that goes through finds what is wanted, and nothing else than what
\* is permitted.
LEMMA SearchFinds ==
    ASSUME QueryInv, q.firm # None, q.pc \notin {"resolve", "holdings"}
    PROVE  /\ Retrieved \subseteq Chunk
           /\ \A c \in Retrieved : Permitted(c)
           /\ "holdings" \notin failed => Wanted \subseteq Retrieved
<1>1. Scoped /\ Covers /\ WorldType /\ Remembered
  BY DEF QueryInv, PathInv
<1>2. Retrieved \subseteq Chunk
  BY <1>1 DEF Retrieved, TopK, WorldType
<1>3. \A c \in Retrieved : Permitted(c)
  BY <1>1, ScopeCovers DEF Retrieved, TopK
<1>4. "holdings" \notin failed => Wanted \subseteq Retrieved
  BY <1>1, CoversFiled DEF Wanted, Retrieved
<1>5. QED
  BY <1>2, <1>3, <1>4

\* What a search of the text may do: it leaves what it found as the result, or
\* having found nothing leaves the old one.
Searches(found) ==
    /\ UNCHANGED world /\ UNCHANGED answer
    /\ q.pc \in {"fallback", "text", "rescue"}
    /\ q'.req = q.req /\ q'.firm = q.firm /\ q'.companies = q.companies /\ q'.visible = q.visible
    /\ \/ q'.rows = q.rows /\ q'.cres = TextResult(found)
       \/ q'.rows = {} /\ q'.cres = TextResult(found)
       \/ q'.rows = q.rows /\ q'.cres = q.cres /\ found = {} /\ q.pc = "rescue"
    /\ found \in {{}, Retrieved}
    /\ failed \subseteq failed'
    /\ failed' = {} => found = Retrieved
    /\ q'.pc \in {"gather", "synth"} \/ (q'.pc = "filings" /\ q.firm # None)

LEMMA TextKeeps ==
    ASSUME QueryInv, QuestionType', NEW found, Searches(found)
    PROVE  QueryInv'
<1>1. /\ QuestionType /\ Scoped /\ Covers /\ Searched /\ Fresh
      /\ UNCHANGED world /\ UNCHANGED answer /\ q.pc # "done"
      /\ q.pc \notin {"resolve", "holdings"}
  BY DEF QueryInv, PathInv, Searches
<1>2. WorldType' /\ Remembered' /\ Promises' /\ Answered'
  BY <1>1, SteadyWorld, NotYet
<1>3. /\ Filed' = Filed /\ Wanted' = Wanted
      /\ \A x : Known(x)' <=> Known(x)
      /\ \A c : Permitted(c)' <=> Permitted(c)
  BY SteadyScope DEF Searches
<1>4. stayed' = stayed
  BY <1>1 DEF world
<1>5. TextResult(found).chunks = found /\ TextResult(found).source = "text_vector"
  BY DEF TextResult
<1>6. q.firm # None => \A c \in found : Permitted(c)
  BY <1>1, SearchFinds DEF Searches
<1>7. q.firm # None /\ failed' = {} => Wanted \subseteq found
  BY <1>1, SearchFinds DEF Searches
<1>8. Scoped'
  BY <1>1, <1>3, <1>5, <1>6 DEF Scoped, Searches
<1>9. Fresh' /\ Denied'
  BY DEF Fresh, Denied, Searches
<1>10. Covers'
  BY <1>1, <1>3, <1>4 DEF Covers, Searches
<1>11. Searched'
  <2>1. CASE q'.cres = TextResult(found)
    BY <1>3, <1>5, <1>7, <2>1 DEF Searched, Searches
  <2>2. CASE q'.cres = q.cres
    BY <1>1, <1>3, <2>2 DEF Searched, Searches
  <2>3. QED
    BY <2>1, <2>2 DEF Searches
<1>12. Bare'
  <2>1. CASE q'.cres = TextResult(found)
    BY <1>3, <1>5, <1>7, <2>1 DEF Bare, Searches
  <2>2. CASE found = {}
    BY <1>3, <1>7, <2>2 DEF Bare, Searches
  <2>3. QED
    BY <2>1, <2>2 DEF Searches
<1>13. QED
  BY <1>2, <1>8, <1>9, <1>10, <1>11, <1>12 DEF QueryInv, PathInv

LEMMA FallbackKeeps == QueryInv /\ Fallback => QueryInv'
<1> SUFFICES ASSUME QueryInv, Fallback PROVE QueryInv'
  OBVIOUS
<1>1. QuestionType /\ WorldType /\ q.pc = "fallback"
  BY DEF QueryInv, PathInv, Fallback
<1>2. PICK found \in {{}, Retrieved} :
        /\ q' = [q EXCEPT !.cres = TextResult(found), !.pc = "gather"]
        /\ failed \subseteq failed' /\ (failed' = {} => found = Retrieved)
  BY DEF Fallback, Search
<1>3. q' = [req |-> q.req, pc |-> "gather", firm |-> q.firm, companies |-> q.companies,
            tool |-> q.tool, fund |-> q.fund, analytics |-> q.analytics, rows |-> q.rows,
            cres |-> TextResult(found), tries |-> q.tries, visible |-> q.visible]
  BY <1>1, <1>2 DEF QuestionType
<1>4. TextResult(found) \in Results
  BY <1>1, <1>2 DEF TextResult, Results, Retrieved, TopK, WorldType
<1>5. QuestionType' /\ Searches(found)
  BY <1>1, <1>2, <1>3, <1>4 DEF QuestionType, Pc, Searches, Fallback, Reading
<1>6. QED
  BY <1>5, TextKeeps

LEMMA TextOnlyKeeps == QueryInv /\ TextOnly => QueryInv'
<1> SUFFICES ASSUME QueryInv, TextOnly PROVE QueryInv'
  OBVIOUS
<1>1. QuestionType /\ WorldType /\ q.pc = "text"
  BY DEF QueryInv, PathInv, TextOnly
<1>2. PICK found \in {{}, Retrieved} :
        /\ q' = [q EXCEPT !.cres = TextResult(found),
                          !.pc = IF q.firm # None /\ found = {} THEN "filings" ELSE "synth"]
        /\ failed \subseteq failed' /\ (failed' = {} => found = Retrieved)
  BY DEF TextOnly, Search
<1> DEFINE p == IF q.firm # None /\ found = {} THEN "filings" ELSE "synth"
<1>3. /\ q' = [q EXCEPT !.cres = TextResult(found), !.pc = p]
      /\ p = "filings" \/ p = "synth"
      /\ p = "filings" => q.firm # None
  BY <1>2
<1> HIDE DEF p
<1>4. q' = [req |-> q.req, pc |-> p, firm |-> q.firm, companies |-> q.companies,
            tool |-> q.tool, fund |-> q.fund, analytics |-> q.analytics, rows |-> q.rows,
            cres |-> TextResult(found), tries |-> q.tries, visible |-> q.visible]
  BY <1>1, <1>3 DEF QuestionType
<1>5. TextResult(found) \in Results
  BY <1>1, <1>2 DEF TextResult, Results, Retrieved, TopK, WorldType
<1>6. QuestionType' /\ Searches(found)
  BY <1>1, <1>2, <1>3, <1>4, <1>5 DEF QuestionType, Pc, Searches, TextOnly, Reading
<1>7. QED
  BY <1>6, TextKeeps

LEMMA RescueKeeps == QueryInv /\ Rescue => QueryInv'
<1> SUFFICES ASSUME QueryInv, Rescue PROVE QueryInv'
  OBVIOUS
<1>1. QuestionType /\ WorldType /\ q.pc = "rescue"
  BY DEF QueryInv, PathInv, Rescue
<1>2. PICK found \in {{}, Retrieved} :
        /\ q' = IF found = {} THEN [q EXCEPT !.pc = "synth"]
                ELSE [q EXCEPT !.analytics = FALSE, !.rows = {}, !.cres = TextResult(found),
                               !.pc = "synth"]
        /\ failed \subseteq failed' /\ (failed' = {} => found = Retrieved)
  BY DEF Rescue, Search
<1>3. CASE found = {}
  <2>1. q' = [q EXCEPT !.pc = "synth"]
    BY <1>2, <1>3
  <2>2. q' = [req |-> q.req, pc |-> "synth", firm |-> q.firm, companies |-> q.companies,
              tool |-> q.tool, fund |-> q.fund, analytics |-> q.analytics, rows |-> q.rows,
              cres |-> q.cres, tries |-> q.tries, visible |-> q.visible]
    BY <1>1, <2>1 DEF QuestionType
  <2>3. QuestionType' /\ Searches(found)
    BY <1>1, <1>2, <1>3, <2>2 DEF QuestionType, Pc, Searches, Rescue, Reading
  <2>4. QED
    BY <2>3, TextKeeps
<1>4. CASE found # {}
  <2>1. q' = [q EXCEPT !.analytics = FALSE, !.rows = {}, !.cres = TextResult(found), !.pc = "synth"]
    BY <1>2, <1>4
  <2>2. q' = [req |-> q.req, pc |-> "synth", firm |-> q.firm, companies |-> q.companies,
              tool |-> q.tool, fund |-> q.fund, analytics |-> FALSE, rows |-> {},
              cres |-> TextResult(found), tries |-> q.tries, visible |-> q.visible]
    BY <1>1, <2>1 DEF QuestionType
  <2>3. TextResult(found) \in Results
    BY <1>1, <1>2 DEF TextResult, Results, Retrieved, TopK, WorldType
  <2>4. QuestionType' /\ Searches(found)
    BY <1>1, <1>2, <1>4, <2>2, <2>3 DEF QuestionType, Pc, Searches, Rescue, Reading
  <2>5. QED
    BY <2>4, TextKeeps
<1>5. QED
  BY <1>3, <1>4

LEMMA GatherKeeps == QueryInv /\ Gather => QueryInv'
<1> SUFFICES ASSUME QueryInv, Gather PROVE QueryInv'
  OBVIOUS
<1>1. /\ QuestionType /\ WorldType /\ Remembered /\ Scoped /\ Covers /\ Searched /\ q.pc = "gather"
      /\ UNCHANGED world /\ UNCHANGED answer /\ UNCHANGED failed
  BY DEF QueryInv, PathInv, Gather, Reading
<1> DEFINE p == IF q.firm # None /\ Ungrounded(Gathered) THEN "filings" ELSE "synth"
<1>2. /\ q' = [q EXCEPT !.visible = Gathered, !.pc = p]
      /\ p = "filings" \/ (p = "synth" /\ (q.firm # None => ~Ungrounded(Gathered)))
      /\ p = "filings" => q.firm # None
  BY DEF Gather
<1> HIDE DEF p
<1>3. q' = [req |-> q.req, pc |-> p, firm |-> q.firm, companies |-> q.companies,
            tool |-> q.tool, fund |-> q.fund, analytics |-> q.analytics, rows |-> q.rows,
            cres |-> q.cres, tries |-> q.tries, visible |-> Gathered]
  BY <1>1, <1>2 DEF QuestionType
<1>4. QuestionType'
  BY <1>1, <1>2, <1>3 DEF QuestionType, Pc, Gathered, WorldType
<1>5. WorldType' /\ Remembered' /\ Promises' /\ Answered'
  BY <1>1, SteadyWorld, NotYet
<1>6. /\ q'.req = q.req /\ q'.firm = q.firm /\ q'.pc = p /\ q'.companies = q.companies
      /\ q'.rows = q.rows /\ q'.cres = q.cres /\ q'.visible = Gathered
  BY <1>3
<1>7. /\ Filed' = Filed /\ Wanted' = Wanted
      /\ \A x : Known(x)' <=> Known(x)
      /\ \A c : Permitted(c)' <=> Permitted(c)
  BY <1>1, <1>6, SteadyScope
<1>8. stayed' = stayed
  BY <1>1 DEF world
<1>9. q.firm # None => \A c \in Gathered : Permitted(c)
  BY <1>1, ScopeCovers DEF Gathered
<1>10. Scoped'
  BY <1>1, <1>6, <1>7, <1>9 DEF Scoped
<1>11. Fresh' /\ Denied'
  BY <1>2, <1>6 DEF Fresh, Denied
<1>12. Covers' /\ Searched'
  BY <1>1, <1>6, <1>7, <1>8 DEF Covers, Searched
<1>13. Bare'
  BY <1>1, <1>2, <1>6 DEF Bare, Ungrounded, QuestionType
<1>14. QED
  BY <1>4, <1>5, <1>10, <1>11, <1>12, <1>13 DEF QueryInv, PathInv

\* Only a firm without filings in its scope is turned to the structural
\* answer; a text already searched is not searched again.
LEMMA CheckFilingsKeeps == QueryInv /\ CheckFilings => QueryInv'
<1> SUFFICES ASSUME QueryInv, CheckFilings PROVE QueryInv'
  OBVIOUS
<1>1. /\ QuestionType /\ WorldType /\ Remembered /\ Scoped /\ Covers /\ Searched
      /\ q.pc = "filings" /\ q.firm # None
      /\ UNCHANGED world /\ UNCHANGED answer /\ failed \subseteq failed'
  BY DEF QueryInv, PathInv, Fresh, CheckFilings, Reading
<1>2. PICK p \in {"synth", "rescue", "structural"} :
        /\ Go(p)
        /\ p = "structural" => ~\E c \in chunks : InScope(c)
        /\ p = "synth" => q.cres.source = "text_vector"
  BY DEF CheckFilings, HasFilings
<1>3. /\ QuestionType' /\ q'.pc = p
      /\ q'.req = q.req /\ q'.firm = q.firm /\ q'.companies = q.companies
      /\ q'.rows = q.rows /\ q'.cres = q.cres /\ q'.visible = q.visible
  BY <1>1, <1>2, GoMoves DEF Pc
<1>4. WorldType' /\ Remembered' /\ Promises' /\ Answered'
  BY <1>1, SteadyWorld, NotYet
<1>5. /\ Filed' = Filed /\ Wanted' = Wanted
      /\ \A x : Known(x)' <=> Known(x)
      /\ \A c : Permitted(c)' <=> Permitted(c)
  BY <1>1, <1>3, SteadyScope
<1>6. stayed' = stayed
  BY <1>1 DEF world
<1>7. Scoped' /\ Fresh'
  BY <1>1, <1>2, <1>3, <1>5 DEF Scoped, Fresh
<1>8. Covers' /\ Searched'
  BY <1>1, <1>2, <1>3, <1>5, <1>6 DEF Covers, Searched
<1>9. Denied'
  <2>1. Filed \subseteq chunks
    BY <1>1 DEF Filed, WorldType
  <2>2. QED
    BY <1>1, <1>2, <1>3, <1>5, <2>1, CoversFiled DEF Denied
<1>10. Bare'
  BY <1>1, <1>2, <1>3, <1>5 DEF Bare, Searched
<1>11. QED
  BY <1>3, <1>4, <1>7, <1>8, <1>9, <1>10 DEF QueryInv, PathInv

-------------------------------------------------------------------------------
(* Answers *)

\* With the answer the path ends; what is left to show are the promises.
LEMMA RespondKeeps ==
    ASSUME QueryInv, q.pc \notin {"resolve", "holdings"},
           NEW r, Respond(r), failed \subseteq failed', Promises'
    PROVE  QueryInv'
<1>1. QuestionType /\ Scoped /\ Covers /\ Searched /\ Fresh /\ UNCHANGED world
  BY DEF QueryInv, PathInv, Respond
<1>2. /\ QuestionType' /\ q'.pc = "done"
      /\ q'.req = q.req /\ q'.firm = q.firm /\ q'.companies = q.companies
      /\ q'.rows = q.rows /\ q'.cres = q.cres /\ q'.visible = q.visible
  BY <1>1, GoMoves DEF Respond, Pc
<1>3. WorldType' /\ Remembered'
  BY <1>1, SteadyWorld
<1>4. /\ Filed' = Filed /\ Wanted' = Wanted
      /\ \A x : Known(x)' <=> Known(x)
      /\ \A c : Permitted(c)' <=> Permitted(c)
  BY <1>1, <1>2, SteadyScope
<1>5. stayed' = stayed
  BY <1>1 DEF world
<1>6. Scoped' /\ Fresh' /\ Denied' /\ Bare' /\ Answered'
  BY <1>1, <1>2, <1>4 DEF Scoped, Fresh, Denied, Bare, Answered
<1>7. Searched'
  BY <1>1, <1>2, <1>4 DEF Searched
<1>8. Covers'
  BY <1>1, <1>2, <1>4, <1>5 DEF Covers
<1>9. QED
  BY <1>2, <1>3, <1>6, <1>7, <1>8 DEF QueryInv, PathInv

\* What answering leaves as it was.
LEMMA RespondLeaves ==
    ASSUME QuestionType, NEW r, Respond(r)
    PROVE  /\ answer' = r /\ q'.firm = q.firm /\ q'.rows = q.rows
           /\ Filed' = Filed /\ Wanted' = Wanted
           /\ \A c : Entitled(c)' <=> Entitled(c)
           /\ \A x : Known(x)' <=> Known(x)
           /\ \A c : Permitted(c)' <=> Permitted(c)
<1>1. q'.req = q.req /\ q'.firm = q.firm /\ q'.rows = q.rows
  BY GoMoves DEF Respond, Pc
<1>2. QED
  BY <1>1, SteadyScope DEF Respond

LEMMA StructuralKeeps == QueryInv /\ Structural => QueryInv'
<1> SUFFICES ASSUME QueryInv, Structural PROVE QueryInv'
  OBVIOUS
<1> DEFINE r == [source |-> "structural", plan |-> "structural", rows |-> FALSE,
                 cites |-> {}, byText |-> {}, shown |-> {}]
<1>1. /\ QuestionType /\ Denied /\ q.pc = "structural" /\ Respond(r) /\ failed' = failed
  BY DEF QueryInv, PathInv, Structural
<1>2. r.source = "structural" /\ r.cites = {} /\ r.shown = {}
  OBVIOUS
<1> HIDE DEF r
<1>3. answer' = r /\ Filed' = Filed
  BY <1>1, RespondLeaves
<1>4. AnswerIsTheFirms'
  BY <1>2, <1>3 DEF AnswerIsTheFirms
<1>5. FilingsNeverDenied' /\ FilingsAreCited'
  BY <1>1, <1>3 DEF Denied, FilingsNeverDenied, FilingsAreCited
<1>6. QED
  BY <1>1, <1>4, <1>5, RespondKeeps DEF Promises

LEMMA DegradeKeeps == QueryInv /\ Degrade => QueryInv'
<1> SUFFICES ASSUME QueryInv, Degrade PROVE QueryInv'
  OBVIOUS
<1> DEFINE r == [source |-> "error", plan |-> "degraded", rows |-> FALSE,
                 cites |-> {}, byText |-> {}, shown |-> {}]
<1>1. /\ QuestionType /\ q.pc \notin {"resolve", "holdings"} /\ Respond(r) /\ failed' = failed
  BY DEF QueryInv, PathInv, Degrade
<1>2. r.source = "error" /\ r.cites = {} /\ r.shown = {}
  OBVIOUS
<1> HIDE DEF r
<1>3. answer' = r
  BY <1>1, RespondLeaves
<1>4. Promises'
  BY <1>2, <1>3 DEF Promises, AnswerIsTheFirms, FilingsNeverDenied, FilingsAreCited
<1>5. QED
  BY <1>1, <1>4, RespondKeeps

\* What is cited has been found and what is shown beside it too; with nothing
\* at hand, nothing was wanted.
LEMMA SynthesizeKeeps == QueryInv /\ Synthesize => QueryInv'
<1> SUFFICES ASSUME QueryInv, Synthesize PROVE QueryInv'
  OBVIOUS
<1>1. QuestionType /\ Scoped /\ Bare /\ q.pc = "synth"
  BY DEF QueryInv, PathInv, Synthesize
<1>2. PICK shown \in {{}, Retrieved, q.cres.chunks} : Respond(Composed(shown)) /\ failed \subseteq failed'
  BY DEF Synthesize, Search
<1> DEFINE r == Composed(shown)
<1>3. /\ r.source \in {"analytics", "text_vector", "graph"}
      /\ r.rows <=> q.rows # {} \/ q.cres.rows
      /\ r.cites = q.visible \cup q.cres.chunks /\ r.shown = shown
  BY <1>1 DEF Composed, Source, QuestionType, Results
<1> HIDE DEF r
<1>4. /\ answer' = r /\ q'.firm = q.firm /\ q'.rows = q.rows
      /\ Filed' = Filed /\ Wanted' = Wanted
      /\ \A c : Entitled(c)' <=> Entitled(c)
      /\ \A x : Known(x)' <=> Known(x)
      /\ \A c : Permitted(c)' <=> Permitted(c)
  BY <1>1, <1>2, RespondLeaves DEF r
<1>5. AnswerIsTheFirms'
  <2> SUFFICES ASSUME q.firm # None PROVE AnswerIsTheFirms'
    BY <1>4 DEF AnswerIsTheFirms
  <2>1. \A c \in r.cites \cup r.shown : Permitted(c)
    BY <1>1, <1>2, <1>3, SearchFinds DEF Scoped
  <2>2. ever' = ever
    BY <1>2 DEF Respond, world
  <2>3. \A c \in r.cites \cup r.shown :
            /\ Entitled(c)'
            /\ \/ Stamp[c] = q'.firm
               \/ \E x \in Company : <<q'.firm, x>> \in ever'.held /\ <<c, x>> \in ever'.about
    BY <1>4, <2>1, <2>2 DEF Permitted, Known
  <2>4. UNION q'.rows = {} \/ \E x \in UNION q'.rows : <<q'.firm, x>> \in ever'.held
    <3> DEFINE names == UNION q.rows
    <3>1. names = {} \/ \E x \in names : <<q.firm, x>> \in ever.held
      BY <1>1 DEF Scoped, Known
    <3>2. UNION q'.rows = names
      BY <1>4
    <3> HIDE DEF names
    <3>3. QED
      BY <1>4, <2>2, <3>1, <3>2
  <2>5. QED
    BY <1>4, <2>3, <2>4 DEF AnswerIsTheFirms
<1>6. FilingsNeverDenied'
  BY <1>3, <1>4 DEF FilingsNeverDenied
<1>7. FilingsAreCited'
  <2> SUFFICES ASSUME q.firm # None, failed' = {}, ~r.rows, r.cites = {}
               PROVE  Wanted' = {}
    BY <1>4 DEF FilingsAreCited, Wanted
  <2>1. failed = {} /\ q.visible = {} /\ q.cres.chunks = {}
    BY <1>2, <1>3
  <2>2. q.rows = {} /\ ~q.cres.rows
    BY <1>3
  <2>3. QED
    BY <1>1, <1>4, <2>1, <2>2 DEF Bare
<1>8. QED
  BY <1>1, <1>2, <1>5, <1>6, <1>7, RespondKeeps DEF Promises

-------------------------------------------------------------------------------
(* The theorems *)

LEMMA InitQuery == Init => QueryInv
<1> SUFFICES ASSUME Init PROVE QueryInv
  OBVIOUS
<1>1. answer = None
  BY DEF Init
<1>2. PICK req : q = Asked(req)
  BY DEF Init
<1>3. /\ q.pc = "resolve" /\ q.firm = None /\ q.companies = {} /\ q.rows = {}
      /\ q.cres = NoResult /\ q.visible = {}
  BY <1>2 DEF Asked
<1>4. QuestionType
  BY <1>2 DEF QuestionType, Asked, Pc, Results, NoResult
<1>5. Fresh /\ Scoped /\ Covers /\ Searched /\ Denied /\ Bare /\ Answered
  BY <1>1, <1>3 DEF Fresh, Scoped, Covers, Searched, Denied, Bare, Answered, NoResult
<1>6. Promises
  BY <1>1 DEF Promises, AnswerIsTheFirms, FilingsNeverDenied, FilingsAreCited
<1>7. QED
  BY <1>4, <1>5, <1>6, InitWorld DEF QueryInv, PathInv

LEMMA StutterKeeps == QueryInv /\ UNCHANGED vars => QueryInv'
<1> SUFFICES ASSUME QueryInv, UNCHANGED vars PROVE QueryInv'
  OBVIOUS
<1>1. /\ q' = q /\ answer' = answer /\ failed' = failed /\ graph' = graph
      /\ start' = start /\ ever' = ever /\ stayed' = stayed
  BY DEF vars, world
<1>2. WorldType' /\ Remembered' /\ TopK' = TopK
  BY SteadyWorld DEF vars
<1>3. /\ Filed' = Filed /\ Wanted' = Wanted
      /\ \A c : Entitled(c)' <=> Entitled(c)
      /\ \A c : Permitted(c)' <=> Permitted(c)
      /\ \A x : Known(x)' <=> Known(x)
  BY <1>1, SteadyScope DEF vars
<1>4. stayed' = stayed
  BY <1>1 DEF world
<1>5. QuestionType' /\ Scoped' /\ Fresh' /\ Covers' /\ Searched' /\ Denied' /\ Bare' /\ Answered'
  BY <1>1, <1>3, <1>4
  DEF QueryInv, PathInv, QuestionType, Scoped, Fresh, Covers, Searched, Denied, Bare, Answered
<1>6. AnswerIsTheFirms' /\ FilingsNeverDenied'
  BY <1>1, <1>3 DEF QueryInv, Promises, AnswerIsTheFirms, FilingsNeverDenied
<1>7. FilingsAreCited'
  BY <1>1, <1>2, <1>3 DEF QueryInv, Promises, FilingsAreCited
<1>8. QED
  BY <1>2, <1>5, <1>6, <1>7 DEF QueryInv, PathInv, Promises

\* At every read of the handler, what it knows of the firm's scope, what it has
\* found and what is left to find fit together (graph.py's comments on the
\* paths of QueryGraph.answer), however firms, holdings and filings change.
THEOREM QueryInvariant == Spec => []QueryInv
<1>1. QueryInv /\ [Next]_vars => QueryInv'
  BY MeanwhileKeeps, ResolveKeeps, ReadHoldingsKeeps, RouteKeeps, RunToolKeeps, GenerateKeeps,
     GatherKeeps, FallbackKeeps, TextOnlyKeeps, CheckFilingsKeeps, RescueKeeps,
     StructuralKeeps, SynthesizeKeeps, DegradeKeeps, StutterKeeps
  DEF Next, Handler
<1>2. QED
  BY InitQuery, <1>1, PTL DEF Spec

\* "The answer is scoped to this firm" (query/routes.py), for every graph, any
\* question and any switch or delete meanwhile.
THEOREM QueryKeepsToTheFirm == Spec => []AnswerIsTheFirms
<1>1. QueryInv => AnswerIsTheFirms
  BY DEF QueryInv, Promises
<1>2. QED
  BY <1>1, QueryInvariant, PTL

\* "never for a firm that HAS filings" (graph.py): no read of the three that
\* fails, and nothing that happens between them, makes up the denial.
THEOREM QueryDeniesNoFilings == Spec => []FilingsNeverDenied
<1>1. QueryInv => FilingsNeverDenied
  BY DEF QueryInv, Promises
<1>2. QED
  BY <1>1, QueryInvariant, PTL

\* "an enriched firm cites its filings" (graph.py), whatever K is and however
\* many chunks the graph gains meanwhile.
THEOREM QueryCitesFilings == Spec => []FilingsAreCited
<1>1. QueryInv => FilingsAreCited
  BY DEF QueryInv, Promises
<1>2. QED
  BY <1>1, QueryInvariant, PTL
===============================================================================
