------------------------------- MODULE Analytics -------------------------------
(***************************************************************************)
(* The validated queries of tools/analytics.py, as functions of a graph:   *)
(* holds maps each fund of the graph to the companies it holds, supplies   *)
(* is a set of edges [src, dst, criticality, component] from a company to  *)
(* its supplier.  A row is the set of companies it names: that is what an  *)
(* answer is scoped by (_analytics_entities).                              *)
(***************************************************************************)
EXTENDS Integers, FiniteSets, Sequences

AnyFund == "any"        \* $fund IS NULL

Funds(holds, fund) == IF fund = AnyFund THEN DOMAIN holds ELSE DOMAIN holds \cap {fund}
Holdings(holds, fund) == UNION {holds[f] : f \in Funds(holds, fund)}

Suppliers(supplies, c) == {e.dst : e \in {x \in supplies : x.src = c}}
\* Companies one or two edges away.
WithinTwo(supplies, c) ==
    Suppliers(supplies, c) \cup UNION {Suppliers(supplies, d) : d \in Suppliers(supplies, c)}

SharedSuppliers(holds, supplies, fund) ==
    LET critical == {e \in supplies : e.criticality = "critical" /\ e.src \in Holdings(holds, fund)}
    IN  {{s} \cup {e.src : e \in {x \in critical : x.dst = s}} : s \in {e.dst : e \in critical}}

\* A chokepoint of a fund is not held by that fund; another fund may hold it.
Chokepoints(holds, supplies, fund) ==
    LET via(choke) == UNION {{h \in holds[f] : choke \in WithinTwo(supplies, h)} :
                               f \in {g \in Funds(holds, fund) : choke \notin holds[g]}}
        nodes == {e.dst : e \in supplies}
    IN  {{choke} \cup via(choke) : choke \in {n \in nodes : via(n) # {}}}

\* exposed and covered: <<company, risk>> pairs, and the risks some section covers.
CoverageGap(holds, exposed, covered, fund) ==
    LET open == {p \in exposed : p[1] \in Holdings(holds, fund) /\ p[2] \notin covered}
    IN  {{p[1] : p \in {x \in open : x[2] = risk}} : risk \in {p[2] : p \in open}}

\* Rows of a fund's concentration name no company: the fund was picked by name.
Concentration(holds, fund) == {{} : c \in Holdings(holds, fund)}

MaxPath == 5
Paths(supplies, a, b, n) ==
    {p \in [1 .. n + 1 -> {a} \cup {e.dst : e \in supplies}] :
        p[1] = a /\ p[n + 1] = b /\ \A i \in 1 .. n : p[i + 1] \in Suppliers(supplies, p[i])}

\* shortestPath returns one of the shortest; the caller may get any of them.
ExposurePaths(supplies, a, b) ==
    IF \A n \in 1 .. MaxPath : Paths(supplies, a, b, n) = {} THEN {}
    ELSE LET n == CHOOSE k \in 1 .. MaxPath :
                    Paths(supplies, a, b, k) # {} /\ \A i \in 1 .. k - 1 : Paths(supplies, a, b, i) = {}
         IN  {{p[i] : i \in DOMAIN p} : p \in Paths(supplies, a, b, n)}

\* serves and formerly: <<person, company>> pairs.
BoardLinks(serves, formerly, company) ==
    {{x[2] : x \in {y \in serves \cup formerly : y[1] = p[1] /\ y[2] # company}} :
        p \in {q \in serves : q[2] = company}}
===============================================================================
