---------------------------- MODULE MCQueryPipeline ----------------------------
(* Two firms with a fund each, income to come; the first one's fund holds b *)
(* and the other firm.  b may turn out to be a, of which c is a supplier.   *)
EXTENDS QueryPipeline, TLC

CONSTANTS demo, other, growth, focus, income, a, b, c, prospectus, filing, memo

MCManagerOf == growth :> demo @@ focus :> other @@ income :> other
MCEdge(x, y, how) == [src |-> x, dst |-> y, criticality |-> how]
MCFirstGraph ==
    [nodes |-> Company,
     managed |-> growth :> demo @@ focus :> other,
     holds |-> growth :> {b, other} @@ focus :> {},
     mentions |-> <<>>,
     supplies |-> {MCEdge(a, c, "critical"), MCEdge(b, c, "named")},
     exposed |-> {<<other, "taiwan">>},
     serves |-> {<<"chair", a>>, <<"chair", other>>},
     formerly |-> {<<"chair", c>>}]
MCMerges == {<<b, a>>}
MCMentions == prospectus :> {} @@ filing :> {b} @@ memo :> {a, other}
MCStamp == prospectus :> other @@ filing :> None @@ memo :> None
MCSensitivity == prospectus :> "public" @@ filing :> "public" @@ memo :> "internal"
MCNearest == <<filing, prospectus, memo>>
MCPlain == {<<"none", <<>>>>, <<"none", <<a>>>>}
MCToolWordings ==
    {<<"shared_suppliers", <<>>>>, <<"second_order_chokepoints", <<>>>>, <<"coverage_gap", <<b>>>>,
     <<"concentration_summary", <<>>>>, <<"board_and_alumni_links", <<a>>>>,
     <<"exposure_path", <<b, c>>>>}
MCRequest(w, mode, wall, firm) == [tool |-> w[1], asks |-> w[2], mode |-> mode, wall |-> wall, firm |-> firm]
\* A tool's words take the modes apart only where their results differ, and
\* scopes other than the active firm take the same paths.
MCQuestions ==
    {MCRequest(w, mode, FALSE, None) : w \in MCToolWordings, mode \in {"graph", "side_by_side"}}
    \cup {MCRequest(<<"exposure_path", <<b, c>>>>, "graph", TRUE, None)}
    \cup {MCRequest(w, mode, wall, None) : w \in MCPlain, wall \in BOOLEAN,
             mode \in {"graph", "side_by_side", "graph_only", "vector_only"}}
    \cup {MCRequest(<<"exposure_path", <<a>>>>, "graph", FALSE, None)}
    \cup {MCRequest(w, "side_by_side", FALSE, firm) : w \in MCPlain, firm \in {AllScope, other}}
===============================================================================
