--------------------------- MODULE ActiveSelection ---------------------------
(***************************************************************************)
(* What the firm selector promises its users, without tables, flags or     *)
(* steps: a set of registered firms, one of which is selected as soon as   *)
(* there is any.  Each operation is one step.  FirmRegistry implements it  *)
(* when calls do not overlap.                                              *)
(***************************************************************************)
CONSTANT FirmId

VARIABLES
    known,      \* the registered firms
    selected    \* the selected firm, as a set of at most one

vars == <<known, selected>>

Init == known = {} /\ selected = {}

\* Registering selects the firm on demand, or when nothing is selected yet.
Register(f) ==
    /\ known' = known \cup {f}
    /\ selected' \in {{f}, IF selected = {} THEN {f} ELSE selected}

Select(f) ==
    /\ f \in known
    /\ selected' = {f}
    /\ UNCHANGED known

\* Removing the selected firm selects another as long as there is another.
Remove(f) ==
    /\ f \in known
    /\ known' = known \ {f}
    /\ \/ f \notin selected /\ UNCHANGED selected
       \/ f \in selected /\ known' = {} /\ selected' = {}
       \/ f \in selected /\ \E g \in known' : selected' = {g}

Next == \E f \in FirmId : Register(f) \/ Select(f) \/ Remove(f)

Spec == Init /\ [][Next]_vars
==============================================================================
