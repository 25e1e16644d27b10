--------------------------------- MODULE WebApp ---------------------------------
(***************************************************************************)
(* The shell and the dialog together: a job selects its firm on the        *)
(* server, and its completion makes the shell read the registry again      *)
(* (App.tsx, onDone).                                                      *)
(***************************************************************************)
EXTENDS WebShell, AddFirmDialog

\* A name that was onboarded is one the shell may show.
ASSUME CandidatesAreFirms == Candidate \subseteq Firm

vars == <<shellVars, dialogVars>>

Init == ShellInit /\ DialogInit

\* The selector's menu opens the dialog, once it has a list.
OpenFromMenu == list # NoList /\ Open

JobSelects(s) ==
    /\ Selects(s)
    /\ registry' = [firms |-> registry.firms \cup {s.firm}, selected |-> s.firm]
    /\ UNCHANGED <<activeFirm, uses, panelVars, selectorVars, readVars>>

\* The shell is told of a completion the first time; any other goes unnoticed.
JobCompletes(s) ==
    /\ Complete(s)
    /\ IF Announces(s) THEN Reload(activeFirm) /\ UNCHANGED excused
       ELSE /\ excused' = TRUE
            /\ UNCHANGED <<reloadKey, actives, loads, lists, panelVars>>
    /\ UNCHANGED <<registry, activeFirm, uses, selectorVars, newest>>

JobGoesOn(s) == (Progress(s) \/ Fatal(s) \/ Ends(s)) /\ UNCHANGED shellVars

Job(s) == JobSelects(s) \/ JobCompletes(s) \/ JobGoesOn(s)

Next ==
    \/ ShellNext /\ UNCHANGED dialogVars
    \/ (OpenFromMenu \/ DialogStep \/ \E s \in streams : Refused(s) \/ Breaks(s)) /\ UNCHANGED shellVars
    \/ \E s \in streams : Job(s)

Spec == Init /\ [][Next]_vars

-------------------------------------------------------------------------------
(* Properties *)

\* ScopeFollowsServer of the whole: no job has selected its firm and not yet
\* ended, and no completion went unnoticed.
AppFollowsServer ==
    (\A s \in streams : s.at # "selected") => ScopeFollowsServer
===============================================================================
