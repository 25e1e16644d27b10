-------------------------------- MODULE MCWebApp --------------------------------
(***************************************************************************)
(* An instance of WebApp: the demo firm and one that may be registered     *)
(* already when it is onboarded.                                           *)
(***************************************************************************)
EXTENDS WebApp

CONSTANTS
    demo, f,
    MaxWork     \* bound

\* The dialog alone may do more.
WorkBound == uses + tally.picks + tally.opens <= MaxWork \/ uses = 0

\* Ids and keys are only ever compared with others of their kind: states that
\* count them from different numbers go on alike.  What was read before does
\* not matter to a state that is excused.
Since(reads, key) == {[r EXCEPT !.key = key - @] : r \in reads}
Ago(ids) == {dialog.streamId - i : i \in ids}

View ==
    <<registry, activeFirm, uses, selectorVars, excused, tally, retried,
      Since(actives, reloadKey), Since(lists, loads),
      IF excused THEN <<>> ELSE <<reloadKey - newest.active, loads - newest.list>>,
      [panel EXCEPT !.since = panel.call - @, !.call = 0],
      {[c EXCEPT !.id = panel.call - @] : c \in calls},
      [dialog EXCEPT !.streamId = 0, !.events = Ago(@)],
      {[s EXCEPT !.id = dialog.streamId - @] : s \in streams},
      Ago(opening.completed), Ago(opening.announced)>>
===============================================================================
