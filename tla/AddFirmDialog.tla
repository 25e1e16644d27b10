----------------------------- MODULE AddFirmDialog -----------------------------
(***************************************************************************)
(* The dialog that onboards a firm (AddFirmModal.tsx): pick a candidate    *)
(* that a search found, and follow the job's event stream (api.ts,         *)
(* streamSSE) until it closes.  Nothing aborts a stream: one that was      *)
(* superseded runs on and its events are dropped by its id.                *)
(*                                                                         *)
(* An event is reduced to the stream it came from; the enrichment's        *)
(* errors, which are not fatal, are progress.                              *)
(***************************************************************************)
EXTENDS Naturals, FiniteSets

CONSTANTS
    Candidate,  \* what a search may return
    MaxPicks, MaxOpens \* bounds

NoFirm == "no firm"

VARIABLES
    dialog,     \* [open, phase, picked, events, error, done, doneRef, streamId, timer]
    streams,    \* [id, firm, at, lost]
    tally,      \* [picks, opens] so far
    opening,    \* history, since the dialog was opened: [completed, announced] stream ids
    retried     \* history: a candidate was picked after one completed

dialogVars == <<dialog, streams, tally, opening, retried>>

DialogInit ==
    /\ dialog = [open |-> FALSE, phase |-> "search", picked |-> NoFirm, events |-> {},
                 error |-> FALSE, done |-> FALSE, doneRef |-> FALSE, streamId |-> 0, timer |-> FALSE]
    /\ streams = {}
    /\ tally = [picks |-> 0, opens |-> 0]
    /\ opening = [completed |-> {}, announced |-> {}]
    /\ retried = FALSE

Onboarding == dialog.open /\ dialog.phase = "onboard"

-------------------------------------------------------------------------------
(* Opening, picking, going back *)

\* The effect of [open]: everything is reset, answers on their way are not.
Open ==
    /\ ~dialog.open /\ tally.opens < MaxOpens
    /\ dialog' = [dialog EXCEPT !.open = TRUE, !.phase = "search", !.picked = NoFirm,
                    !.events = {}, !.error = FALSE, !.done = FALSE, !.doneRef = FALSE,
                    !.streamId = @ + 1, !.timer = FALSE]
    /\ tally' = [tally EXCEPT !.opens = @ + 1]
    /\ opening' = [completed |-> {}, announced |-> {}]
    /\ retried' = FALSE
    /\ UNCHANGED streams

\* The button, the backdrop, Escape or the timer: onClose, then the effect.
Close ==
    /\ dialog.open
    /\ dialog' = [dialog EXCEPT !.open = FALSE, !.streamId = @ + 1, !.timer = FALSE]
    /\ UNCHANGED <<streams, tally, opening, retried>>

TimerFires == dialog.timer /\ Close

\* A candidate that a search found.
Pick ==
    /\ dialog.open /\ dialog.phase = "search" /\ tally.picks < MaxPicks
    /\ tally' = [tally EXCEPT !.picks = @ + 1]
    /\ \E f \in Candidate :
        /\ dialog' = [dialog EXCEPT !.phase = "onboard", !.picked = f, !.events = {},
                        !.error = FALSE, !.done = FALSE, !.streamId = @ + 1]
        /\ streams' = streams \cup {[id |-> dialog.streamId + 1, firm |-> f, at |-> "opening", lost |-> FALSE]}
    /\ retried' = (retried \/ opening.completed # {})
    /\ UNCHANGED opening

\* Offered on an error, and before the first event.
Back ==
    /\ Onboarding
    /\ dialog.error \/ (~dialog.done /\ dialog.events = {})
    /\ dialog' = [dialog EXCEPT !.phase = "search", !.picked = NoFirm, !.events = {},
                    !.error = FALSE, !.done = FALSE, !.streamId = @ + 1, !.timer = FALSE]
    /\ UNCHANGED <<streams, tally, opening, retried>>

-------------------------------------------------------------------------------
(* The stream: opening, then the firm's job before and after it selects the *)
(* firm, and its end.  A response that was cut short is lost; the worker of *)
(* its job goes on, unheard.                                                *)

\* Mutant: an event is shown whatever stream is current.
MineOrNot(s) == dialog.open /\ ~s.lost

Mine(s) == dialog.streamId = s.id /\ ~s.lost

Moves(s, at) == streams' = (streams \ {s}) \cup {[s EXCEPT !.at = at]}

Shows(s) == IF Mine(s) THEN [dialog EXCEPT !.events = @ \cup {s.id}] ELSE dialog

\* job.started; the events between it and the end change nothing else.
Progress(s) ==
    /\ s.at = "opening"
    /\ Moves(s, "running")
    /\ dialog' = Shows(s)
    /\ UNCHANGED <<tally, opening, retried>>

\* The server registers the firm as ready and selects it.
Selects(s) ==
    /\ s.at = "running"
    /\ Moves(s, "selected")
    /\ UNCHANGED <<dialog, tally, opening, retried>>

\* A fatal error ends the job.
Fatal(s) ==
    /\ s.at = "running"
    /\ Moves(s, "finished")
    /\ dialog' = IF Mine(s) THEN [Shows(s) EXCEPT !.error = TRUE] ELSE dialog
    /\ UNCHANGED <<tally, opening, retried>>

\* onDone is called at the first completion of an opening.
Announces(s) == Mine(s) /\ ~dialog.doneRef

Complete(s) ==
    /\ s.at = "selected"
    /\ Moves(s, "finished")
    /\ dialog' = IF Mine(s) THEN [Shows(s) EXCEPT !.doneRef = TRUE] ELSE dialog
    /\ opening' = [completed |-> opening.completed \cup {i \in {s.id} : Mine(s)},
                   announced |-> opening.announced \cup {i \in {s.id} : Announces(s)}]
    /\ UNCHANGED <<tally, retried>>

\* Without a completion the stream was cut short.
Closed(s) ==
    dialog' = IF ~Mine(s) THEN dialog
              ELSE IF dialog.doneRef THEN [dialog EXCEPT !.done = TRUE, !.timer = TRUE]
              ELSE [dialog EXCEPT !.error = TRUE]

Thrown(s) == dialog' = IF Mine(s) THEN [dialog EXCEPT !.error = TRUE] ELSE dialog

\* The worker is done and the response ends.
Ends(s) ==
    /\ s.at = "finished"
    /\ streams' = streams \ {s}
    /\ Closed(s)
    /\ UNCHANGED <<tally, opening, retried>>

\* The request is refused.
Refused(s) ==
    /\ s.at = "opening"
    /\ streams' = streams \ {s}
    /\ Thrown(s)
    /\ UNCHANGED <<tally, opening, retried>>

\* The response breaks, and the reader throws or takes it for the end.
Breaks(s) ==
    /\ ~s.lost
    /\ streams' = (streams \ {s}) \cup {[s EXCEPT !.lost = TRUE]}
    /\ Closed(s) \/ Thrown(s)
    /\ UNCHANGED <<tally, opening, retried>>

DialogStep == Close \/ TimerFires \/ Pick \/ Back

-------------------------------------------------------------------------------
(* Properties *)

\* "invalidates events from a superseded/closed stream", "onDone fires exactly
\* once": what the dialog lists comes from the job of the firm it names, after
\* any number of picks, returns and reopenings.  Each job that completed in
\* its sight is announced, only such a job makes it done and only a done
\* dialog is about to close by itself; unless a candidate was picked after
\* one completed.
ShowsOwnJob ==
    /\ Onboarding =>
        /\ dialog.events \subseteq {dialog.streamId}
        /\ \A s \in streams : Mine(s) => s.firm = dialog.picked
    /\ dialog.timer => dialog.open /\ dialog.done
    /\ ~retried =>
        /\ opening.announced = opening.completed
        /\ Cardinality(opening.announced) <= 1
        /\ dialog.open /\ dialog.done => dialog.streamId \in opening.completed
===============================================================================
