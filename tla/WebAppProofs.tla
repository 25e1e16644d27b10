------------------------------ MODULE WebAppProofs ------------------------------
(***************************************************************************)
(* Theorems about the web application, for every set of firms and          *)
(* candidates: what the onboarding dialog shows, announces and closes on   *)
(* is its own job's, for any number of openings, picks and streams; what a *)
(* panel shows is the selected firm's; and a selection that has settled is *)
(* the server's.                                                           *)
(***************************************************************************)
EXTENDS WebApp, FiniteSetTheorems, TLAPS

Stage == {"opening", "running", "selected", "finished"}

Dialogs == [open : BOOLEAN, phase : {"search", "onboard"},
            picked : Candidate \cup {NoFirm}, events : SUBSET Nat, error : BOOLEAN,
            done : BOOLEAN, doneRef : BOOLEAN, streamId : Nat, timer : BOOLEAN]
Streams == [id : Nat, firm : Candidate, at : Stage, lost : BOOLEAN]

DialogType ==
    /\ dialog \in Dialogs
    /\ streams \subseteq Streams
    /\ opening \in [completed : SUBSET Nat, announced : SUBSET Nat]
    /\ retried \in BOOLEAN

\* A stream's id is its own, and never one that the dialog has still to give.
Fresh ==
    /\ \A s \in streams : s.id <= dialog.streamId
    /\ \A s, t \in streams : s.id = t.id => s = t

\* The current id is a stream's only while the dialog follows that stream.
Followed == \A s \in streams : s.id = dialog.streamId => Onboarding /\ s.firm = dialog.picked

Listed == Onboarding => dialog.events \subseteq {dialog.streamId}

Timed == dialog.timer => Onboarding /\ dialog.done

\* Until a candidate is picked again, doneRef tells that the one stream this
\* opening has followed to its completion is the current one.
Announced ==
    ~retried =>
        /\ opening.announced = opening.completed
        /\ dialog.doneRef => opening.completed # {}
        /\ opening.completed # {} =>
            /\ dialog.doneRef
            /\ \E i \in opening.completed : opening.completed = {i} /\ (Onboarding => i = dialog.streamId)
            /\ \A s \in streams : s.id = dialog.streamId => s.at = "finished"
        /\ dialog.open /\ dialog.done => Onboarding /\ dialog.doneRef

DialogInv == DialogType /\ Fresh /\ Followed /\ Listed /\ Timed /\ Announced

-------------------------------------------------------------------------------
(* Opening, picking, going back *)

LEMMA InitDialog == Init => DialogInv
<1> SUFFICES ASSUME DialogInit PROVE DialogInv
  BY DEF Init
<1>1. dialog \in Dialogs
  BY DEF DialogInit, Dialogs
<1>2. DialogType
  BY <1>1 DEF DialogInit, DialogType
<1>3. /\ ~dialog.open /\ ~dialog.doneRef /\ ~dialog.timer
      /\ streams = {} /\ opening.completed = {} /\ opening.announced = {}
  BY DEF DialogInit
<1> QED BY <1>2, <1>3 DEF DialogInv, Fresh, Followed, Listed, Timed, Announced, Onboarding

\* A new id without a stream leaves no stream to follow.
LEMMA OpenKeeps == ASSUME DialogInv, Open PROVE DialogInv'
<1>1. DialogType'
  <2> DEFINE n == dialog.streamId + 1
  <2>1. dialog \in Dialogs /\ n \in Nat
    BY DEF DialogInv, DialogType, Dialogs
  <2>2. dialog' = [dialog EXCEPT !.open = TRUE, !.phase = "search", !.picked = NoFirm,
                    !.events = {}, !.error = FALSE, !.done = FALSE, !.doneRef = FALSE,
                    !.streamId = n, !.timer = FALSE]
    BY DEF Open
  <2> HIDE DEF n
  <2>3. dialog' \in Dialogs
    BY <2>1, <2>2 DEF Dialogs
  <2> QED BY <2>3 DEF DialogInv, DialogType, Open
<1>2. /\ dialog'.streamId = dialog.streamId + 1 /\ dialog'.phase = "search"
      /\ ~dialog'.doneRef /\ ~dialog'.done /\ ~dialog'.timer
      /\ streams' = streams /\ opening'.completed = {} /\ opening'.announced = {}
  BY DEF DialogInv, DialogType, Dialogs, Open
<1>3. Fresh' /\ Followed'
  BY <1>2 DEF DialogInv, DialogType, Dialogs, Streams, Fresh, Followed
<1>4. Listed' /\ Timed' /\ Announced'
  BY <1>2 DEF Listed, Timed, Announced, Onboarding
<1> QED BY <1>1, <1>3, <1>4 DEF DialogInv

LEMMA CloseKeeps == ASSUME DialogInv, Close PROVE DialogInv'
<1>1. DialogType'
  <2> DEFINE n == dialog.streamId + 1
  <2>1. dialog \in Dialogs /\ n \in Nat
    BY DEF DialogInv, DialogType, Dialogs
  <2>2. dialog' = [dialog EXCEPT !.open = FALSE, !.streamId = n, !.timer = FALSE]
    BY DEF Close
  <2> HIDE DEF n
  <2>3. dialog' \in Dialogs
    BY <2>1, <2>2 DEF Dialogs
  <2> QED BY <2>3 DEF DialogInv, DialogType, Close
<1>2. /\ dialog'.streamId = dialog.streamId + 1 /\ ~dialog'.open
      /\ dialog'.doneRef = dialog.doneRef /\ ~dialog'.timer
      /\ streams' = streams /\ opening' = opening /\ retried' = retried
  BY DEF DialogInv, DialogType, Dialogs, Close
<1>3. Fresh' /\ Followed'
  BY <1>2 DEF DialogInv, DialogType, Dialogs, Streams, Fresh, Followed
<1>4. Listed' /\ Timed'
  BY <1>2 DEF Listed, Timed, Onboarding
<1>5. \A s \in streams' : s.id # dialog'.streamId
  BY <1>2 DEF DialogInv, DialogType, Dialogs, Streams, Fresh
<1>6. Announced'
  BY <1>2, <1>5 DEF DialogInv, Announced, Onboarding
<1> QED BY <1>1, <1>3, <1>4, <1>6 DEF DialogInv

LEMMA BackKeeps == ASSUME DialogInv, Back PROVE DialogInv'
<1>1. DialogType'
  <2> DEFINE n == dialog.streamId + 1
  <2>1. dialog \in Dialogs /\ n \in Nat
    BY DEF DialogInv, DialogType, Dialogs
  <2>2. dialog' = [dialog EXCEPT !.phase = "search", !.picked = NoFirm, !.events = {},
                    !.error = FALSE, !.done = FALSE, !.streamId = n, !.timer = FALSE]
    BY DEF Back
  <2> HIDE DEF n
  <2>3. dialog' \in Dialogs
    BY <2>1, <2>2 DEF Dialogs
  <2> QED BY <2>3 DEF DialogInv, DialogType, Back
<1>2. /\ dialog'.streamId = dialog.streamId + 1 /\ dialog'.phase = "search"
      /\ dialog'.doneRef = dialog.doneRef /\ ~dialog'.done /\ ~dialog'.timer
      /\ streams' = streams /\ opening' = opening /\ retried' = retried
  BY DEF DialogInv, DialogType, Dialogs, Back
<1>3. Fresh' /\ Followed'
  BY <1>2 DEF DialogInv, DialogType, Dialogs, Streams, Fresh, Followed
<1>4. Listed' /\ Timed'
  BY <1>2 DEF Listed, Timed, Onboarding
<1>5. \A s \in streams' : s.id # dialog'.streamId
  BY <1>2 DEF DialogInv, DialogType, Dialogs, Streams, Fresh
<1>6. Announced'
  BY <1>2, <1>5 DEF DialogInv, Announced, Onboarding
<1> QED BY <1>1, <1>3, <1>4, <1>6 DEF DialogInv

\* The new stream gets the new id and is the one followed; a pick after a
\* completion is what the properties except.
LEMMA PickKeeps == ASSUME DialogInv, Pick PROVE DialogInv'
<1>1. PICK f \in Candidate :
        /\ dialog' = [dialog EXCEPT !.phase = "onboard", !.picked = f, !.events = {},
                        !.error = FALSE, !.done = FALSE, !.streamId = @ + 1]
        /\ streams' = streams \cup {[id |-> dialog.streamId + 1, firm |-> f, at |-> "opening", lost |-> FALSE]}
  BY DEF Pick
<1>2. /\ opening' = opening /\ retried' = (retried \/ opening.completed # {})
      /\ dialog.open /\ dialog.phase = "search"
  BY DEF Pick
<1> DEFINE t == [id |-> dialog.streamId + 1, firm |-> f, at |-> "opening", lost |-> FALSE]
<1>3. DialogType'
  <2> DEFINE n == dialog.streamId + 1
  <2>4. dialog \in Dialogs /\ n \in Nat
    BY DEF DialogInv, DialogType, Dialogs
  <2>5. dialog' = [dialog EXCEPT !.phase = "onboard", !.picked = f, !.events = {},
                    !.error = FALSE, !.done = FALSE, !.streamId = n]
    BY <1>1
  <2> HIDE DEF n
  <2>1. dialog' \in Dialogs
    BY <2>4, <2>5 DEF Dialogs
  <2>2. t \in Streams
    BY DEF DialogInv, DialogType, Dialogs, Streams, Stage
  <2>3. streams' \subseteq Streams
    BY <1>1, <2>2 DEF DialogInv, DialogType
  <2> QED BY <1>2, <2>1, <2>3 DEF DialogInv, DialogType
<1>4. /\ dialog'.streamId = dialog.streamId + 1 /\ dialog'.phase = "onboard" /\ dialog'.open
      /\ dialog'.picked = f /\ dialog'.events = {} /\ dialog'.doneRef = dialog.doneRef
      /\ ~dialog'.done /\ dialog'.timer = dialog.timer
  BY <1>1, <1>2 DEF DialogInv, DialogType, Dialogs
<1>5. ~dialog'.timer
  BY <1>2, <1>4 DEF DialogInv, Timed, Onboarding
<1>6. /\ dialog.streamId \in Nat
      /\ \A s \in streams : s.id \in Nat /\ s.id <= dialog.streamId
  BY DEF DialogInv, DialogType, Dialogs, Streams, Fresh
<1>7. t.id = dialog'.streamId /\ t.firm = f /\ streams' = streams \cup {t}
  BY <1>1, <1>4
<1> HIDE DEF t
<1>a. \A s \in streams : s.id < dialog'.streamId
  BY <1>4, <1>6
<1>b. Fresh' /\ Followed'
  BY <1>4, <1>6, <1>7, <1>a DEF DialogInv, Fresh, Followed, Onboarding
<1>8. Listed' /\ Timed'
  BY <1>4, <1>5 DEF Listed, Timed
<1>9. Announced'
  BY <1>2, <1>4 DEF DialogInv, Announced
<1> QED BY <1>3, <1>8, <1>9, <1>b DEF DialogInv

-------------------------------------------------------------------------------
(* The streams *)

\* What a stream's step other than a completion may do: streams go on under
\* their id or end, and the dialog changes its list, its error, and to done
\* only when it follows a stream and has seen it complete.
StreamsGoOn ==
    /\ \A t \in streams' : \E s \in streams :
        t.id = s.id /\ t.firm = s.firm /\ (s.at = "finished" => t.at = "finished")
    /\ \A t, u \in streams' : t.id = u.id => t = u

Heard ==
    /\ dialog'.open = dialog.open /\ dialog'.phase = dialog.phase
    /\ dialog'.picked = dialog.picked /\ dialog'.streamId = dialog.streamId
    /\ dialog'.doneRef = dialog.doneRef
    /\ dialog'.events \subseteq dialog.events \cup {dialog.streamId}
    /\ \/ dialog'.done = dialog.done /\ dialog'.timer = dialog.timer
       \/ Onboarding /\ dialog.doneRef /\ dialog'.done /\ dialog'.timer

LEMMA HearingKeeps ==
    ASSUME DialogInv, DialogType', StreamsGoOn, Heard, UNCHANGED <<opening, retried>>
    PROVE  DialogInv'
<1>1. Onboarding' <=> Onboarding
  BY DEF Heard, Onboarding
<1>2. Fresh'
  BY DEF DialogInv, Fresh, StreamsGoOn, Heard
<1>3. Followed'
  BY <1>1 DEF DialogInv, Followed, StreamsGoOn, Heard
<1>4. Listed' /\ Timed'
  BY <1>1 DEF DialogInv, Listed, Timed, Heard
<1>5. \A t \in streams' : t.id = dialog'.streamId =>
        \E s \in streams : s.id = dialog.streamId /\ (s.at = "finished" => t.at = "finished")
  BY DEF StreamsGoOn, Heard
<1>6. ASSUME ~retried' PROVE dialog'.open /\ dialog'.done => Onboarding' /\ dialog'.doneRef
  BY <1>1, <1>6 DEF DialogInv, Announced, Heard
<1>7. ASSUME ~retried', opening'.completed # {}
      PROVE  \A t \in streams' : t.id = dialog'.streamId => t.at = "finished"
  BY <1>5, <1>7 DEF DialogInv, Announced
<1>8. Announced'
  BY <1>1, <1>6, <1>7 DEF DialogInv, Announced, Heard
<1> QED BY <1>2, <1>3, <1>4, <1>8 DEF DialogInv

\* A stream that moves on keeps its id and its firm.
LEMMA MovesGoOn ==
    ASSUME DialogInv, NEW s \in streams, NEW at \in Stage, s.at # "finished", Moves(s, at)
    PROVE  /\ StreamsGoOn
           /\ streams' \subseteq Streams
<1> DEFINE t == [s EXCEPT !.at = at]
<1>1. s \in Streams
  BY DEF DialogInv, DialogType
<1>2. /\ t \in Streams
      /\ t.id = s.id /\ t.firm = s.firm
  BY <1>1 DEF Streams
<1>3. streams' = (streams \ {s}) \cup {t}
  BY DEF Moves
<1> HIDE DEF t
<1> QED BY <1>2, <1>3 DEF DialogInv, DialogType, Fresh, StreamsGoOn

LEMMA StreamEnds ==
    ASSUME DialogInv, NEW s \in streams, streams' = streams \ {s}
    PROVE  /\ StreamsGoOn
           /\ streams' \subseteq Streams
  BY DEF DialogInv, DialogType, Fresh, StreamsGoOn

\* What the dialog does on an event, on a fatal one, and at a stream's end.
LEMMA Hearing ==
    ASSUME DialogInv, NEW s \in streams,
           \/ dialog' = dialog
           \/ dialog' = Shows(s)
           \/ Mine(s) /\ dialog' = [Shows(s) EXCEPT !.error = TRUE]
           \/ Closed(s) \/ Thrown(s)
    PROVE  /\ Heard
           /\ dialog' \in Dialogs
<1> USE DEF DialogInv, DialogType, Dialogs, Streams
<1>1. Mine(s) => Onboarding /\ s.id = dialog.streamId
  BY DEF Mine, Followed
<1>2. CASE dialog' = dialog
  BY <1>2 DEF Heard
<1>3. CASE dialog' = Shows(s)
  BY <1>1, <1>3 DEF Shows, Heard
<1>4. CASE Mine(s) /\ dialog' = [Shows(s) EXCEPT !.error = TRUE]
  BY <1>1, <1>4 DEF Shows, Heard
<1>5. CASE Closed(s)
  BY <1>1, <1>5 DEF Closed, Heard
<1>6. CASE Thrown(s)
  BY <1>1, <1>6 DEF Thrown, Heard
<1> QED BY <1>2, <1>3, <1>4, <1>5, <1>6

LEMMA StreamKeeps ==
    ASSUME DialogInv, NEW s \in streams,
           Progress(s) \/ Selects(s) \/ Fatal(s) \/ Ends(s) \/ Refused(s) \/ Breaks(s)
    PROVE  DialogInv'
<1>1. UNCHANGED <<opening, retried>>
  BY DEF Progress, Selects, Fatal, Ends, Refused, Breaks
<1>2. \/ dialog' = dialog
      \/ dialog' = Shows(s)
      \/ Mine(s) /\ dialog' = [Shows(s) EXCEPT !.error = TRUE]
      \/ Closed(s) \/ Thrown(s)
  BY DEF Progress, Selects, Fatal, Ends, Refused, Breaks
<1>3. CASE Progress(s) \/ Selects(s) \/ Fatal(s)
  <2>1. \E at \in Stage : s.at # "finished" /\ Moves(s, at)
    BY <1>3 DEF Progress, Selects, Fatal, Stage
  <2>2. /\ StreamsGoOn
        /\ streams' \subseteq Streams
    BY <2>1, MovesGoOn
  <2> QED BY <1>1, <1>2, <2>2, Hearing, HearingKeeps DEF DialogInv, DialogType
<1>4. CASE Ends(s) \/ Refused(s)
  <2>1. streams' = streams \ {s}
    BY <1>4 DEF Ends, Refused
  <2>2. /\ StreamsGoOn
        /\ streams' \subseteq Streams
    BY <2>1, StreamEnds
  <2> QED BY <1>1, <1>2, <2>2, Hearing, HearingKeeps DEF DialogInv, DialogType
<1>5. CASE Breaks(s)
  <2> DEFINE t == [s EXCEPT !.lost = TRUE]
  <2>1. s \in Streams
    BY DEF DialogInv, DialogType
  <2>2. /\ t \in Streams
        /\ t.id = s.id /\ t.firm = s.firm /\ t.at = s.at
    BY <2>1 DEF Streams
  <2>3. streams' = (streams \ {s}) \cup {t}
    BY <1>5 DEF Breaks
  <2> HIDE DEF t
  <2>4. /\ StreamsGoOn
        /\ streams' \subseteq Streams
    BY <2>2, <2>3 DEF DialogInv, DialogType, Fresh, StreamsGoOn
  <2> QED BY <1>1, <1>2, <2>4, Hearing, HearingKeeps DEF DialogInv, DialogType
<1> QED BY <1>3, <1>4, <1>5

\* The first completion that an opening follows is announced; a second one
\* is of a stream picked later.
LEMMA CompleteKeeps == ASSUME DialogInv, NEW s \in streams, Complete(s) PROVE DialogInv'
<1>1. /\ StreamsGoOn
      /\ streams' \subseteq Streams
  BY MovesGoOn DEF Complete, Stage
<1>2. CASE ~Mine(s)
  <2>1. dialog' = dialog /\ retried' = retried
    BY <1>2 DEF Complete
  <2>2. opening'.completed = opening.completed /\ opening'.announced = opening.announced
    BY <1>2 DEF Complete, Announces
  <2>3. opening' \in [completed : SUBSET Nat, announced : SUBSET Nat]
    BY <2>2 DEF Complete, DialogInv, DialogType
  <2>4. opening' = opening
    BY <2>2, <2>3 DEF DialogInv, DialogType
  <2> QED BY <1>1, <2>1, <2>3, <2>4, Hearing, HearingKeeps DEF DialogInv, DialogType
<1>3. CASE Mine(s)
  <2>1. Onboarding /\ s.id = dialog.streamId /\ s.id \in Nat
    BY <1>3 DEF DialogInv, DialogType, Streams, Followed, Mine
  <2>2. /\ dialog \in Dialogs
        /\ dialog' = [dialog EXCEPT !.events = @ \cup {s.id}, !.doneRef = TRUE]
    BY <1>3 DEF Complete, Shows, DialogInv, DialogType, Dialogs
  <2>3. /\ dialog' \in Dialogs
        /\ dialog'.open = dialog.open /\ dialog'.phase = dialog.phase
        /\ dialog'.picked = dialog.picked /\ dialog'.streamId = dialog.streamId
        /\ dialog'.events = dialog.events \cup {s.id} /\ dialog'.doneRef
        /\ dialog'.done = dialog.done /\ dialog'.timer = dialog.timer
    BY <2>1, <2>2 DEF Dialogs
  <2>4. /\ opening'.completed = opening.completed \cup {s.id}
        /\ opening'.announced = opening.announced
                \cup {i \in {s.id} : Announces(s)}
        /\ opening' \in [completed : SUBSET Nat, announced : SUBSET Nat]
        /\ retried' = retried
    BY <1>3, <2>1 DEF Complete, DialogInv, DialogType
  <2>5. DialogType'
    BY <1>1, <2>3, <2>4 DEF DialogInv, DialogType
  <2>6. Fresh' /\ Followed' /\ Listed' /\ Timed'
    BY <1>1, <2>1, <2>3 DEF DialogInv, Fresh, Followed, Listed, Timed, Onboarding, StreamsGoOn
  <2>7. ASSUME ~retried PROVE opening.completed = {} /\ ~dialog.doneRef
    BY <2>1, <2>7 DEF Complete, DialogInv, Announced
  <2>8. ASSUME ~retried
        PROVE  opening'.completed = {s.id} /\ opening'.announced = {s.id}
    BY <1>3, <2>4, <2>7, <2>8 DEF DialogInv, Announced, Announces
  <2>9. \A t \in streams' : t.id = dialog'.streamId => t.at = "finished"
    <3> DEFINE t == [s EXCEPT !.at = "finished"]
    <3>1. s \in Streams
      BY DEF DialogInv, DialogType
    <3>2. t.id = s.id /\ t.at = "finished"
      BY <3>1 DEF Streams
    <3>3. t \in streams'
      BY DEF Complete, Moves
    <3> HIDE DEF t
    <3> QED BY <1>1, <2>1, <2>3, <3>2, <3>3 DEF StreamsGoOn
  <2>10. Onboarding'
    BY <2>1, <2>3 DEF Onboarding
  <2>11. Announced'
    BY <2>1, <2>3, <2>4, <2>8, <2>9, <2>10 DEF Announced
  <2> QED BY <2>5, <2>6, <2>11 DEF DialogInv
<1> QED BY <1>2, <1>3

-------------------------------------------------------------------------------
(* The application *)

LEMMA StutterKeeps == ASSUME DialogInv, UNCHANGED dialogVars PROVE DialogInv'
  BY DEF dialogVars, DialogInv, DialogType, Fresh, Followed, Listed, Timed, Announced, Onboarding

LEMMA NextKeepsDialog == ASSUME DialogInv, [Next]_vars PROVE DialogInv'
<1>1. CASE UNCHANGED dialogVars
  BY <1>1, StutterKeeps
<1>2. CASE OpenFromMenu \/ DialogStep
  BY <1>2, OpenKeeps, CloseKeeps, PickKeeps, BackKeeps DEF OpenFromMenu, DialogStep, TimerFires
<1>3. ASSUME NEW s \in streams, Refused(s) \/ Breaks(s) PROVE DialogInv'
  BY <1>3, StreamKeeps
<1>4. ASSUME NEW s \in streams, Job(s) PROVE DialogInv'
  BY <1>4, StreamKeeps, CompleteKeeps DEF Job, JobSelects, JobCompletes, JobGoesOn
<1> QED BY <1>1, <1>2, <1>3, <1>4 DEF Next, vars

\* The ids of streams are their own, and doneRef, the done state and the timer
\* go together with the stream that is followed.
THEOREM DialogInvariant == Spec => []DialogInv
<1>1. Init => DialogInv
  BY InitDialog
<1>2. DialogInv /\ [Next]_vars => DialogInv'
  BY NextKeepsDialog
<1> QED BY <1>1, <1>2, PTL DEF Spec

\* The dialog shows, announces and closes on its own job (AddFirmModal.tsx),
\* for any number of openings, picks and streams that end, fail or break in
\* any order.
THEOREM DialogShowsOwnJob == Spec => []ShowsOwnJob
<1>1. DialogInv => ShowsOwnJob
  <2> SUFFICES ASSUME DialogInv PROVE ShowsOwnJob
    OBVIOUS
  <2>1. Onboarding =>
            /\ dialog.events \subseteq {dialog.streamId}
            /\ \A s \in streams : Mine(s) => s.firm = dialog.picked
    BY DEF DialogInv, Listed, Followed, Mine
  <2>2. dialog.timer => dialog.open /\ dialog.done
    BY DEF DialogInv, Timed, Onboarding
  <2>3. ASSUME ~retried
        PROVE  opening.announced = {} \/ \E i \in Nat : opening.announced = {i}
    BY <2>3 DEF DialogInv, DialogType, Announced
  <2>4. ASSUME ~retried PROVE Cardinality(opening.announced) <= 1
    <3>1. Cardinality({}) = 0 /\ \A i \in Nat : Cardinality({i}) = 1
      BY FS_EmptySet, FS_Singleton
    <3> QED BY <2>3, <2>4, <3>1
  <2>5. ASSUME ~retried, dialog.open /\ dialog.done
        PROVE  dialog.streamId \in opening.completed
    BY <2>5 DEF DialogInv, Announced
  <2>6. ~retried => opening.announced = opening.completed
    BY DEF DialogInv, Announced
  <2> QED BY <2>1, <2>2, <2>4, <2>5, <2>6 DEF ShowsOwnJob
<1> QED BY <1>1, DialogInvariant, PTL

-------------------------------------------------------------------------------
(* The shell *)

RegistryShape ==
    /\ registry = [firms |-> registry.firms, selected |-> registry.selected]
    /\ registry.firms \subseteq Firm

PanelShape ==
    /\ panel = [kind |-> panel.kind, firm |-> panel.firm, since |-> panel.since, call |-> panel.call,
                shown |-> panel.shown, asked |-> panel.asked, late |-> panel.late]
    /\ panel.call \in Nat /\ panel.since \in Nat /\ panel.since <= panel.call + 1

SelectorShape ==
    /\ list = [firms |-> list.firms, selected |-> list.selected, live |-> list.live]
    /\ list.firms \subseteq Firm
    /\ busy = [firm |-> busy.firm, answer |-> busy.answer] /\ (busy.answer = Waiting => busy.firm \in Firm)

\* A read has a key of its own, none later than top.
ReadsShape(reads, top) ==
    /\ \A r \in reads :
        /\ r = [key |-> r.key, answer |-> r.answer] /\ r.key \in Nat /\ r.key <= top
        /\ r.answer.firms \subseteq Firm
    /\ \A q, r \in reads : q.key = r.key => q = r

ReadShape ==
    /\ reloadKey \in Nat /\ excused \in BOOLEAN
    /\ newest = [active |-> newest.active, list |-> newest.list]
    /\ newest.active \in Nat /\ newest.active <= reloadKey
    /\ loads \in Nat /\ newest.list \in Nat /\ newest.list <= loads
    /\ ReadsShape(actives, reloadKey) /\ ReadsShape(lists, loads)

\* A call made since the panel was mounted is of its kind and for a firm that
\* was asked for, the last call for the panel's.
CallOf(c, p) ==
    /\ c = Call(c.id, c.kind, c.firm) /\ c.id \in Nat /\ c.id <= p.call
    /\ c.id >= p.since => c.kind = p.kind /\ c.firm \in p.asked
    /\ c.id = p.call /\ p.since <= p.call => c.firm = p.firm

PanelInv ==
    /\ \A c \in calls : CallOf(c, panel)
    /\ panel.kind # "chat" => panel.since <= panel.call
    /\ PanelKeepsToItsFirm

\* The shell has been told of every selection that was made.
Settled == busy.answer \in {None, Waiting} /\ \A s \in streams : s.at # "selected"

\* The newest read will tell the registry's selection, or has.
Telling(reads, top, reg) == \E r \in reads : r.key = top /\ r.answer \in {Unread, reg, Fixture}
Told(reads, top, key) == key = top /\ \A r \in reads : r.key # top

ActiveFollows ==
    \/ Telling(actives, reloadKey, registry)
    \/ Told(actives, reloadKey, newest.active) /\ activeFirm \in {registry.selected, AllData}

ListFollows ==
    \/ Telling(lists, loads, registry)
    \/ Told(lists, loads, newest.list) /\ list.selected = registry.selected

FollowInv == Settled /\ ~excused => ActiveFollows /\ ListFollows

ShellInv ==
    RegistryShape /\ PanelShape /\ SelectorShape /\ ReadShape /\ PanelInv /\ FollowInv

-------------------------------------------------------------------------------
(* The panel *)

\* A call that has just been made is not answered: whatever was shown may be.
LEMMA AsksKeeps ==
    ASSUME PanelShape, PanelInv, NEW kind, NEW since \in Nat, NEW firm, NEW shown, NEW asked,
           Asks(kind, since, firm, shown, asked), kind \in ByFirm => firm = activeFirm',
           \/ since = panel.call + 1 /\ shown = None /\ asked = {}
           \/ since = panel.since /\ since <= panel.call + 1 /\ kind = panel.kind
              /\ shown = panel.shown /\ asked = panel.asked
    PROVE  PanelShape' /\ PanelInv'
<1> DEFINE c == Call(panel.call + 1, kind, firm)
           more == asked \cup {firm}
<1>1. /\ panel' = [kind |-> kind, firm |-> firm, since |-> since, call |-> panel.call + 1,
                   shown |-> shown, asked |-> more, late |-> FALSE]
      /\ calls' = calls \cup {c}
  BY DEF Asks
<1>2. /\ panel.call \in Nat
      /\ panel'.kind = kind /\ panel'.firm = firm /\ panel'.since = since
      /\ panel'.call = panel.call + 1 /\ panel'.shown = shown /\ panel'.asked = more
  BY <1>1 DEF PanelShape
<1>3. PanelShape'
  <2>1. panel' = [kind |-> panel'.kind, firm |-> panel'.firm, since |-> panel'.since,
                  call |-> panel'.call, shown |-> panel'.shown, asked |-> panel'.asked,
                  late |-> panel'.late]
    BY <1>1
  <2>2. panel'.call \in Nat /\ panel'.since \in Nat /\ panel'.since <= panel'.call + 1
    BY <1>2
  <2>3. QED
    BY <2>1, <2>2 DEF PanelShape
<1>4. c.id = panel.call + 1 /\ c.kind = kind /\ c.firm = firm /\ c = Call(c.id, c.kind, c.firm)
  BY DEF Call
<1>5. firm \in more /\ asked \subseteq more
  OBVIOUS
<1> HIDE DEF c, more
<1>6. since <= panel'.call
  BY <1>2
<1>7. ASSUME NEW d \in calls' PROVE CallOf(d, panel')
  <2>1. CASE d = c
    BY <1>2, <1>4, <1>5, <2>1 DEF CallOf
  <2>2. CASE d \in calls
    <3>1. /\ d = Call(d.id, d.kind, d.firm) /\ d.id \in Nat /\ d.id <= panel.call
          /\ d.id >= panel.since => d.kind = panel.kind /\ d.firm \in panel.asked
      BY <2>2 DEF PanelInv, CallOf
    <3>2. d.id >= since => d.kind = kind /\ d.firm \in more
      BY <1>2, <1>5, <3>1
    <3>3. d.id <= panel'.call /\ d.id # panel'.call
      BY <1>2, <3>1
    <3>4. QED
      BY <1>2, <3>1, <3>2, <3>3 DEF CallOf
  <2>3. QED
    BY <1>1, <2>1, <2>2
<1>8. PanelKeepsToItsFirm'
  <2>1. ~(\A d \in calls' : d.id # panel'.call)
    BY <1>1, <1>2, <1>4
  <2>2. ASSUME kind # "own"
        PROVE  shown \in {None} \cup UNION {About(kind, g) : g \in more}
    <3>1. CASE shown = None
      BY <3>1
    <3>2. CASE kind = panel.kind /\ shown = panel.shown /\ asked = panel.asked
      <4>1. panel.shown \in {None} \cup UNION {About(panel.kind, g) : g \in panel.asked}
        BY <2>2, <3>2 DEF PanelInv, PanelKeepsToItsFirm
      <4>2. UNION {About(kind, g) : g \in asked} \subseteq UNION {About(kind, g) : g \in more}
        BY <1>5, Zenon
      <4>3. QED
        BY <3>2, <4>1, <4>2
    <3>3. QED
      BY <3>1, <3>2
  <2>3. kind \in ByFirm => firm = activeFirm'
    OBVIOUS
  <2>4. QED
    BY <1>2, <2>1, <2>2, <2>3 DEF PanelKeepsToItsFirm
<1>9. QED
  BY <1>2, <1>3, <1>6, <1>7, <1>8 DEF PanelInv

\* A panel that was just mounted shows nothing yet.
LEMMA MountedKeeps ==
    ASSUME PanelShape, PanelInv, NEW kind, NEW firm, Mounted(kind, firm), firm = activeFirm'
    PROVE  PanelShape' /\ PanelInv'
<1>1. panel.call \in Nat /\ panel.call + 1 \in Nat
  BY DEF PanelShape
<1>2. CASE kind # "chat"
  <2> DEFINE for == IF kind \in ByFirm THEN firm ELSE None
  <2>1. Asks(kind, panel.call + 1, for, None, {})
    BY <1>2 DEF Mounted
  <2>2. kind \in ByFirm => for = activeFirm'
    OBVIOUS
  <2> HIDE DEF for
  <2>3. QED
    BY <1>1, <2>1, <2>2, AsksKeeps
<1>3. CASE kind = "chat"
  <2>1. /\ panel' = [kind |-> kind, firm |-> firm, since |-> panel.call + 1, call |-> panel.call,
                     shown |-> None, asked |-> {}, late |-> FALSE]
        /\ calls' = calls
    BY <1>3 DEF Mounted
  <2>2. /\ panel'.kind = "chat" /\ panel'.since = panel.call + 1 /\ panel'.call = panel.call
        /\ panel'.shown = None
    BY <1>3, <2>1
  <2>3. PanelShape'
    BY <1>1, <2>1, <2>2 DEF PanelShape
  <2>4. ~(panel'.since <= panel'.call)
    BY <1>1, <2>2
  <2>5. ASSUME NEW d \in calls' PROVE CallOf(d, panel')
    <3>1. d = Call(d.id, d.kind, d.firm) /\ d.id \in Nat /\ d.id <= panel.call
      BY <2>1 DEF PanelInv, CallOf
    <3>2. ~(d.id >= panel'.since)
      BY <1>1, <2>2, <3>1
    <3>3. QED
      BY <2>2, <2>4, <3>1, <3>2 DEF CallOf
  <2>6. PanelKeepsToItsFirm'
    BY <2>2, <2>4 DEF PanelKeepsToItsFirm, ByFirm
  <2>7. QED
    BY <2>2, <2>3, <2>5, <2>6 DEF PanelInv
<1>4. QED
  BY <1>2, <1>3

LEMMA PanelStays ==
    ASSUME PanelShape, PanelInv, panel' = panel, calls' = calls,
           activeFirm' = activeFirm \/ panel.kind \notin ByFirm
    PROVE  PanelShape' /\ PanelInv'
<1>1. PanelKeepsToItsFirm'
  BY DEF PanelInv, PanelKeepsToItsFirm
<1>2. QED
  BY <1>1 DEF PanelShape, PanelInv

\* A panel that follows the firm asks for it, unless it has already.
LEMMA RescopedKeeps ==
    ASSUME PanelShape, PanelInv, NEW firm, Rescoped(firm), activeFirm' = firm
    PROVE  PanelShape' /\ PanelInv'
<1>1. CASE panel.kind \in ByFirm /\ firm # panel.firm
  <2>1. Asks(panel.kind, panel.since, firm, panel.shown, panel.asked)
    BY <1>1 DEF Rescoped
  <2>2. panel.since \in Nat /\ panel.since <= panel.call + 1
    BY DEF PanelShape
  <2>3. QED
    BY <2>1, <2>2, AsksKeeps
<1>2. CASE ~(panel.kind \in ByFirm /\ firm # panel.firm)
  <2>1. panel' = panel /\ calls' = calls
    BY <1>2 DEF Rescoped, panelVars
  <2>2. panel.kind \in ByFirm => panel.firm = activeFirm
    BY DEF PanelInv, PanelKeepsToItsFirm
  <2>3. activeFirm' = activeFirm \/ panel.kind \notin ByFirm
    BY <1>2, <2>2
  <2>4. QED
    BY <2>1, <2>3, PanelStays
<1>3. QED
  BY <1>1, <1>2

\* An answer is about the firm that its call asked for.
LEMMA LoadedIsAbout ==
    ASSUME RegistryShape, NEW c, NEW data \in Loaded(c), c.kind # "own"
    PROVE  data \in About(c.kind, c.firm)
  BY DEF RegistryShape, Loaded, About

\* Only the answer to a call of this mount is shown; useLoaded's, of the last.
LEMMA DeliverPanelKeeps ==
    ASSUME RegistryShape, PanelShape, PanelInv, DeliverPanel PROVE PanelShape' /\ PanelInv'
<1>1. PICK c \in calls :
        /\ calls' = calls \ {c}
        /\ \E data \in Loaded(c) :
            panel' = IF Superseded(c) THEN panel
                     ELSE [panel EXCEPT !.shown = data,
                            !.late = c.id < panel.call /\ \A d \in calls : d.id # panel.call]
  BY DEF DeliverPanel
<1>2. PICK data \in Loaded(c) :
        panel' = IF Superseded(c) THEN panel
                 ELSE [panel EXCEPT !.shown = data,
                        !.late = c.id < panel.call /\ \A d \in calls : d.id # panel.call]
  BY <1>1
<1>3. activeFirm' = activeFirm
  BY DEF DeliverPanel
<1>4. /\ panel'.kind = panel.kind /\ panel'.firm = panel.firm /\ panel'.call = panel.call
      /\ panel'.since = panel.since /\ panel'.asked = panel.asked
      /\ panel'.shown = IF Superseded(c) THEN panel.shown ELSE data
      /\ ~Superseded(c) => panel'.late = (c.id < panel.call /\ \A d \in calls : d.id # panel.call)
      /\ Superseded(c) => panel'.late = panel.late
      /\ panel' = [kind |-> panel'.kind, firm |-> panel'.firm, since |-> panel'.since, call |-> panel'.call,
                   shown |-> panel'.shown, asked |-> panel'.asked, late |-> panel'.late]
  BY <1>2 DEF PanelShape
<1>5. PanelShape'
  BY <1>4 DEF PanelShape
<1>6. ASSUME NEW d \in calls' PROVE CallOf(d, panel')
  <2>1. CallOf(d, panel)
    BY <1>1 DEF PanelInv
  <2>2. QED
    BY <1>4, <2>1 DEF CallOf
<1>7. /\ c = Call(c.id, c.kind, c.firm) /\ c.id \in Nat /\ c.id <= panel.call
      /\ panel.call \in Nat /\ panel.since \in Nat
      /\ c.id >= panel.since => c.kind = panel.kind /\ c.firm \in panel.asked
      /\ c.id = panel.call /\ panel.since <= panel.call => c.firm = panel.firm
  BY DEF PanelInv, PanelShape, CallOf
<1>8. panel.kind # "chat" => panel.since <= panel.call
  BY DEF PanelInv
<1>9. ~Superseded(c) => c.id >= panel.since
  BY <1>7, <1>8 DEF Superseded
<1>10. panel'.kind \in ByFirm => panel'.firm = activeFirm'
  BY <1>3, <1>4 DEF PanelInv, PanelKeepsToItsFirm
<1>11. ASSUME panel.kind # "own"
       PROVE  panel'.shown \in {None} \cup UNION {About(panel.kind, g) : g \in panel.asked}
  <2>1. CASE Superseded(c)
    BY <1>4, <1>11, <2>1 DEF PanelInv, PanelKeepsToItsFirm
  <2>2. CASE ~Superseded(c)
    <3>1. c.kind = panel.kind /\ c.firm \in panel.asked
      BY <1>7, <1>9, <2>2
    <3>2. data \in About(panel.kind, c.firm)
      BY <1>11, <3>1, LoadedIsAbout
    <3>3. data \in UNION {About(panel.kind, g) : g \in panel.asked}
      BY <3>1, <3>2, Zenon
    <3>4. QED
      BY <1>4, <2>2, <3>3
  <2>3. QED
    BY <2>1, <2>2
<1>12. ASSUME panel.kind # "own", panel.since <= panel.call,
              \A d \in calls' : d.id # panel.call, ~panel'.late
       PROVE  panel'.shown \in About(panel.kind, panel.firm)
  <2>1. CASE c.id = panel.call
    <3>1. ~Superseded(c)
      BY <1>7, <1>12, <2>1 DEF Superseded
    <3>2. c.kind = panel.kind /\ c.firm = panel.firm
      BY <1>7, <1>12, <2>1
    <3>3. data \in About(panel.kind, panel.firm)
      BY <1>12, <3>2, LoadedIsAbout
    <3>4. QED
      BY <1>4, <3>1, <3>3
  <2>2. CASE c.id # panel.call
    <3>1. \A d \in calls : d.id # panel.call
      BY <1>1, <1>12, <2>2
    <3>2. c.id < panel.call
      BY <1>7, <2>2
    <3>3. Superseded(c)
      BY <1>4, <1>12, <3>1, <3>2
    <3>4. panel'.shown = panel.shown /\ ~panel.late
      BY <1>4, <1>12, <3>3
    <3>5. panel.shown \in About(panel.kind, panel.firm)
      BY <1>12, <3>1, <3>4 DEF PanelInv, PanelKeepsToItsFirm
    <3>6. QED
      BY <3>4, <3>5
  <2>3. QED
    BY <2>1, <2>2
<1>13. PanelKeepsToItsFirm'
  BY <1>4, <1>10, <1>11, <1>12 DEF PanelKeepsToItsFirm
<1>14. QED
  BY <1>4, <1>5, <1>6, <1>8, <1>13 DEF PanelInv

-------------------------------------------------------------------------------
(* The reads of the registry *)

\* A read begun now will tell whatever the registry comes to hold before it
\* is answered.
LEMMA ReadAdded ==
    ASSUME NEW reads, NEW top \in Nat, NEW reg, ReadsShape(reads, top)
    PROVE  /\ ReadsShape(reads \cup {Read(top + 1)}, top + 1)
           /\ Telling(reads \cup {Read(top + 1)}, top + 1, reg)
<1> DEFINE n == Read(top + 1)
<1>1. n = [key |-> n.key, answer |-> n.answer] /\ n.key = top + 1 /\ n.answer = Unread
  BY DEF Read
<1>2. n.answer.firms = {}
  BY <1>1 DEF Unread
<1> HIDE DEF n
<1>3. ASSUME NEW r \in reads \cup {n}
      PROVE  /\ r = [key |-> r.key, answer |-> r.answer] /\ r.key \in Nat /\ r.key <= top + 1
             /\ r.answer.firms \subseteq Firm
             /\ r # n => r \in reads /\ r.key <= top
  BY <1>1, <1>2 DEF ReadsShape
<1>4. ASSUME NEW q \in reads \cup {n}, NEW r \in reads \cup {n}, q.key = r.key
      PROVE  q = r
  <2>1. q # n => q \in reads /\ q.key \in Nat /\ q.key <= top
    BY <1>3
  <2>2. r # n => r \in reads /\ r.key \in Nat /\ r.key <= top
    BY <1>3
  <2>3. QED
    BY <1>1, <1>4, <2>1, <2>2 DEF ReadsShape
<1>5. QED
  BY <1>1, <1>3, <1>4 DEF ReadsShape, Telling, n

\* An answer is the registry at the time of it, or the fixture.
LEMMA ReadAnswered ==
    ASSUME NEW reads, NEW top \in Nat, NEW key, NEW p \in Answers(reads),
           ReadsShape(reads, top), registry.firms \subseteq Firm, ShellAssumption
    PROVE  LET more == (reads \ {p[1]}) \cup {p[2]}
           IN  /\ ReadsShape(more, top)
               /\ Telling(reads, top, registry) => Telling(more, top, registry)
               /\ Told(reads, top, key) => Told(more, top, key)
<1> DEFINE more == (reads \ {p[1]}) \cup {p[2]}
<1>1. PICK r \in reads, a \in {registry, Fixture} : p = <<r, [r EXCEPT !.answer = a]>>
  BY DEF Answers
<1> DEFINE n == [r EXCEPT !.answer = a]
<1>2. /\ r = [key |-> r.key, answer |-> r.answer] /\ r.key \in Nat /\ r.key <= top
      /\ \A q, t \in reads : q.key = t.key => q = t
  BY DEF ReadsShape
<1>3. n = [key |-> n.key, answer |-> n.answer] /\ n.key = r.key /\ n.answer = a
  BY <1>2
<1>4. a.firms \subseteq Firm
  BY DEF ShellAssumption, Fixture
<1>5. p[1] = r /\ p[2] = n
  BY <1>1
<1> HIDE DEF n
<1>6. more = (reads \ {r}) \cup {n}
  BY <1>5
<1> HIDE DEF more
<1>7. ReadsShape(more, top)
  BY <1>2, <1>3, <1>4, <1>6 DEF ReadsShape
<1>8. ASSUME Telling(reads, top, registry) PROVE Telling(more, top, registry)
  BY <1>3, <1>6, <1>8 DEF Telling
<1>9. ASSUME Told(reads, top, key) PROVE Told(more, top, key)
  BY <1>3, <1>6, <1>9 DEF Told
<1>10. QED
  BY <1>7, <1>8, <1>9 DEF more

\* The newest read is told last, unless an answer is late.
LEMMA ReadDelivered ==
    ASSUME NEW reads, NEW top \in Nat, NEW key \in Nat, NEW r \in reads,
           ReadsShape(reads, top), key <= top, r.answer # Unread
    PROVE  /\ ReadsShape(reads \ {r}, top)
           /\ AtLeast(key, r.key) \in Nat /\ AtLeast(key, r.key) <= top
           /\ r.answer.firms \subseteq Firm
           /\ ~(r.answer = Fixture \/ r.key < key) =>
                /\ ~Told(reads, top, key)
                /\ Telling(reads, top, registry) =>
                    \/ Telling(reads \ {r}, top, registry)
                    \/ r.answer = registry /\ Told(reads \ {r}, top, AtLeast(key, r.key))
<1>1. r.key \in Nat /\ r.key <= top /\ r.answer.firms \subseteq Firm
  BY DEF ReadsShape
<1>2. ReadsShape(reads \ {r}, top)
  BY DEF ReadsShape
<1>3. AtLeast(key, r.key) \in Nat /\ AtLeast(key, r.key) <= top
  BY <1>1 DEF AtLeast
<1>4. ASSUME ~(r.answer = Fixture \/ r.key < key) PROVE ~Told(reads, top, key)
  BY <1>1, <1>4 DEF Told
<1>5. ASSUME ~(r.answer = Fixture \/ r.key < key), Telling(reads, top, registry)
      PROVE  \/ Telling(reads \ {r}, top, registry)
             \/ r.answer = registry /\ Told(reads \ {r}, top, AtLeast(key, r.key))
  <2>1. PICK t \in reads : t.key = top /\ t.answer \in {Unread, registry, Fixture}
    BY <1>5 DEF Telling
  <2>2. CASE t # r
    BY <2>1, <2>2 DEF Telling
  <2>3. CASE t = r
    <3>1. r.answer = registry
      BY <1>5, <2>1, <2>3
    <3>2. AtLeast(key, r.key) = top
      BY <2>1, <2>3 DEF AtLeast
    <3>3. \A q \in reads \ {r} : q.key # top
      BY <2>1, <2>3 DEF ReadsShape
    <3>4. QED
      BY <3>1, <3>2, <3>3 DEF Told
  <2>4. QED
    BY <2>2, <2>3
<1>6. QED
  BY <1>1, <1>2, <1>3, <1>4, <1>5

\* Reading the list again, that read will tell.
LEMMA LoadKeeps ==
    ASSUME ReadShape, Load
    PROVE  /\ loads' \in Nat /\ loads' = loads + 1
           /\ ReadsShape(lists', loads') /\ Telling(lists', loads', registry')
<1>1. loads \in Nat /\ loads' = loads + 1 /\ lists' = lists \cup {Read(loads + 1)}
  BY DEF ReadShape, Load
<1>2. ReadsShape(lists, loads)
  BY DEF ReadShape
<1>3. /\ ReadsShape(lists \cup {Read(loads + 1)}, loads + 1)
      /\ Telling(lists \cup {Read(loads + 1)}, loads + 1, registry')
  BY <1>1, <1>2, ReadAdded
<1>4. QED
  BY <1>1, <1>3

\* Reading again, both reads will tell.
LEMMA ReloadKeeps ==
    ASSUME PanelShape, PanelInv, ReadShape, NEW firm, Reload(firm), activeFirm' = firm,
           newest' = newest, excused' \in BOOLEAN
    PROVE  PanelShape' /\ PanelInv' /\ ReadShape' /\ ActiveFollows' /\ ListFollows'
<1>1. /\ reloadKey \in Nat /\ reloadKey' = reloadKey + 1
      /\ actives' = actives \cup {Read(reloadKey + 1)} /\ Load
  BY DEF Reload, ReadShape
<1>2. PanelShape' /\ PanelInv'
  BY MountedKeeps DEF Reload
<1>3. ReadsShape(actives', reloadKey') /\ Telling(actives', reloadKey', registry')
  BY <1>1, ReadAdded DEF ReadShape
<1>4. /\ loads' \in Nat /\ loads' = loads + 1
      /\ ReadsShape(lists', loads') /\ Telling(lists', loads', registry')
  BY <1>1, LoadKeeps
<1>5. ReadShape'
  BY <1>1, <1>3, <1>4 DEF ReadShape
<1>6. QED
  BY <1>2, <1>3, <1>4, <1>5 DEF ActiveFollows, ListFollows

-------------------------------------------------------------------------------
(* The shell's actions *)

LEMMA InitShell == ASSUME ShellAssumption, Init PROVE ShellInv
<1>1. ShellInit /\ streams = {}
  BY DEF Init, DialogInit
<1>2. RegistryShape
  BY <1>1 DEF ShellInit, RegistryShape
<1>3. PanelShape /\ SelectorShape
  BY <1>1 DEF ShellInit, PanelShape, SelectorShape, NoList, Idle, None, Waiting
<1>4. /\ reloadKey = 0 /\ loads = 0 /\ actives = {Read(0)} /\ lists = {Read(0)} /\ excused = FALSE
      /\ newest = [active |-> 0, list |-> 0]
  BY <1>1 DEF ShellInit
<1>5. Read(0) = [key |-> 0, answer |-> Unread] /\ Unread.firms = {}
  BY DEF Read, Unread
<1>6. ReadsShape({Read(0)}, 0) /\ Telling({Read(0)}, 0, registry)
  BY <1>5 DEF ReadsShape, Telling
<1>7. ReadShape
  <2>1. ReadsShape(actives, reloadKey) /\ ReadsShape(lists, loads)
    BY <1>4, <1>6
  <2>2. newest.active = 0 /\ newest.list = 0
    BY <1>4
  <2>3. excused \in BOOLEAN
    BY <1>4
  <2>4. newest = [active |-> newest.active, list |-> newest.list]
    BY <1>4
  <2>5. /\ reloadKey \in Nat
        /\ newest.active \in Nat /\ newest.active <= reloadKey
        /\ loads \in Nat /\ newest.list \in Nat /\ newest.list <= loads
    BY <1>4, <2>2
  <2>6. QED
    BY <2>1, <2>3, <2>4, <2>5 DEF ReadShape
<1>8. PanelInv
  BY <1>1 DEF ShellInit, PanelInv, PanelKeepsToItsFirm, ByFirm
<1>9. FollowInv
  BY <1>4, <1>6 DEF FollowInv, ActiveFollows, ListFollows
<1>10. QED
  BY <1>2, <1>3, <1>7, <1>8, <1>9 DEF ShellInv

\* What the registry, the selector and the reads say is left alone.
LEMMA FollowStays ==
    ASSUME FollowInv, Settled' => Settled, registry' = registry, reloadKey' = reloadKey /\ loads' = loads,
           actives' = actives, lists' = lists, list' = list, newest' = newest, excused' = excused,
           activeFirm' \in {activeFirm, AllData}
    PROVE  FollowInv'
<1>1. ASSUME Settled', ~excused' PROVE ActiveFollows' /\ ListFollows'
  <2>1. ActiveFollows /\ ListFollows
    BY <1>1 DEF FollowInv
  <2>2. ActiveFollows'
    BY <2>1 DEF ActiveFollows
  <2>3. ListFollows'
    BY <2>1 DEF ListFollows
  <2>4. QED
    BY <2>2, <2>3
<1>2. QED
  BY <1>1 DEF FollowInv

LEMMA VisitKeeps == ASSUME ShellInv, Visit, UNCHANGED streams PROVE ShellInv'
<1>1. PICK kind \in Kind : Mounted(kind, activeFirm)
  BY DEF Visit
<1>2. /\ activeFirm' = activeFirm /\ registry' = registry /\ reloadKey' = reloadKey /\ loads' = loads
      /\ actives' = actives /\ lists' = lists /\ list' = list /\ busy' = busy
      /\ newest' = newest /\ excused' = excused
  BY DEF Visit, panelVars, selectorVars, readVars
<1>4. PanelShape' /\ PanelInv'
  BY <1>1, <1>2, MountedKeeps DEF ShellInv
<1>5. Settled' => Settled
  BY <1>2 DEF Settled
<1>6. FollowInv'
  BY <1>2, <1>5, FollowStays DEF ShellInv
<1>7. QED
  BY <1>2, <1>4, <1>6 DEF ShellInv, RegistryShape, SelectorShape, ReadShape

LEMMA AskKeeps == ASSUME ShellInv, Ask, UNCHANGED streams PROVE ShellInv'
<1>1. panel.kind = "chat" /\ Asks("chat", panel.since, activeFirm, panel.shown, panel.asked)
  BY DEF Ask
<1>2. /\ activeFirm' = activeFirm /\ registry' = registry /\ reloadKey' = reloadKey /\ loads' = loads
      /\ actives' = actives /\ lists' = lists /\ list' = list /\ busy' = busy
      /\ newest' = newest /\ excused' = excused
  BY DEF Ask, panelVars, selectorVars, readVars
<1>3. panel.since \in Nat /\ panel.since <= panel.call + 1
  BY DEF ShellInv, PanelShape
<1>4. PanelShape' /\ PanelInv'
  BY <1>1, <1>3, AsksKeeps DEF ShellInv, ByFirm
<1>5. Settled' => Settled
  BY <1>2 DEF Settled
<1>6. FollowInv'
  BY <1>2, <1>5, FollowStays DEF ShellInv
<1>7. QED
  BY <1>2, <1>4, <1>6 DEF ShellInv, RegistryShape, SelectorShape, ReadShape

LEMMA DeliverPanelKeepsShell ==
    ASSUME ShellInv, DeliverPanel, UNCHANGED streams PROVE ShellInv'
<1>1. /\ activeFirm' = activeFirm /\ registry' = registry /\ reloadKey' = reloadKey /\ loads' = loads
      /\ actives' = actives /\ lists' = lists /\ list' = list /\ busy' = busy
      /\ newest' = newest /\ excused' = excused
  BY DEF DeliverPanel, panelVars, selectorVars, readVars
<1>2. PanelShape' /\ PanelInv'
  BY DeliverPanelKeeps DEF ShellInv
<1>3. Settled' => Settled
  BY <1>1 DEF Settled
<1>4. FollowInv'
  BY <1>1, <1>3, FollowStays DEF ShellInv
<1>5. QED
  BY <1>1, <1>2, <1>4 DEF ShellInv, RegistryShape, SelectorShape, ReadShape

LEMMA SelectAllKeeps == ASSUME ShellInv, SelectAll, UNCHANGED streams PROVE ShellInv'
<1>1. /\ activeFirm' = AllData /\ registry' = registry /\ reloadKey' = reloadKey /\ loads' = loads
      /\ actives' = actives /\ lists' = lists /\ list' = list /\ busy' = busy
      /\ newest' = newest /\ excused' = excused /\ Rescoped(AllData)
  BY DEF SelectAll, panelVars, selectorVars, readVars
<1>2. PanelShape' /\ PanelInv'
  BY <1>1, RescopedKeeps DEF ShellInv
<1>3. Settled' => Settled
  BY <1>1 DEF Settled
<1>4. FollowInv'
  BY <1>1, <1>3, FollowStays DEF ShellInv
<1>5. QED
  BY <1>1, <1>2, <1>4 DEF ShellInv, RegistryShape, SelectorShape, ReadShape

LEMMA AnswerActiveKeeps ==
    ASSUME ShellAssumption, ShellInv, AnswerActive, UNCHANGED streams PROVE ShellInv'
<1>1. PICK p \in Answers(actives) : actives' = (actives \ {p[1]}) \cup {p[2]}
  BY DEF AnswerActive, panelVars, selectorVars, readVars
<1>2. /\ activeFirm' = activeFirm /\ registry' = registry /\ reloadKey' = reloadKey /\ loads' = loads
      /\ lists' = lists /\ list' = list /\ busy' = busy /\ panel' = panel /\ calls' = calls
      /\ newest' = newest /\ excused' = excused
  BY DEF AnswerActive, panelVars, selectorVars, readVars
<1>3. /\ reloadKey \in Nat /\ ReadsShape(actives, reloadKey) /\ registry.firms \subseteq Firm
  BY DEF ShellInv, ReadShape, RegistryShape
<1>4. /\ ReadsShape(actives', reloadKey)
      /\ Telling(actives, reloadKey, registry) => Telling(actives', reloadKey, registry)
      /\ Told(actives, reloadKey, newest.active) => Told(actives', reloadKey, newest.active)
  BY <1>1, <1>3, ReadAnswered
<1>5. PanelShape' /\ PanelInv'
  BY <1>2, PanelStays DEF ShellInv
<1>6. ReadShape'
  BY <1>2, <1>4 DEF ShellInv, ReadShape
<1>7. ASSUME Settled', ~excused' PROVE ActiveFollows' /\ ListFollows'
  <2>1. ActiveFollows /\ ListFollows
    BY <1>2, <1>7 DEF ShellInv, FollowInv, Settled
  <2>2. ActiveFollows'
    BY <1>2, <1>4, <2>1 DEF ActiveFollows
  <2>3. ListFollows'
    BY <1>2, <2>1 DEF ListFollows
  <2>4. QED
    BY <2>2, <2>3
<1>8. QED
  BY <1>2, <1>5, <1>6, <1>7 DEF ShellInv, RegistryShape, SelectorShape, FollowInv

LEMMA AnswerListKeeps ==
    ASSUME ShellAssumption, ShellInv, AnswerList, UNCHANGED streams PROVE ShellInv'
<1>1. PICK p \in Answers(lists) : lists' = (lists \ {p[1]}) \cup {p[2]}
  BY DEF AnswerList, panelVars, selectorVars, readVars
<1>2. /\ activeFirm' = activeFirm /\ registry' = registry /\ reloadKey' = reloadKey /\ loads' = loads
      /\ actives' = actives /\ list' = list /\ busy' = busy /\ panel' = panel /\ calls' = calls
      /\ newest' = newest /\ excused' = excused
  BY DEF AnswerList, panelVars, selectorVars, readVars
<1>3. /\ loads \in Nat /\ ReadsShape(lists, loads) /\ registry.firms \subseteq Firm
  BY DEF ShellInv, ReadShape, RegistryShape
<1>4. /\ ReadsShape(lists', loads)
      /\ Telling(lists, loads, registry) => Telling(lists', loads, registry)
      /\ Told(lists, loads, newest.list) => Told(lists', loads, newest.list)
  BY <1>1, <1>3, ReadAnswered
<1>5. PanelShape' /\ PanelInv'
  BY <1>2, PanelStays DEF ShellInv
<1>6. ReadShape'
  BY <1>2, <1>4 DEF ShellInv, ReadShape
<1>7. ASSUME Settled', ~excused' PROVE ActiveFollows' /\ ListFollows'
  <2>1. ActiveFollows /\ ListFollows
    BY <1>2, <1>7 DEF ShellInv, FollowInv, Settled
  <2>2. ActiveFollows'
    BY <1>2, <2>1 DEF ActiveFollows
  <2>3. ListFollows'
    BY <1>2, <1>4, <2>1 DEF ListFollows
  <2>4. QED
    BY <2>2, <2>3
<1>8. QED
  BY <1>2, <1>5, <1>6, <1>7 DEF ShellInv, RegistryShape, SelectorShape, FollowInv

\* An answer that is not late is the newest read's, or that one is on its way.
LEMMA DeliverActiveKeeps == ASSUME ShellInv, DeliverActive, UNCHANGED streams PROVE ShellInv'
<1>1. PICK r \in actives :
        /\ r.answer # Unread /\ actives' = actives \ {r} /\ activeFirm' = r.answer.selected
        /\ Rescoped(r.answer.selected) /\ excused' = (excused \/ Late(r, "active"))
        /\ newest' = [newest EXCEPT !.active = AtLeast(@, r.key)]
  BY DEF DeliverActive, panelVars, selectorVars, readVars
<1>2. /\ registry' = registry /\ reloadKey' = reloadKey /\ loads' = loads
      /\ lists' = lists /\ list' = list /\ busy' = busy
  BY DEF DeliverActive, panelVars, selectorVars, readVars
<1>3. /\ newest'.active = AtLeast(newest.active, r.key) /\ newest'.list = newest.list
      /\ newest' = [active |-> newest'.active, list |-> newest'.list]
  BY <1>1 DEF ShellInv, ReadShape
<1>4. /\ reloadKey \in Nat /\ ReadsShape(actives, reloadKey)
      /\ newest.active \in Nat /\ newest.active <= reloadKey
  BY DEF ShellInv, ReadShape
<1>5. /\ ReadsShape(actives', reloadKey)
      /\ newest'.active \in Nat /\ newest'.active <= reloadKey
      /\ ~Late(r, "active") =>
            /\ ~Told(actives, reloadKey, newest.active)
            /\ Telling(actives, reloadKey, registry) =>
                \/ Telling(actives', reloadKey, registry)
                \/ r.answer = registry /\ Told(actives', reloadKey, newest'.active)
  BY <1>1, <1>3, <1>4, ReadDelivered DEF Late
<1>6. PanelShape' /\ PanelInv'
  BY <1>1, RescopedKeeps DEF ShellInv
<1>7. ReadShape'
  BY <1>1, <1>2, <1>3, <1>5 DEF ShellInv, ReadShape
<1>8. ASSUME Settled', ~excused' PROVE ActiveFollows' /\ ListFollows'
  <2>1. ActiveFollows /\ ListFollows /\ ~Late(r, "active")
    BY <1>1, <1>2, <1>8 DEF ShellInv, FollowInv, Settled
  <2>2. ActiveFollows'
    BY <1>1, <1>2, <1>5, <2>1 DEF ActiveFollows
  <2>3. ListFollows'
    BY <1>2, <1>3, <2>1 DEF ListFollows
  <2>4. QED
    BY <2>2, <2>3
<1>9. QED
  BY <1>2, <1>6, <1>7, <1>8 DEF ShellInv, RegistryShape, SelectorShape, FollowInv

LEMMA DeliverListKeeps == ASSUME ShellInv, DeliverList, UNCHANGED streams PROVE ShellInv'
<1>1. PICK r \in lists :
        /\ r.answer # Unread /\ lists' = lists \ {r}
        /\ list' = [firms |-> r.answer.firms, selected |-> r.answer.selected, live |-> r.answer # Fixture]
        /\ excused' = (excused \/ Late(r, "list"))
        /\ newest' = [newest EXCEPT !.list = AtLeast(@, r.key)]
  BY DEF DeliverList, panelVars, selectorVars, readVars
<1>2. /\ registry' = registry /\ reloadKey' = reloadKey /\ loads' = loads /\ actives' = actives /\ busy' = busy
      /\ activeFirm' = activeFirm /\ panel' = panel /\ calls' = calls
  BY DEF DeliverList, panelVars, selectorVars, readVars
<1>3. /\ newest'.list = AtLeast(newest.list, r.key) /\ newest'.active = newest.active
      /\ newest' = [active |-> newest'.active, list |-> newest'.list]
  BY <1>1 DEF ShellInv, ReadShape
<1>4. /\ loads \in Nat /\ ReadsShape(lists, loads)
      /\ newest.list \in Nat /\ newest.list <= loads
  BY DEF ShellInv, ReadShape
<1>5. /\ ReadsShape(lists', loads) /\ r.answer.firms \subseteq Firm
      /\ newest'.list \in Nat /\ newest'.list <= loads
      /\ ~Late(r, "list") =>
            /\ ~Told(lists, loads, newest.list)
            /\ Telling(lists, loads, registry) =>
                \/ Telling(lists', loads, registry)
                \/ r.answer = registry /\ Told(lists', loads, newest'.list)
  BY <1>1, <1>3, <1>4, ReadDelivered DEF Late
<1>6. PanelShape' /\ PanelInv'
  BY <1>2, PanelStays DEF ShellInv
<1>7. ReadShape'
  BY <1>1, <1>2, <1>3, <1>5 DEF ShellInv, ReadShape
<1>8. ASSUME Settled', ~excused' PROVE ActiveFollows' /\ ListFollows'
  <2>1. ActiveFollows /\ ListFollows /\ ~Late(r, "list")
    BY <1>1, <1>2, <1>8 DEF ShellInv, FollowInv, Settled
  <2>2. ActiveFollows'
    BY <1>2, <1>3, <2>1 DEF ActiveFollows
  <2>3. ListFollows'
    BY <1>1, <1>2, <1>5, <2>1 DEF ListFollows
  <2>4. QED
    BY <2>2, <2>3
<1>9. SelectorShape'
  BY <1>1, <1>2, <1>5 DEF ShellInv, SelectorShape
<1>10. QED
  BY <1>2, <1>6, <1>7, <1>8, <1>9 DEF ShellInv, RegistryShape, FollowInv

LEMMA ChooseShownKeeps == ASSUME ShellInv, ChooseShown, UNCHANGED streams PROVE ShellInv'
<1>1. /\ activeFirm' = list.selected /\ Reload(list.selected) /\ registry' = registry
      /\ list' = list /\ busy' = busy /\ newest' = newest /\ excused' = excused
  BY DEF ChooseShown, OnSelect, selectorVars
<1>2. excused' \in BOOLEAN
  BY <1>1 DEF ShellInv, ReadShape
<1>3. PanelShape' /\ PanelInv' /\ ReadShape' /\ ActiveFollows' /\ ListFollows'
  BY <1>1, <1>2, ReloadKeeps DEF ShellInv
<1>4. QED
  BY <1>1, <1>3 DEF ShellInv, RegistryShape, SelectorShape, FollowInv

LEMMA ChooseKeeps ==
    ASSUME ShellInv, Choose, UNCHANGED streams PROVE ShellInv'
<1>1. PICK f \in list.firms \ {list.selected} : busy' = [firm |-> f, answer |-> Waiting]
  BY DEF Choose, panelVars, selectorVars, readVars
<1>2. /\ activeFirm' = activeFirm /\ registry' = registry /\ reloadKey' = reloadKey /\ loads' = loads
      /\ actives' = actives /\ lists' = lists /\ list' = list /\ panel' = panel /\ calls' = calls
      /\ newest' = newest /\ excused' = excused /\ busy = Idle
  BY DEF Choose, panelVars, selectorVars, readVars
<1>3. Settled' => Settled
  BY <1>2 DEF Settled, Idle
<1>4. FollowInv'
  BY <1>2, <1>3, FollowStays DEF ShellInv
<1>5. SelectorShape'
  BY <1>1, <1>2 DEF ShellInv, SelectorShape
<1>6. PanelShape' /\ PanelInv'
  BY <1>2, PanelStays DEF ShellInv
<1>7. QED
  BY <1>2, <1>4, <1>5, <1>6 DEF ShellInv, RegistryShape, ReadShape

\* The shell is told of the selection when the answer comes, or a call failed.
LEMMA ServerSelectsKeeps ==
    ASSUME ShellAssumption, ShellInv, ServerSelects, UNCHANGED streams PROVE ShellInv'
<1>1. PICK ok \in BOOLEAN, selects \in BOOLEAN :
        /\ registry' = IF selects THEN [registry EXCEPT !.selected = busy.firm] ELSE registry
        /\ busy' = [busy EXCEPT !.answer = IF ok THEN busy.firm ELSE Failed]
        /\ excused' = (excused \/ ~ok)
  BY DEF ServerSelects, panelVars, selectorVars, readVars
<1>2. /\ activeFirm' = activeFirm /\ reloadKey' = reloadKey /\ loads' = loads /\ actives' = actives
      /\ lists' = lists /\ list' = list /\ panel' = panel /\ calls' = calls
      /\ newest' = newest /\ busy.answer = Waiting
  BY DEF ServerSelects, panelVars, selectorVars, readVars
<1>3. RegistryShape'
  BY <1>1 DEF ShellInv, RegistryShape
<1>4. /\ busy' = [firm |-> busy'.firm, answer |-> busy'.answer]
      /\ busy.firm \in Firm /\ busy'.answer = IF ok THEN busy.firm ELSE Failed
  BY <1>1, <1>2 DEF ShellInv, SelectorShape
<1>5. busy'.answer \notin {None, Waiting}
  BY <1>4 DEF ShellAssumption, Failed, None, Waiting
<1>6. SelectorShape'
  BY <1>2, <1>4, <1>5 DEF ShellInv, SelectorShape
<1>7. PanelShape' /\ PanelInv'
  BY <1>2, PanelStays DEF ShellInv
<1>8. ReadShape'
  BY <1>1, <1>2 DEF ShellInv, ReadShape
<1>9. ~Settled'
  BY <1>5 DEF Settled
<1>10. QED
  BY <1>3, <1>6, <1>7, <1>8, <1>9 DEF ShellInv, FollowInv

LEMMA ChosenKeeps == ASSUME ShellInv, Chosen, UNCHANGED streams PROVE ShellInv'
<1>1. /\ activeFirm' = busy.firm /\ Reload(busy.firm) /\ registry' = registry
      /\ list' = [list EXCEPT !.selected = IF busy.firm \in list.firms THEN busy.firm ELSE None]
      /\ busy' = Idle /\ newest' = newest /\ excused' = excused
  BY DEF Chosen, OnSelect
<1>2. excused' \in BOOLEAN
  BY <1>1 DEF ShellInv, ReadShape
<1>3. PanelShape' /\ PanelInv' /\ ReadShape' /\ ActiveFollows' /\ ListFollows'
  BY <1>1, <1>2, ReloadKeeps DEF ShellInv
<1>4. SelectorShape'
  BY <1>1 DEF ShellInv, SelectorShape, Idle, None, Waiting
<1>5. QED
  BY <1>1, <1>3, <1>4 DEF ShellInv, RegistryShape, FollowInv

LEMMA EnrichBeginsKeeps == ASSUME ShellInv, EnrichBegins, UNCHANGED streams PROVE ShellInv'
<1>1. /\ activeFirm' = activeFirm /\ registry' = registry /\ reloadKey' = reloadKey /\ loads' = loads
      /\ actives' = actives /\ lists' = lists /\ list' = list /\ busy' = busy
      /\ panel' = panel /\ calls' = calls /\ newest' = newest /\ excused' = excused
  BY DEF EnrichBegins, panelVars, readVars
<1>2. PanelShape' /\ PanelInv'
  BY <1>1, PanelStays DEF ShellInv
<1>3. Settled' => Settled
  BY <1>1 DEF Settled
<1>4. FollowInv'
  BY <1>1, <1>3, FollowStays DEF ShellInv
<1>5. QED
  BY <1>1, <1>2, <1>4 DEF ShellInv, RegistryShape, SelectorShape, ReadShape

\* The list may be read once more than the selection.
LEMMA EnrichEndsKeeps == ASSUME ShellInv, EnrichEnds, UNCHANGED streams PROVE ShellInv'
<1>1. /\ activeFirm' = activeFirm /\ registry' = registry /\ reloadKey' = reloadKey
      /\ actives' = actives /\ list' = list /\ busy' = busy
      /\ panel' = panel /\ calls' = calls /\ newest' = newest /\ excused' = excused
  BY DEF EnrichEnds, panelVars
<1>2. PanelShape' /\ PanelInv'
  BY <1>1, PanelStays DEF ShellInv
<1>3. Settled' => Settled
  BY <1>1 DEF Settled
<1>4. CASE UNCHANGED <<loads, lists>>
  <2>1. FollowInv'
    BY <1>1, <1>3, <1>4, FollowStays DEF ShellInv
  <2>2. QED
    BY <1>1, <1>2, <1>4, <2>1 DEF ShellInv, RegistryShape, SelectorShape, ReadShape
<1>5. CASE Load
  <2>1. /\ loads' \in Nat /\ loads' = loads + 1
        /\ ReadsShape(lists', loads') /\ Telling(lists', loads', registry')
    BY <1>5, LoadKeeps DEF ShellInv
  <2>2. loads \in Nat /\ newest.list \in Nat /\ newest.list <= loads
    BY DEF ShellInv, ReadShape
  <2>3. ReadShape'
    BY <1>1, <2>1, <2>2 DEF ShellInv, ReadShape
  <2>4. ASSUME Settled', ~excused' PROVE ActiveFollows' /\ ListFollows'
    <3>1. ActiveFollows
      BY <1>1, <1>3, <2>4 DEF ShellInv, FollowInv
    <3>2. ActiveFollows'
      BY <1>1, <3>1 DEF ActiveFollows
    <3>3. QED
      BY <2>1, <3>2 DEF ListFollows
  <2>5. QED
    BY <1>1, <1>2, <2>3, <2>4 DEF ShellInv, RegistryShape, SelectorShape, FollowInv
<1>6. QED
  BY <1>4, <1>5 DEF EnrichEnds

LEMMA ShellNextKeeps ==
    ASSUME ShellAssumption, ShellInv, ShellNext, UNCHANGED streams PROVE ShellInv'
  BY VisitKeeps, AskKeeps, DeliverPanelKeepsShell, SelectAllKeeps, AnswerActiveKeeps, AnswerListKeeps,
     DeliverActiveKeeps, DeliverListKeeps, ChooseShownKeeps, ChooseKeeps, ServerSelectsKeeps,
     ChosenKeeps, EnrichBeginsKeeps, EnrichEndsKeeps DEF ShellNext

-------------------------------------------------------------------------------
(* The shell and the jobs *)

\* A step of the dialog by which no job's selection is forgotten.
LEMMA ShellStays ==
    ASSUME ShellInv, UNCHANGED shellVars, Settled' => Settled PROVE ShellInv'
<1>1. /\ activeFirm' = activeFirm /\ registry' = registry /\ reloadKey' = reloadKey /\ loads' = loads
      /\ actives' = actives /\ lists' = lists /\ list' = list /\ busy' = busy
      /\ panel' = panel /\ calls' = calls /\ newest' = newest /\ excused' = excused
  BY DEF shellVars, panelVars, selectorVars, readVars
<1>2. PanelShape' /\ PanelInv'
  BY <1>1, PanelStays DEF ShellInv
<1>3. FollowInv'
  BY <1>1, FollowStays DEF ShellInv
<1>4. QED
  BY <1>1, <1>2, <1>3 DEF ShellInv, RegistryShape, SelectorShape, ReadShape

LEMMA UnselectedStays ==
    ASSUME UNCHANGED shellVars,
           \A s \in streams : s.at = "selected" => \E t \in streams' : t.at = "selected"
    PROVE  Settled' => Settled
  BY DEF Settled, shellVars, selectorVars

\* A stream that has not selected its firm moves on, or ends.
LEMMA MovesUnselected ==
    ASSUME NEW s \in streams, s.at # "selected", streams \ {s} \subseteq streams'
    PROVE  \A t \in streams : t.at = "selected" => \E u \in streams' : u.at = "selected"
  OBVIOUS

LEMMA DialogStepKeeps ==
    ASSUME ShellInv, OpenFromMenu \/ DialogStep, UNCHANGED shellVars PROVE ShellInv'
<1>1. streams \subseteq streams'
  <2>1. CASE OpenFromMenu \/ Close \/ TimerFires \/ Back
    BY <2>1 DEF OpenFromMenu, Open, Close, TimerFires, Back
  <2>2. CASE Pick
    BY <2>2 DEF Pick
  <2>3. QED
    BY <2>1, <2>2 DEF DialogStep
<1>2. Settled' => Settled
  BY <1>1, UnselectedStays
<1>3. QED
  BY <1>2, ShellStays

LEMMA StreamFailsKeeps ==
    ASSUME DialogInv, ShellInv, NEW s \in streams, Refused(s) \/ Breaks(s), UNCHANGED shellVars
    PROVE  ShellInv'
<1>1. CASE Refused(s)
  <2>1. s.at # "selected" /\ streams \ {s} \subseteq streams'
    BY <1>1 DEF Refused
  <2>2. QED
    BY <2>1, MovesUnselected, UnselectedStays, ShellStays
<1>2. CASE Breaks(s)
  <2> DEFINE u == [s EXCEPT !.lost = TRUE]
  <2>1. s \in Streams
    BY DEF DialogInv, DialogType
  <2>2. u.at = s.at
    BY <2>1 DEF Streams
  <2>3. streams' = (streams \ {s}) \cup {u}
    BY <1>2 DEF Breaks
  <2> HIDE DEF u
  <2>4. \A t \in streams : t.at = "selected" => \E v \in streams' : v.at = "selected"
    BY <2>2, <2>3
  <2>5. QED
    BY <2>4, UnselectedStays, ShellStays
<1>3. QED
  BY <1>1, <1>2

LEMMA JobGoesOnKeeps ==
    ASSUME ShellInv, NEW s \in streams, JobGoesOn(s) PROVE ShellInv'
<1>1. UNCHANGED shellVars
  BY DEF JobGoesOn
<1>2. s.at # "selected" /\ streams \ {s} \subseteq streams'
  BY DEF JobGoesOn, Progress, Fatal, Ends, Moves
<1>3. QED
  BY <1>1, <1>2, MovesUnselected, UnselectedStays, ShellStays

\* The job's firm is the server's: the shell is told when the job completes.
LEMMA JobSelectsKeeps ==
    ASSUME CandidatesAreFirms, DialogInv, ShellInv, NEW s \in streams, JobSelects(s)
    PROVE  ShellInv'
<1>1. /\ registry' = [firms |-> registry.firms \cup {s.firm}, selected |-> s.firm]
      /\ activeFirm' = activeFirm /\ reloadKey' = reloadKey /\ loads' = loads /\ actives' = actives
      /\ lists' = lists /\ list' = list /\ busy' = busy /\ panel' = panel /\ calls' = calls
      /\ newest' = newest /\ excused' = excused
  BY DEF JobSelects, panelVars, selectorVars, readVars
<1>2. s \in Streams
  BY DEF DialogInv, DialogType
<1>3. s.firm \in Firm
  BY <1>2 DEF CandidatesAreFirms, Streams
<1>4. RegistryShape'
  BY <1>1, <1>3 DEF ShellInv, RegistryShape
<1>5. PanelShape' /\ PanelInv'
  BY <1>1, PanelStays DEF ShellInv
<1>6. ~Settled'
  <2>1. [s EXCEPT !.at = "selected"] \in streams'
    BY DEF JobSelects, Selects, Moves
  <2>2. [s EXCEPT !.at = "selected"].at = "selected"
    BY <1>2 DEF Streams
  <2>3. QED
    BY <2>1, <2>2 DEF Settled
<1>7. QED
  BY <1>1, <1>4, <1>5, <1>6 DEF ShellInv, SelectorShape, ReadShape, FollowInv

LEMMA JobCompletesKeeps ==
    ASSUME ShellInv, NEW s \in streams, JobCompletes(s) PROVE ShellInv'
<1>1. /\ activeFirm' = activeFirm /\ registry' = registry /\ list' = list /\ busy' = busy
      /\ newest' = newest
  BY DEF JobCompletes, selectorVars
<1>2. CASE Announces(s)
  <2>1. Reload(activeFirm) /\ excused' = excused
    BY <1>2 DEF JobCompletes
  <2>2. excused' \in BOOLEAN
    BY <2>1 DEF ShellInv, ReadShape
  <2>3. PanelShape' /\ PanelInv' /\ ReadShape' /\ ActiveFollows' /\ ListFollows'
    BY <1>1, <2>1, <2>2, ReloadKeeps DEF ShellInv
  <2>4. QED
    BY <1>1, <2>3 DEF ShellInv, RegistryShape, SelectorShape, FollowInv
<1>3. CASE ~Announces(s)
  <2>1. /\ excused' = TRUE /\ reloadKey' = reloadKey /\ loads' = loads /\ actives' = actives /\ lists' = lists
        /\ panel' = panel /\ calls' = calls
    BY <1>3 DEF JobCompletes, panelVars
  <2>2. PanelShape' /\ PanelInv'
    BY <1>1, <2>1, PanelStays DEF ShellInv
  <2>3. QED
    BY <1>1, <2>1, <2>2 DEF ShellInv, RegistryShape, SelectorShape, ReadShape, FollowInv
<1>4. QED
  BY <1>2, <1>3

LEMMA NextKeepsShell ==
    ASSUME ShellAssumption, CandidatesAreFirms, DialogInv, ShellInv, [Next]_vars
    PROVE  ShellInv'
<1>1. CASE UNCHANGED vars
  <2>1. UNCHANGED shellVars /\ streams' = streams
    BY <1>1 DEF vars, dialogVars
  <2>2. Settled' => Settled
    BY <2>1, UnselectedStays
  <2>3. QED
    BY <2>1, <2>2, ShellStays
<1>2. CASE ShellNext /\ UNCHANGED dialogVars
  <2>1. UNCHANGED streams
    BY <1>2 DEF dialogVars
  <2>2. QED
    BY <1>2, <2>1, ShellNextKeeps
<1>3. CASE (OpenFromMenu \/ DialogStep) /\ UNCHANGED shellVars
  BY <1>3, DialogStepKeeps
<1>4. ASSUME NEW s \in streams, Refused(s) \/ Breaks(s), UNCHANGED shellVars
      PROVE  ShellInv'
  BY <1>4, StreamFailsKeeps
<1>5. ASSUME NEW s \in streams, Job(s) PROVE ShellInv'
  BY <1>5, JobSelectsKeeps, JobCompletesKeeps, JobGoesOnKeeps DEF Job
<1>6. QED
  BY <1>1, <1>2, <1>3, <1>4, <1>5 DEF Next

\* The panel's calls asked for what the panel may show, the last for its firm;
\* and unless a call failed, an answer was overtaken or a selection is still
\* on its way, the newest read will tell the shell and the selector of the server's
\* selection, or has told them.
THEOREM ShellInvariant == Spec => []ShellInv
<1>1. Init => ShellInv
  BY InitShell, ShellAssumption
<1>2. DialogInv /\ ShellInv /\ [Next]_vars => ShellInv'
  BY NextKeepsShell, ShellAssumption, CandidatesAreFirms
<1>3. QED
  BY <1>1, <1>2, DialogInvariant, PTL DEF Spec

\* A panel that follows the shell's firm has asked for it last; what useLoaded
\* has loaded is of that firm, or nothing, and the fixture only for the demo
\* firm (useLoaded.ts, api.ts); what the master data and the chat show was
\* asked for since they were mounted, and last unless an earlier call was
\* answered after (MasterDataManagement.tsx, ChatPanel.tsx): with any number
\* of calls under way and in whatever order their answers come.
THEOREM PanelKeepsToItsFirmHolds == Spec => []PanelKeepsToItsFirm
<1>1. ShellInv => PanelKeepsToItsFirm
  BY DEF ShellInv, PanelInv
<1>2. QED
  BY <1>1, ShellInvariant, PTL

\* Once every call is answered, the shell and the selector show the firm that
\* the server has selected (App.tsx, FirmSelector.tsx), unless a call failed or
\* an answer was overtaken, with any number of firms, reads, selections and jobs.
THEOREM AppFollowsServerHolds == Spec => []AppFollowsServer
<1>1. ShellInv => AppFollowsServer
  <2> SUFFICES ASSUME ShellInv, \A s \in streams : s.at # "selected", ShellQuiet, ~excused
               PROVE  activeFirm \in {registry.selected, AllData} /\ list.selected = registry.selected
    BY DEF AppFollowsServer, ScopeFollowsServer
  <2>1. Settled
    BY DEF Settled, ShellQuiet, Idle
  <2>2. ActiveFollows /\ ListFollows
    BY <2>1 DEF ShellInv, FollowInv
  <2>3. actives = {} /\ lists = {}
    BY DEF ShellQuiet
  <2>4. QED
    BY <2>2, <2>3 DEF ActiveFollows, ListFollows, Telling
<1>2. QED
  BY <1>1, ShellInvariant, PTL
===============================================================================
