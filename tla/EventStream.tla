----------------------------- MODULE EventStream -----------------------------
(***************************************************************************)
(* What the client of a streamed run is promised (onboarding/routes.py,    *)
(* enrich.py), without queue, sentinel or worker: the events sent so far   *)
(* begin with job.started, end with job.completed or a fatal error and are *)
(* read one by one; the response ends when all have been.  Enrichment      *)
(* implements it.                                                          *)
(***************************************************************************)
EXTENDS Naturals, Sequences

VARIABLES
    sent,   \* the events of the run so far
    got,    \* those the client has read
    reader  \* "reading", "ended" or "gone"

vars == <<sent, got, reader>>

Init == sent = <<>> /\ got = <<>> /\ reader = "reading"

Ends == {"completed", "fatal"}
Over == sent # <<>> /\ sent[Len(sent)] \in Ends

Open == sent = <<>> /\ sent' = <<"started">> /\ UNCHANGED <<got, reader>>

\* Some events of the run's middle.
Progress ==
    /\ sent # <<>> /\ ~Over
    /\ Len(sent') > Len(sent) /\ SubSeq(sent', 1, Len(sent)) = sent
    /\ \A i \in Len(sent) + 1 .. Len(sent') : sent'[i] \notin Ends \cup {"started"}
    /\ UNCHANGED <<got, reader>>

Complete ==
    /\ sent # <<>> /\ ~Over
    /\ sent' = Append(sent, "completed")
    /\ UNCHANGED <<got, reader>>

Break ==
    /\ ~Over
    /\ sent' = Append(sent, "fatal")
    /\ UNCHANGED <<got, reader>>

Read ==
    /\ reader = "reading" /\ Len(got) < Len(sent)
    /\ got' = Append(got, sent[Len(got) + 1])
    /\ UNCHANGED <<sent, reader>>

Close ==
    /\ reader = "reading" /\ Over /\ got = sent
    /\ reader' = "ended"
    /\ UNCHANGED <<sent, got>>

HangUp ==
    /\ reader = "reading"
    /\ reader' = "gone"
    /\ UNCHANGED <<sent, got>>

Next == Open \/ Progress \/ Complete \/ Break \/ Read \/ Close \/ HangUp

Spec == Init /\ [][Next]_vars
==============================================================================
