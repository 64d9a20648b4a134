----------------------------- MODULE MeetingView -----------------------------
(***************************************************************************)
(* Browser tabs that show one meeting (live-meeting-detail-view.tsx): each *)
(* has three queries (api/hooks.ts) whose answers come one by one, a draft *)
(* of edits kept under the revision it started from, and one request at a  *)
(* time to save, to approve or to retry.  The server is what ReviewExport  *)
(* and MeetingLifecycle promise: a PUT names the revision it is based on   *)
(* and makes the next one, an approval names the revision it is of.        *)
(*                                                                         *)
(* The minutes of a revision are a set of edits, some of the transcript    *)
(* and the others of the insights.  A query's request and its answer are   *)
(* one step: an answer that an invalidation has overtaken is dropped.      *)
(***************************************************************************)
EXTENDS Naturals, Sequences, FiniteSets

CONSTANTS
    Tabs,
    SpeechEdits,  \* edits of the transcript,
    Speakers,     \* one of which names every speaker
    MinuteEdits,  \* edits of the summary and the tasks
    None,
    MaxRetries,   \* of processing the meeting
    MaxRevision,  \* bound: saved revisions
    MaxFaults     \* bound: failures, reloads, returns and reconnections

ASSUME EditsAssumption ==
    Speakers \in SpeechEdits /\ SpeechEdits \intersect MinuteEdits = {}

ASSUME BoundsAssumption ==
    {MaxRetries, MaxRevision, MaxFaults} \subseteq Nat

VARIABLES
    status,      \* of the meeting on the server
    retries,     \* that the server would still accept
    versions,    \* the minutes of each revision, from 0 on
    approved,    \* what was on the screen of whoever approved
    data,        \* what each query of a tab has: a revision and a status
    errors,      \* the queries of a tab whose last fetch failed
    fetching,    \* the queries of a tab that are being fetched
    draft,       \* the edited minutes of a tab, with their revision
    editing,     \* the tab edits approved minutes
    waiting,     \* the request that a tab waits for
    refreshing,  \* the request after which the tab waits for its queries
    sent,        \* requests that the server may yet carry out
    faults       \* so far

server == <<status, retries, versions, approved>>
queries == <<data, errors, fetching>>
local == <<draft, editing>>
calls == <<waiting, refreshing, sent>>
vars == <<server, queries, local, calls, faults>>

-----------------------------------------------------------------------------
Results == {"transcript", "insights"}
Queries == {"meeting"} \union Results

Revision == Len(versions) - 1

Ready(s) == s \in {"review_required", "approved"}

Meeting(t) == data[t]["meeting"]

(* useMeetingResultsQuery: the results are fetched once there are any.     *)
Enabled(t) ==
    IF Meeting(t) # None /\ Ready(Meeting(t).status) THEN Queries ELSE {"meeting"}

(* Mutant: results are shown as soon as there are any.                     *)
ViewAnyway(t) ==
    IF "meeting" \in errors[t] THEN "unavailable"
    ELSE IF Meeting(t) = None THEN "loading"
    ELSE IF ~Ready(Meeting(t).status) THEN Meeting(t).status
    ELSE IF errors[t] # {} THEN "unavailable"
    ELSE IF \A q \in Results : data[t][q] # None THEN "shown" ELSE "loading"

(* What the tab renders, in the order of its returns.                      *)
View(t) ==
    IF "meeting" \in errors[t] THEN "unavailable"
    ELSE IF Meeting(t) = None THEN "loading"
    ELSE IF ~Ready(Meeting(t).status) THEN Meeting(t).status
    ELSE IF errors[t] # {} THEN "unavailable"
    ELSE IF \A q \in Results : /\ data[t][q] # None
                               /\ data[t][q].revision = Meeting(t).revision
         THEN "shown" ELSE "loading"

Unsaved(t) == draft[t] # None /\ draft[t].revision = Meeting(t).revision

(* initialDraft, unless there is a draft of this revision.                 *)
Displayed(t) ==
    IF Unsaved(t) THEN draft[t].minutes
    ELSE (versions[data[t]["transcript"].revision + 1] \intersect SpeechEdits)
         \union (versions[data[t]["insights"].revision + 1] \intersect MinuteEdits)

Busy(t) == waiting[t] # None \/ refreshing[t] # None

Editable(t) ==
    /\ View(t) = "shown"
    /\ ~Busy(t)
    /\ Meeting(t).status = "review_required" \/ editing[t]

Charge == faults < MaxFaults /\ faults' = faults + 1

Init ==
    /\ status = "processing"
    /\ retries = MaxRetries
    /\ versions = <<{}>>
    /\ approved = None
    /\ data = [t \in Tabs |-> [q \in Queries |-> None]]
    /\ errors = [t \in Tabs |-> {}]
    /\ fetching = [t \in Tabs |-> {"meeting"}]
    /\ draft = [t \in Tabs |-> None]
    /\ editing = [t \in Tabs |-> FALSE]
    /\ waiting = [t \in Tabs |-> None]
    /\ refreshing = [t \in Tabs |-> None]
    /\ sent = {}
    /\ faults = 0

-----------------------------------------------------------------------------
(* Queries *)

(* The queries Q are fetched, once more if they are being fetched; an      *)
(* error without data is forgotten at once.                                *)
Fetch(t, Q) ==
    /\ fetching' = [fetching EXCEPT ![t] = @ \union Q]
    /\ errors' = [errors EXCEPT ![t] = { q \in @ : q \notin Q \/ data[t][q] # None }]

(* With the last of the queries the tab is no longer busy; after an        *)
(* approval it no longer edits.                                            *)
Refreshed(t, q) ==
    IF fetching[t] = {q}
    THEN /\ refreshing' = [refreshing EXCEPT ![t] = None]
         /\ editing' = [editing EXCEPT ![t] = @ /\ refreshing[t] # "approve"]
    ELSE UNCHANGED <<editing, refreshing>>

(* A query's answer; the results are fetched with the first answer that    *)
(* says they are there.  A draft of another revision is never shown again. *)
Answer(t, q) ==
    LET more == IF q = "meeting" /\ Enabled(t) # Queries /\ Ready(status)
                THEN Results ELSE {}
    IN /\ q \in fetching[t]
       /\ data' = [data EXCEPT ![t][q] =
                      [revision |-> Revision,
                       status |-> IF q = "meeting" THEN status ELSE "results"]]
       /\ errors' = [errors EXCEPT ![t] = @ \ {q}]
       /\ fetching' = [fetching EXCEPT ![t] = (@ \ {q}) \union more]
       /\ Refreshed(t, q)
       /\ draft' = IF Unsaved(t) /\ Meeting(t)'.revision = Meeting(t).revision THEN draft
                   ELSE [draft EXCEPT ![t] = None]
       /\ UNCHANGED <<server, waiting, sent, faults>>

(* A query fails, after its own repetitions: its data are kept.            *)
Fail(t, q) ==
    /\ q \in fetching[t]
    /\ Charge
    /\ errors' = [errors EXCEPT ![t] = @ \union {q}]
    /\ fetching' = [fetching EXCEPT ![t] = @ \ {q}]
    /\ Refreshed(t, q)
    /\ UNCHANGED <<server, data, draft, waiting, sent>>

(* Mutant: a failed query is not repeated.                                 *)
PollUntilError(t) ==
    /\ Meeting(t) # None /\ Meeting(t).status = "processing"
    /\ errors[t] = {}
    /\ fetching[t] = {}
    /\ Fetch(t, {"meeting"})
    /\ UNCHANGED <<server, data, local, calls, faults>>

(* Every two seconds, while the meeting was last seen in processing.       *)
Poll(t) ==
    /\ Meeting(t) # None /\ Meeting(t).status = "processing"
    /\ fetching[t] = {}
    /\ Fetch(t, {"meeting"})
    /\ UNCHANGED <<server, data, local, calls, faults>>

(* The network is back: queries older than 30 seconds are fetched again.   *)
Reconnect(t, Q) ==
    /\ Charge
    /\ Q \subseteq Enabled(t)
    /\ Fetch(t, Q)
    /\ UNCHANGED <<server, data, local, calls>>

(* The page was left and is opened again: old queries and those without    *)
(* data are fetched.                                                       *)
Return(t, Q) ==
    /\ Charge
    /\ ~Busy(t)
    /\ { q \in Enabled(t) : data[t][q] = None } \subseteq Q
    /\ Q \subseteq Enabled(t)
    /\ Fetch(t, Q)
    /\ draft' = [draft EXCEPT ![t] = None]
    /\ editing' = [editing EXCEPT ![t] = FALSE]
    /\ UNCHANGED <<server, data, calls>>

(* The browser loads everything again.                                     *)
Reload(t) ==
    /\ Charge
    /\ data' = [data EXCEPT ![t] = [q \in Queries |-> None]]
    /\ errors' = [errors EXCEPT ![t] = {}]
    /\ fetching' = [fetching EXCEPT ![t] = {"meeting"}]
    /\ draft' = [draft EXCEPT ![t] = None]
    /\ editing' = [editing EXCEPT ![t] = FALSE]
    /\ waiting' = [waiting EXCEPT ![t] = None]
    /\ refreshing' = [refreshing EXCEPT ![t] = None]
    /\ UNCHANGED <<server, sent>>

-----------------------------------------------------------------------------
(* The user *)

Type(t, e) ==
    /\ Editable(t)
    /\ e \notin Displayed(t)
    /\ draft' = [draft EXCEPT ![t] = [revision |-> Meeting(t).revision,
                                      minutes |-> Displayed(t) \union {e}]]
    /\ UNCHANGED <<server, queries, editing, calls, faults>>

EditApproved(t) ==
    /\ View(t) = "shown"
    /\ Meeting(t).status = "approved"
    /\ ~editing[t]
    /\ editing' = [editing EXCEPT ![t] = TRUE]
    /\ UNCHANGED <<server, queries, draft, calls, faults>>

Discard(t) ==
    /\ Editable(t)
    /\ draft' = [draft EXCEPT ![t] = None]
    /\ editing' = [editing EXCEPT ![t] = FALSE]
    /\ UNCHANGED <<server, queries, calls, faults>>

(* A request differs from an earlier one that the tab gave up.             *)
Send(t, kind) ==
    LET request == [tab |-> t, kind |-> kind, base |-> Meeting(t).revision,
                    minutes |-> IF kind = "retry" THEN {} ELSE Displayed(t),
                    after |-> faults]
    IN /\ waiting' = [waiting EXCEPT ![t] = request]
       /\ sent' = sent \union {request}
       /\ UNCHANGED <<server, queries, local, refreshing, faults>>

(* The whole of what is displayed is sent, not only what was edited.       *)
Save(t) == Editable(t) /\ Unsaved(t) /\ Send(t, "save")

(* Mutant: unsaved edits do not matter.                                    *)
ApproveUnsaved(t) ==
    /\ Editable(t)
    /\ Meeting(t).status = "review_required"
    /\ Speakers \in Displayed(t)
    /\ Send(t, "approve")

Approve(t) ==
    /\ Editable(t)
    /\ ~Unsaved(t)
    /\ Meeting(t).status = "review_required"
    /\ Speakers \in Displayed(t)
    /\ Send(t, "approve")

Retry(t) == View(t) = "failed" /\ ~Busy(t) /\ Send(t, "retry")

(* Whether the server carries out a request.                               *)
Accepted(r) ==
    CASE r.kind = "save" -> Ready(status) /\ r.base = Revision
      [] r.kind = "approve" -> /\ status = "review_required"
                               /\ r.base = Revision
                               /\ Speakers \in versions[Len(versions)]
      [] r.kind = "retry" -> status = "failed" /\ retries > 0

(* refreshAll after a success, nothing after a refusal.                    *)
Settle(r) ==
    IF waiting[r.tab] = r
    THEN LET Q == IF r.kind = "retry" THEN {"meeting"} ELSE Enabled(r.tab)
         IN /\ waiting' = [waiting EXCEPT ![r.tab] = None]
            /\ IF Accepted(r)
               THEN /\ Fetch(r.tab, Q)
                    /\ refreshing' = [refreshing EXCEPT ![r.tab] = r.kind]
               ELSE UNCHANGED <<errors, fetching, refreshing>>
    ELSE UNCHANGED <<errors, fetching, waiting, refreshing>>

Serve(r) ==
    /\ r \in sent
    /\ sent' = sent \ {r}
    /\ r.kind = "save" => Revision < MaxRevision
    /\ IF ~Accepted(r) THEN UNCHANGED server
       ELSE /\ status' = CASE r.kind = "save" -> "review_required"
                           [] r.kind = "approve" -> "approved"
                           [] r.kind = "retry" -> "processing"
            /\ retries' = IF r.kind = "retry" THEN retries - 1 ELSE retries
            /\ versions' = IF r.kind = "save" THEN Append(versions, r.minutes)
                           ELSE versions
            /\ approved' = IF r.kind = "approve" THEN r.minutes ELSE None
    /\ Settle(r)
    /\ UNCHANGED <<data, local, faults>>

(* The tab reports an error; the request may still be on its way.          *)
GiveUp(t) ==
    /\ waiting[t] # None
    /\ Charge
    /\ waiting' = [waiting EXCEPT ![t] = None]
    /\ UNCHANGED <<server, queries, local, refreshing, sent>>

(* The attempt ends on the server.                                         *)
Compute ==
    /\ status = "processing"
    /\ \/ status' = "review_required" /\ retries' = 0
       \/ status' = "failed" /\ UNCHANGED retries
    /\ UNCHANGED <<versions, approved, queries, local, calls, faults>>

-----------------------------------------------------------------------------
User(t) ==
    \/ \E e \in SpeechEdits \union MinuteEdits : Type(t, e)
    \/ EditApproved(t) \/ Discard(t) \/ Save(t) \/ Approve(t) \/ Retry(t)
    \/ Reload(t)
    \/ \E Q \in SUBSET Queries : Reconnect(t, Q) \/ Return(t, Q)

Network(t) ==
    \/ \E q \in Queries : Fail(t, q)
    \/ GiveUp(t)

Next ==
    \/ \E t \in Tabs : User(t) \/ Network(t) \/ Poll(t)
    \/ \E t \in Tabs, q \in Queries : Answer(t, q)
    \/ \E r \in sent : Serve(r)
    \/ Compute

(* Queries are answered, polls go on, and the attempt ends; nothing is     *)
(* assumed of users.                                                       *)
Fairness ==
    /\ \A t \in Tabs : WF_vars(Poll(t))
    /\ \A t \in Tabs, q \in Queries : WF_vars(Answer(t, q))
    /\ WF_vars(Compute)

Spec == Init /\ [][Next]_vars /\ Fairness

-----------------------------------------------------------------------------
(* Properties *)

(* Two tabs never overwrite each other: the minutes of a revision contain  *)
(* whatever was saved before, since no tab sends minutes that it does not  *)
(* have completely, under a revision that they are not of.                 *)
SavedEditsStay ==
    \A i, j \in 1..Len(versions) : i < j => versions[i] \subseteq versions[j]

(* Approved are the minutes that were on the screen of whoever approved    *)
(* them, also when their request arrives late.                             *)
ApprovedWasSeen ==
    status = "approved" => approved = versions[Len(versions)]

(* The revisions of what the tab has differ: somebody saved between two of *)
(* its reads, and nothing but the user fetches again.                      *)
Mixed(t) ==
    \E p, q \in Queries :
       /\ data[t][p] # None /\ data[t][q] # None
       /\ data[t][p].revision # data[t][q].revision

(* What the tab shows is final, or an error that nothing will repair but   *)
(* the user: only a meeting in processing is polled.                       *)
Ended(t) ==
    \/ View(t) \in {"shown", "failed"}
    \/ /\ View(t) = "unavailable"
       /\ Meeting(t) = None \/ Meeting(t).status # "processing"

(* "Status refreshes automatically": a tab that waits for the processing   *)
(* or loads the results comes to show how it ended, or an error, unless    *)
(* somebody saves meanwhile.                                               *)
ResultsAppear ==
    \A t \in Tabs :
       View(t) \in {"loading", "processing"} ~> Ended(t) \/ Mixed(t)
=============================================================================
