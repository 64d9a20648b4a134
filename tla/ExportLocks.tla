----------------------------- MODULE ExportLocks -----------------------------
(***************************************************************************)
(* Concurrent requests for one meeting, and the threads they need:         *)
(* get_export_pdf, _prepare_export, _LockedPdfResponse and                 *)
(* _release_abandoned_export of api/routes/meetings.py beside put_review   *)
(* and post_approve.                                                       *)
(*                                                                         *)
(* Every call runs in a thread of the event loop's default executor        *)
(* (asyncio.to_thread), a pool of Workers threads fed by one FIFO queue,   *)
(* and waits there for the meeting's flock.  A PUT or an approval releases *)
(* the lock in the same thread.  An export gives its thread back and keeps *)
(* the lock until its bytes are sent; to release it needs a thread again.  *)
(* What the calls write, file by file, is ReviewExport's; here a call that *)
(* fails has done so before, between or after its writes.  The short read  *)
(* of meeting.json in a thread that precedes a PUT or an approval takes no *)
(* lock and is left out.                                                   *)
(***************************************************************************)
EXTENDS Naturals, Sequences, FiniteSets

CONSTANTS
    Exports,     \* GET /export.pdf requests
    Puts,        \* PUT /review requests
    Approvals,   \* POST /approve requests
    Workers,     \* threads of the executor
    None         \* no request, no revision

Requests == Exports \union Puts \union Approvals

ASSUME RequestsAssumption ==
    /\ IsFiniteSet(Requests)
    /\ None \notin Requests \union Nat
    /\ Exports \intersect (Puts \union Approvals) = {}
    /\ Puts \intersect Approvals = {}

ASSUME WorkersAssumption == Workers \in Nat \ {0}

VARIABLES
    at,        \* where each request is
    queue,     \* jobs that wait for a thread
    owner,     \* the request that holds the flock
    gone,      \* exports whose client went away
    revision,  \* the committed revision
    approved,  \* the status: approved or review_required
    payload,   \* the revision of the PDF that each export answers with
    cache,     \* revisions with a PDF and its marker on the disk
    renders    \* how often the PDF of each revision has been rendered

pdfs == <<cache, renders>>

vars == <<at, queue, owner, gone, revision, approved, payload, cache, renders>>

-----------------------------------------------------------------------------

Places == {"new", "queued", "blocked", "working", "ready", "sending",
           "unlock", "done", "lost"}

Revisions == 0..Cardinality(Puts)

Jobs == {"call", "unlock"} \X Requests

(* A thread is taken while a call waits for the flock and works under it.  *)
Busy == { r \in Requests : at[r] \in {"blocked", "working"} }

TypeOK ==
    /\ at \in [Requests -> Places]
    /\ queue \in Seq(Jobs)
    /\ owner \in Requests \union {None}
    /\ gone \subseteq Exports
    /\ revision \in Revisions
    /\ approved \in BOOLEAN
    /\ payload \in [Exports -> Revisions \union {None}]
    /\ cache \subseteq Revisions
    /\ renders \in [Revisions -> Nat]
    /\ Cardinality(Busy) <= Workers

Init ==
    /\ at = [r \in Requests |-> "new"]
    /\ queue = << >>
    /\ owner = None
    /\ gone = {}
    /\ revision = 0
    /\ approved = TRUE
    /\ payload = [r \in Exports |-> None]
    /\ cache = {}
    /\ renders = [v \in Revisions |-> 0]

Go(r, place) == at' = [at EXCEPT ![r] = place]

(* asyncio.to_thread: the job is appended to the executor's queue.         *)
Submit(kind, r) == queue' = Append(queue, <<kind, r>>)

-----------------------------------------------------------------------------
(* The executor *)

(* The event loop starts a request's handler.                              *)
Arrive(r) ==
    /\ at[r] = "new"
    /\ Go(r, "queued")
    /\ Submit("call", r)
    /\ UNCHANGED <<owner, gone, revision, approved, payload, pdfs>>

(* A thread waits for work.                                                *)
Free == Cardinality(Busy) < Workers

(* A free thread takes the oldest job.  An unlock closes the descriptor of *)
(* the lock file and needs no more time.                                   *)
TakeCall(r) ==
    /\ Free
    /\ queue # << >> /\ Head(queue) = <<"call", r>>
    /\ queue' = Tail(queue)
    /\ Go(r, "blocked")
    /\ UNCHANGED <<owner, gone, revision, approved, payload, pdfs>>

TakeUnlock(r) ==
    /\ Free
    /\ queue # << >> /\ Head(queue) = <<"unlock", r>>
    /\ queue' = Tail(queue)
    /\ owner' = None
    /\ Go(r, "done")
    /\ UNCHANGED <<gone, revision, approved, payload, pdfs>>

(* flock: one of the blocked calls gets the lock.                          *)
Lock(r) ==
    /\ at[r] = "blocked"
    /\ owner = None
    /\ owner' = r
    /\ Go(r, "working")
    /\ UNCHANGED <<queue, gone, revision, approved, payload, pdfs>>

(* The call ends in its thread, and the with statement closes the lock:    *)
(* PUT and approve after their commit, every call after an error.          *)
Leave(r, place) ==
    /\ at[r] = "working"
    /\ owner' = None
    /\ Go(r, place)
    /\ UNCHANGED <<queue, gone>>

-----------------------------------------------------------------------------
(* The calls *)

(* A call that is refused, or that fails and leaves all as it was: 404,    *)
(* 409, 422 or 503.                                                        *)
Refuse(r) ==
    /\ Leave(r, "done")
    /\ UNCHANGED <<revision, approved, payload, pdfs>>

(* The PUT drops the PDF of an approved revision and commits its own,      *)
(* which is not approved.  One that fails after its record has become      *)
(* visible answers 503 and leaves the same.                                *)
PutReview(r) ==
    /\ r \in Puts
    /\ Leave(r, "done")
    /\ revision' = revision + 1
    /\ approved' = FALSE
    /\ cache' = cache \ {revision}
    /\ UNCHANGED <<payload, renders>>

(* The PUT drops the PDF and then fails: the old approval stays, without   *)
(* its PDF.                                                                *)
PutFails(r) ==
    /\ r \in Puts
    /\ approved
    /\ revision \in cache
    /\ Leave(r, "lost")
    /\ cache' = cache \ {revision}
    /\ UNCHANGED <<revision, approved, payload, renders>>

Approve(r) ==
    /\ r \in Approvals
    /\ ~approved
    /\ Leave(r, "done")
    /\ approved' = TRUE
    /\ UNCHANGED <<revision, payload, pdfs>>

Render == renders' = [renders EXCEPT ![revision] = @ + 1]

(* Mutant: the lock covers the building of the PDF only.                   *)
PrepareBriefly(r) ==
    /\ r \in Exports
    /\ at[r] = "working"
    /\ approved
    /\ payload' = [payload EXCEPT ![r] = revision]
    /\ IF revision \in cache THEN UNCHANGED renders ELSE Render
    /\ cache' = cache \union {revision}
    /\ owner' = None
    /\ Go(r, "ready")
    /\ UNCHANGED <<queue, gone, revision, approved>>

(* Mutant: the cache is not looked at.                                     *)
PrepareAlways(r) ==
    /\ r \in Exports
    /\ at[r] = "working"
    /\ approved
    /\ payload' = [payload EXCEPT ![r] = revision]
    /\ Render
    /\ cache' = cache \union {revision}
    /\ Go(r, "ready")
    /\ UNCHANGED <<queue, owner, gone, revision, approved>>

(* _prepare_export: the PDF is taken from the cache, or rendered and       *)
(* written there; the thread is given back and the lock goes with the      *)
(* result.                                                                 *)
Prepare(r) ==
    /\ r \in Exports
    /\ at[r] = "working"
    /\ approved
    /\ payload' = [payload EXCEPT ![r] = revision]
    /\ IF revision \in cache THEN UNCHANGED renders ELSE Render
    /\ cache' = cache \union {revision}
    /\ Go(r, "ready")
    /\ UNCHANGED <<queue, owner, gone, revision, approved>>

(* The PDF is rendered and the export fails all the same: in the writing   *)
(* of the PDF or its marker, half of which the next export throws away, or *)
(* once both are there, in the last sync or in _clear_exporting_stage.     *)
PrepareFails(r) ==
    /\ r \in Exports
    /\ approved
    /\ revision \notin cache
    /\ Render
    /\ \/ Leave(r, "lost") /\ UNCHANGED cache
       \/ Leave(r, "done") /\ cache' = cache \union {revision}
    /\ UNCHANGED <<revision, approved, payload>>

-----------------------------------------------------------------------------
(* The event loop *)

(* The client goes away: the shielded task goes on.                        *)
Cancel(r) ==
    /\ r \in Exports \ gone
    /\ at[r] \in {"queued", "blocked", "working", "ready"}
    /\ gone' = gone \union {r}
    /\ UNCHANGED <<at, queue, owner, revision, approved, payload, pdfs>>

(* The handler resumes and starts the response.                            *)
Respond(r) ==
    /\ at[r] = "ready"
    /\ r \notin gone
    /\ Go(r, "sending")
    /\ UNCHANGED <<queue, owner, gone, revision, approved, payload, pdfs>>

(* Mutant: nobody releases the lock of an export that was cancelled.       *)
ReleaseAbandonedNot(r) ==
    /\ at[r] = "ready"
    /\ r \in gone
    /\ Go(r, "done")
    /\ UNCHANGED <<queue, owner, gone, revision, approved, payload, pdfs>>

(* _release_abandoned_export, the callback of a cancelled request's task.  *)
ReleaseAbandoned(r) ==
    /\ at[r] = "ready"
    /\ r \in gone
    /\ Go(r, "unlock")
    /\ Submit("unlock", r)
    /\ UNCHANGED <<owner, gone, revision, approved, payload, pdfs>>

(* _LockedPdfResponse: the bytes are sent, or sending them failed.         *)
Send(r) ==
    /\ at[r] = "sending"
    /\ Go(r, "unlock")
    /\ Submit("unlock", r)
    /\ UNCHANGED <<owner, gone, revision, approved, payload, pdfs>>

Serve(r) ==
    \/ TakeCall(r) \/ TakeUnlock(r) \/ Lock(r)
    \/ Refuse(r) \/ PutReview(r) \/ PutFails(r) \/ Approve(r)
    \/ Prepare(r) \/ PrepareFails(r)
    \/ Respond(r) \/ ReleaseAbandoned(r) \/ Send(r)

Next == \E r \in Requests : Arrive(r) \/ Cancel(r) \/ Serve(r)

Spec == Init /\ [][Next]_vars

(* Threads run, the kernel hands the lock on, the event loop resumes what  *)
(* is ready: what the server can do for a request is not put off for ever. *)
FairSpec == Spec /\ \A r \in Requests : WF_vars(Serve(r))

-----------------------------------------------------------------------------
(* Properties *)

(* _LockedPdfResponse: "Keep the approved revision locked until its bytes  *)
(* leave the ASGI app".  From the moment the PDF is ready until it is      *)
(* sent, it is the PDF of the current revision, and the meeting is         *)
(* approved; no PUT answered in between.                                   *)
BytesAreCurrent ==
    \A r \in Exports :
       at[r] \in {"ready", "sending"} => approved /\ payload[r] = revision

(* The calls that ended with a 503 and left the approved revision without  *)
(* its PDF: dropped by a PUT that did not commit, or never stored by an    *)
(* export that had rendered it.                                            *)
Lost == { r \in Requests : at[r] = "lost" }

(* API_CONTRACT.md: however many exports arrive together, the PDF of a     *)
(* revision is created once.  Only a call that failed and lost it makes    *)
(* one of the others render it again: one rendering for each such call,    *)
(* whoever waits for the lock meanwhile.                                   *)
PDFBuiltOnce ==
    \A v \in Revisions : renders[v] <= 1 + Cardinality(Lost)

(* The flock always has somebody who will release it: its owner works in a *)
(* thread, is about to answer, or has its unlock in the queue.             *)
LockHasAnOwner ==
    owner # None =>
       \/ at[owner] \in {"working", "ready", "sending"}
       \/ at[owner] = "unlock" /\ \E i \in DOMAIN queue : queue[i] = <<"unlock", owner>>

(* Every call on the meeting comes to its end, whether its client waits or *)
(* not.                                                                    *)
EveryCallEnds ==
    \A r \in Requests : at[r] = "queued" ~> at[r] \in {"done", "lost"}
==============================================================================
