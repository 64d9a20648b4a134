---------------------------- MODULE ReviewExport ----------------------------
(***************************************************************************)
(* Reviewing a published meeting and exporting its PDF: PUT /review and    *)
(* POST /approve (services/reviews.py), GET /export.pdf and its cache      *)
(* (api/routes/meetings.py, services/artifact_store.py).  Each operation   *)
(* holds the meeting's lifecycle lock from its first read to its last      *)
(* write, the export until its bytes are sent, so one runs at a time; any  *)
(* write may fail, the process or the machine may die at every step.       *)
(*                                                                         *)
(* The meeting folder maps entries to values.  "shown" is what a reader    *)
(* finds, "kept" what a power loss may leave of each entry: every value    *)
(* since the last fsync of the folder.                                     *)
(***************************************************************************)
EXTENDS Naturals

CONSTANTS
    Original,     \* the machine result, revision 0
    Edits,        \* the results a reviewer may send
    Reviewed,     \* results in which no voice is left unreviewed
    None,         \* no such file
    MaxRevision,  \* bound: the last revision
    MaxFaults     \* bound: failing calls, crashes and power losses

ASSUME ContentsAssumption ==
    /\ Original \notin Edits
    /\ None \notin Edits \union {Original}
    /\ Reviewed \subseteq Edits \union {Original}

ASSUME BoundsAssumption == MaxRevision \in Nat /\ MaxFaults \in Nat

VARIABLES
    shown,   \* the folder as readers find it
    kept,    \* the values of each entry that a power loss may leave
    pc,      \* the place of the operation that holds the lock
    data,    \* the edit to be saved, or the PDF to be sent
    told,    \* for each revision, the content that a client was confirmed
    faults   \* faults so far

vars == <<shown, kept, pc, data, told, faults>>

-----------------------------------------------------------------------------
(* The folder *)

Revisions == 0..MaxRevision

Contents == Edits \union {Original}

(* The part of meeting.json that review and export change: the stage       *)
(* exporting belongs to an approved meeting (valid_stage).                 *)
State ==
    { s \in [revision : Revisions, status : {"review_required", "approved"},
             exporting : BOOLEAN] :
        s.exporting => s.status = "approved" }

Meeting == <<"meeting.json", 0>>
Snapshot(r) == <<"review.json", r>>
PDF(r) == <<"review.pdf", r>>
Marker(r) == <<"review.pdf.sha256", r>>

(* A snapshot, a PDF and a marker stand for the content they hold or hash. *)
Entries == {Meeting} \union
           ({"review.json", "review.pdf", "review.pdf.sha256"} \X Revisions)

Places == {"idle", "snapshot", "copy", "drop", "commit",
           "purge", "stage", "render", "marker", "clear", "undo", "send"}

TypeOK ==
    /\ shown \in [Entries -> State \union Contents \union {None}]
    /\ shown[Meeting] \in State
    /\ \A e \in Entries : /\ shown[e] \in kept[e]
                          /\ e # Meeting => kept[e] \subseteq Contents \union {None}
    /\ kept[Meeting] \subseteq State
    /\ pc \in Places
    /\ data \in Contents \union {None}
    /\ told \in [Revisions -> Contents \union {None}]
    /\ faults \in 0..MaxFaults

(* A write fails, is visible but raises before its fsync, or is durable.   *)
Outcome == {"failed", "named", "synced"}

Charge(outcome) ==
    LET n == IF outcome = "synced" THEN 0 ELSE 1
    IN faults + n <= MaxFaults /\ faults' = faults + n

(* The folder after the entries in E took the values in v.                 *)
Change(E, v, outcome) ==
    /\ shown' = IF outcome = "failed" THEN shown
                ELSE [e \in Entries |-> IF e \in E THEN v ELSE shown[e]]
    /\ kept' = CASE outcome = "failed" -> kept
                 [] outcome = "named" ->
                       [e \in Entries |-> kept[e] \union {shown'[e]}]
                 [] outcome = "synced" -> [e \in Entries |-> {shown'[e]}]

(* _atomic_write: an operation whose write raised goes to "after".         *)
Write(e, v, outcome, next, after) ==
    /\ Change({e}, v, outcome)
    /\ Charge(outcome)
    /\ pc' = IF outcome = "synced" THEN next ELSE after

(* _atomic_write(immutable=True): other bytes under the name are an error. *)
WriteOnce(e, v, outcome, next, after) ==
    IF shown[e] \in {None, v} THEN Write(e, v, outcome, next, after)
    ELSE /\ outcome = "failed"
         /\ UNCHANGED <<shown, kept, faults>>
         /\ pc' = after

(* delete_pdf_cache: two unlinks, then one fsync.  "half" stops in         *)
(* between.                                                                *)
DropPDF(r, outcome, next) ==
    /\ IF outcome = "half" THEN Change({PDF(r)}, None, "named")
       ELSE Change({PDF(r), Marker(r)}, None, outcome)
    /\ Charge(outcome)
    /\ pc' = IF outcome = "synced" THEN next ELSE "idle"

Now == shown[Meeting]

(* What a reader gets for a revision: None is "Committed review is         *)
(* missing".                                                               *)
Content(r) == IF r = 0 THEN Original ELSE shown[Snapshot(r)]

Init ==
    /\ shown = [e \in Entries |->
                  IF e = Meeting THEN [revision |-> 0, exporting |-> FALSE,
                                       status |-> "review_required"]
                  ELSE None]
    /\ kept = [e \in Entries |-> {shown[e]}]
    /\ pc = "idle"
    /\ data = None
    /\ told = [r \in Revisions |-> IF r = 0 THEN Original ELSE None]
    /\ faults = 0

-----------------------------------------------------------------------------
(* PUT /review *)

(* The base revision must be the current one, else 409 stale_revision.     *)
Put(base, edit) ==
    /\ pc = "idle"
    /\ base = Now.revision
    /\ base < MaxRevision
    /\ data' = edit
    /\ pc' = "snapshot"
    /\ UNCHANGED <<shown, kept, told, faults>>

(* Mutant: an error of the write is swallowed.                             *)
PutSnapshotAnyway(outcome) ==
    /\ pc = "snapshot"
    /\ Write(Snapshot(Now.revision + 1), data, outcome, "copy", "copy")
    /\ UNCHANGED <<data, told>>

(* Mutant: the snapshot of the current revision is overwritten.            *)
PutSnapshotInPlace(outcome) ==
    /\ pc = "snapshot"
    /\ Write(Snapshot(Now.revision), data, outcome, "copy", "idle")
    /\ UNCHANGED <<data, told>>

(* The snapshot of the next revision replaces what an interrupted earlier  *)
(* PUT may have left there.                                                *)
PutSnapshot(outcome) ==
    /\ pc = "snapshot"
    /\ Write(Snapshot(Now.revision + 1), data, outcome, "copy", "idle")
    /\ UNCHANGED <<data, told>>

(* The convenience copy review.json, which nobody reads; its directory     *)
(* fsync covers the folder.                                                *)
PutCopy(outcome) ==
    /\ pc = "copy"
    /\ Change({}, None, outcome)
    /\ Charge(outcome)
    /\ pc' = IF outcome # "synced" THEN "idle"
             ELSE IF Now.status = "approved" THEN "drop" ELSE "commit"
    /\ UNCHANGED <<data, told>>

(* The PDF of an approved revision goes before the revision does.          *)
PutDrop(outcome) ==
    /\ pc = "drop"
    /\ DropPDF(Now.revision, outcome, "commit")
    /\ UNCHANGED <<data, told>>

(* meeting.json commits the revision, and the client gets its 200.         *)
PutCommit(outcome) ==
    LET r == Now.revision + 1
    IN /\ pc = "commit"
       /\ Write(Meeting, [revision |-> r, status |-> "review_required",
                          exporting |-> FALSE], outcome, "idle", "idle")
       /\ told' = IF outcome = "synced" THEN [told EXCEPT ![r] = data] ELSE told
       /\ UNCHANGED data

-----------------------------------------------------------------------------
(* POST /approve *)

(* Mutant: the voices are not looked at.                                   *)
ApproveAnything(outcome) ==
    LET r == Now.revision
    IN /\ pc = "idle"
       /\ Now.status = "review_required"
       /\ Write(Meeting, [Now EXCEPT !.status = "approved"], outcome,
                "idle", "idle")
       /\ told' = IF outcome = "synced" THEN [told EXCEPT ![r] = Content(r)]
                                        ELSE told
       /\ UNCHANGED data

(* One write: base_revision must be current, and all of its voices         *)
(* reviewed.                                                               *)
Approve(outcome) ==
    LET r == Now.revision
    IN /\ pc = "idle"
       /\ Now.status = "review_required"
       /\ Content(r) \in Reviewed
       /\ Write(Meeting, [Now EXCEPT !.status = "approved"], outcome,
                "idle", "idle")
       /\ told' = IF outcome = "synced" THEN [told EXCEPT ![r] = Content(r)]
                                        ELSE told
       /\ UNCHANGED data

-----------------------------------------------------------------------------
(* GET /export.pdf *)

(* Mutant: any meeting with a result is exported.                          *)
ExportUnapproved ==
    LET r == Now.revision
        cached == shown[PDF(r)]
    IN /\ pc = "idle"
       /\ data' = cached
       /\ pc' = IF cached # None /\ shown[Marker(r)] = cached
                THEN "clear" ELSE "render"
       /\ UNCHANGED <<shown, kept, told, faults>>

(* A PDF whose marker does not fit is purged; without one it is built.     *)
Export ==
    LET r == Now.revision
        cached == shown[PDF(r)]
    IN /\ pc = "idle"
       /\ Now.status = "approved"
       /\ data' = cached
       /\ pc' = IF cached = None THEN "stage"
                ELSE IF shown[Marker(r)] = cached THEN "clear" ELSE "purge"
       /\ UNCHANGED <<shown, kept, told, faults>>

ExportPurge(outcome) ==
    /\ pc = "purge"
    /\ DropPDF(Now.revision, outcome, "stage")
    /\ UNCHANGED <<data, told>>

(* Stage exporting is durable before the PDF is rendered.                  *)
ExportStage(outcome) ==
    /\ pc = "stage"
    /\ Write(Meeting, [Now EXCEPT !.exporting = TRUE], outcome, "render", "undo")
    /\ UNCHANGED <<data, told>>

(* The current revision is read again, rendered, and cached.               *)
ExportRender(outcome) ==
    LET content == Content(Now.revision)
    IN /\ pc = "render"
       /\ content # None
       /\ data' = content
       /\ WriteOnce(PDF(Now.revision), content, outcome, "marker", "undo")
       /\ UNCHANGED told

(* A missing snapshot, or anything wrong in reading and rendering.         *)
RenderFails ==
    /\ pc = "render"
    /\ IF Content(Now.revision) = None THEN UNCHANGED faults ELSE Charge("failed")
    /\ pc' = "undo"
    /\ UNCHANGED <<shown, kept, data, told>>

ExportMarker(outcome) ==
    /\ pc = "marker"
    /\ WriteOnce(Marker(Now.revision), data, outcome, "clear", "undo")
    /\ UNCHANGED <<data, told>>

(* _clear_exporting_stage, after success ("clear") and failure ("undo").   *)
ExportClear(outcome) ==
    /\ pc \in {"clear", "undo"}
    /\ IF Now.exporting
       THEN Write(Meeting, [Now EXCEPT !.exporting = FALSE], outcome,
                  IF pc = "clear" THEN "send" ELSE "idle", "idle")
       ELSE /\ outcome = "synced"
            /\ pc' = IF pc = "clear" THEN "send" ELSE "idle"
            /\ UNCHANGED <<shown, kept, faults>>
    /\ UNCHANGED <<data, told>>

(* The bytes leave, then the lock is released.                             *)
ExportSend ==
    /\ pc = "send"
    /\ told' = [told EXCEPT ![Now.revision] = data]
    /\ pc' = "idle"
    /\ UNCHANGED <<shown, kept, data, faults>>

-----------------------------------------------------------------------------
(* Everybody else *)

(* The coordinator and the janitor rewrite meeting.json under the lock,    *)
(* with other fields changed.                                              *)
Housekeeping(outcome) ==
    /\ pc = "idle"
    /\ Write(Meeting, Now, outcome, "idle", "idle")
    /\ UNCHANGED <<data, told>>

Crash ==
    /\ pc # "idle"
    /\ Charge("failed")
    /\ pc' = "idle"
    /\ UNCHANGED <<shown, kept, data, told>>

(* Every entry that was not synced falls back to one of its kept values.   *)
PowerLoss ==
    LET unsynced == { e \in Entries : kept[e] # {shown[e]} }
    IN \E left \in [unsynced -> UNION { kept[e] : e \in unsynced }] :
          /\ \A e \in unsynced : left[e] \in kept[e]
          /\ shown' = [e \in Entries |-> IF e \in unsynced THEN left[e]
                                           ELSE shown[e]]
    /\ Charge("failed")
    /\ kept' = [e \in Entries |-> {shown'[e]}]
    /\ pc' = "idle"
    /\ UNCHANGED <<data, told>>

Next ==
    \/ Export \/ RenderFails \/ ExportSend \/ Crash \/ PowerLoss
    \/ \E base \in Revisions, edit \in Edits : Put(base, edit)
    \/ \E outcome \in Outcome :
          \/ PutSnapshot(outcome) \/ PutCopy(outcome) \/ PutCommit(outcome)
          \/ Approve(outcome)
          \/ ExportStage(outcome) \/ ExportRender(outcome)
          \/ ExportMarker(outcome) \/ ExportClear(outcome)
          \/ Housekeeping(outcome)
    \/ \E outcome \in Outcome \union {"half"} :
          PutDrop(outcome) \/ ExportPurge(outcome)

Spec == Init /\ [][Next]_vars

-----------------------------------------------------------------------------
(* Properties *)

(* What a power loss may leave of the content of a revision.               *)
KeptContent(r) == IF r = 0 THEN {Original} ELSE kept[Snapshot(r)]

(* The snapshot is durable before meeting.json names it: whatever is left, *)
(* the current revision can be read, and it is the one that is read now.   *)
CommittedReviewIsThere ==
    \A s \in kept[Meeting] :
       /\ None \notin KeptContent(s.revision)
       /\ s.revision = Now.revision =>
             KeptContent(s.revision) = {Content(s.revision)}

(* No accepted edit is lost or overwritten: what a client was told of a    *)
(* revision, by the 200 of PUT or approve or by a PDF, stays its content   *)
(* for ever, and the meeting never falls back behind it.                   *)
ConfirmedRevisionStays ==
    \A r \in Revisions :
       told[r] # None =>
          /\ KeptContent(r) = {told[r]}
          /\ \A s \in kept[Meeting] : s.revision >= r

(* A PDF leaves only while its revision is approved, and shows exactly     *)
(* that revision: neither an older content that the cache still held, nor  *)
(* a PDF after the meeting went back to review_required.                   *)
ExportShowsApproved ==
    pc = "send" =>
       \A s \in kept[Meeting] :
          s.status = "approved" /\ KeptContent(s.revision) = {data}

(* A failed export may be repeated: whatever earlier exports, edits and    *)
(* crashes left under the names of the cache, the write-once PDF and       *)
(* marker never meet other bytes there, which would refuse them for ever.  *)
ExportCanBeRepeated ==
    /\ pc = "render" => shown[PDF(Now.revision)] = None
    /\ pc = "marker" => shown[Marker(Now.revision)] \in {None, data}

(* Without the folder, its cache and the steps of operations, review and   *)
(* export are changes of a document in numbered revisions: see             *)
(* ReviewContract.                                                         *)
Stage(s) == [revision |-> s.revision, status |-> s.status]

ShownState == Stage(Now)
PossibleStates == { Stage(s) : s \in kept[Meeting] }
Minutes == [r \in 0..Now.revision |-> Content(r)]

Contract == INSTANCE ReviewContract WITH
    state <- ShownState, possible <- PossibleStates, minutes <- Minutes

(* Each step of PUT, approve and export is one change that the contract    *)
(* permits, or none that a client could see: nothing is approved without a *)
(* review or comes back approved that was not, an edit is all there or not *)
(* at all, and only an answered change is relied on.                       *)
ContractSpec == Contract!Spec
=============================================================================
