-------------------------- MODULE MeetingLifecycle --------------------------
(***************************************************************************)
(* The life of the meetings of one data root: the API's create, retry,     *)
(* review and delete (services/lifecycle.py, api/routes/meetings.py), the  *)
(* scheduler's tick (services/coordinator_runtime.py) with its janitor     *)
(* sweep (services/local_janitor.py) and the coordinator's step, one await *)
(* or durable write at a time (services/coordinator.py), against a GPU     *)
(* service that is modelled from how the backend calls it.                 *)
(*                                                                         *)
(* A step holds the meeting's lifecycle lock, so API calls on the same     *)
(* meeting wait for it, while calls on other meetings, the GPU service,    *)
(* the clocks and a crash of the process come in between.  Only process    *)
(* crashes are modelled here: what a write shows is what survives.  Power  *)
(* losses are the subject of ResultPublication, review revisions and PDFs  *)
(* that of ReviewExport.                                                   *)
(***************************************************************************)
EXTENDS Naturals, FiniteSets, Sequences

CONSTANTS
    Meetings,      \* identities of the meetings
    MaxAttempts,   \* attempts of one meeting, the literal 3 of retry_meeting
    MaxFaults      \* bound: failing calls and crashes in one run

ASSUME MaxAttemptsAssumption == MaxAttempts \in Nat \ {0}
ASSUME MaxFaultsAssumption == MaxFaults \in Nat

VARIABLES
    life,       \* "absent", "stored" or "deleted"
    record,     \* meeting.json
    manifest,   \* the attempt that manifest.json commits, 0 without one
    upload,     \* TRUE while upload.bin is on disk
    deadline,   \* TRUE once temporary_expires_at has passed
    gpu,        \* the GPU service's job for every attempt
    runs,       \* how often the GPU service ran inference for the attempt
    tick,       \* what the scheduler is doing: "idle", "sweep" or "scan"
    todo,       \* meetings the sweep or scan still has to visit
    pc,         \* each meeting's place in its step, "idle" outside of one
    deleting,   \* DELETEs that hold the lifecycle lock, waiting for the tick
    faults      \* faults so far

api == <<life, deleting>>
remote == <<gpu, runs>>
schedule == <<tick, todo>>
vars == <<api, record, manifest, upload, deadline, remote, schedule, pc, faults>>

-----------------------------------------------------------------------------
(* Types *)

Attempts == 1..MaxAttempts

Ready == {"review_required", "approved"}

CleanupStatus == {"pending", "deleted", "expired"}

(* JobRecord: bound stands for a known job_id, ack for ack_pending.        *)
Job == [bound : BOOLEAN, started : BOOLEAN, cleanup : CleanupStatus,
        ack : BOOLEAN]

(* MeetingRecord: the attempt is the length of the job history.            *)
Record == [status  : {"queued", "processing", "failed"} \union Ready,
           local   : CleanupStatus,
           cleanup : CleanupStatus,
           jobs    : UNION { [1..n -> Job] : n \in Attempts }]

(* "sent": a request under way that nobody waits for any more.  "reserved":*)
(* the key is taken, the audio not yet accepted.  "forgotten": the receipt *)
(* has expired too.                                                        *)
GPUStatus == {"none", "sent", "reserved", "running", "completed", "failed",
              "expired", "forgotten"}

Places == {"idle", "reconcile", "advance", "lookup", "source", "submit",
           "fetch", "record", "manifest", "cleanup", "ack"}

TypeOK ==
    /\ life \in [Meetings -> {"absent", "stored", "deleted"}]
    /\ record \in [Meetings -> Record]
    /\ manifest \in [Meetings -> 0..MaxAttempts]
    /\ upload \in [Meetings -> BOOLEAN]
    /\ deadline \in [Meetings -> BOOLEAN]
    /\ gpu \in [Meetings -> [Attempts -> [status : GPUStatus,
                                          clean : CleanupStatus]]]
    /\ runs \in [Meetings -> [Attempts -> Nat]]
    /\ tick \in {"idle", "sweep", "scan"}
    /\ todo \subseteq Meetings
    /\ pc \in [Meetings -> Places]
    /\ deleting \subseteq Meetings
    /\ faults \in 0..MaxFaults

-----------------------------------------------------------------------------
(* Reading and writing the record *)

NewJob == [bound |-> FALSE, started |-> FALSE, cleanup |-> "pending",
           ack |-> FALSE]

NewRecord == [status |-> "queued", local |-> "pending", cleanup |-> "pending",
              jobs |-> <<NewJob>>]

Attempt(m) == Len(record[m].jobs)

CurrentJob(m) == record[m].jobs[Attempt(m)]

RemoteJob(m) == gpu[m][Attempt(m)]

Stored == { m \in Meetings : life[m] = "stored" }

(* The results of the current attempt can be read.                         *)
Published(m) == manifest[m] = Attempt(m)

(* read_meeting shows a ready record without results as processing.        *)
Shown(m) ==
    IF record[m].status \in Ready /\ ~Published(m) THEN "processing"
                                                   ELSE record[m].status

SourceAvailable(m) == upload[m] /\ ~deadline[m]

(* _cleanup_status: over the local copy and every attempt.                 *)
CleanupOf(r) ==
    LET statuses == {r.local} \union { r.jobs[a].cleanup : a \in DOMAIN r.jobs }
    IN IF "pending" \in statuses THEN "pending"
       ELSE IF "expired" \in statuses THEN "expired" ELSE "deleted"

WithCleanup(r) == [r EXCEPT !.cleanup = CleanupOf(r)]

(* update_meeting reads the results of a ready record back first, and      *)
(* raises ArtifactNotReady without them.                                   *)
Writable(m, r) == r.status \in Ready => Published(m)

(* A write succeeds, raises after it became visible, or just raises.       *)
Outcome == {"saved", "shown", "lost"}

Faulty(outcome) == IF outcome = "saved" THEN 0 ELSE 1

Charge(n) ==
    /\ faults + n <= MaxFaults
    /\ faults' = faults + n

Write(m, r, outcome) ==
    record' = IF outcome = "lost" THEN record ELSE [record EXCEPT ![m] = r]

Goto(m, place) == pc' = [pc EXCEPT ![m] = place]

(* A step whose write raised is over.                                      *)
Continue(m, outcome, place) == Goto(m, IF outcome = "saved" THEN place ELSE "idle")

Save(m, r, outcome, place) ==
    /\ Write(m, r, outcome)
    /\ Charge(Faulty(outcome))
    /\ Continue(m, outcome, place)

Fail(m, outcome, cost) ==
    /\ Write(m, [record[m] EXCEPT !.status = "failed"], outcome)
    /\ Charge(cost + Faulty(outcome))
    /\ Goto(m, "idle")

(* The lifecycle lock of m is free.                                        *)
Unlocked(m) == pc[m] = "idle" /\ m \notin deleting

-----------------------------------------------------------------------------
Init ==
    /\ life = [m \in Meetings |-> "absent"]
    /\ record = [m \in Meetings |-> NewRecord]
    /\ manifest = [m \in Meetings |-> 0]
    /\ upload = [m \in Meetings |-> FALSE]
    /\ deadline = [m \in Meetings |-> FALSE]
    /\ gpu = [m \in Meetings |->
                [a \in Attempts |-> [status |-> "none", clean |-> "pending"]]]
    /\ runs = [m \in Meetings |-> [a \in Attempts |-> 0]]
    /\ tick = "idle" /\ todo = {}
    /\ pc = [m \in Meetings |-> "idle"]
    /\ deleting = {}
    /\ faults = 0

-----------------------------------------------------------------------------
(* The API *)

(* POST /meetings, once the marker is written: queued, with its audio.     *)
Create(m) ==
    /\ life[m] = "absent"
    /\ life' = [life EXCEPT ![m] = "stored"]
    /\ upload' = [upload EXCEPT ![m] = TRUE]
    /\ UNCHANGED <<record, manifest, deadline, remote, schedule, pc, deleting,
                   faults>>

(* Mutant: one attempt too many.                                           *)
RetryTooOften(m, outcome) ==
    /\ life[m] = "stored"
    /\ Unlocked(m)
    /\ record[m].status = "failed"
    /\ Attempt(m) <= MaxAttempts
    /\ SourceAvailable(m)
    /\ Write(m, [record[m] EXCEPT !.status = "queued", !.cleanup = "pending",
                                  !.jobs = Append(@, NewJob)], outcome)
    /\ Charge(Faulty(outcome))
    /\ UNCHANGED <<api, manifest, upload, deadline, remote, schedule, pc>>

(* POST /retry.                                                            *)
Retry(m, outcome) ==
    /\ life[m] = "stored"
    /\ Unlocked(m)
    /\ record[m].status = "failed"
    /\ Attempt(m) < MaxAttempts
    /\ SourceAvailable(m)
    /\ Write(m, [record[m] EXCEPT !.status = "queued", !.cleanup = "pending",
                                  !.jobs = Append(@, NewJob)], outcome)
    /\ Charge(Faulty(outcome))
    /\ UNCHANGED <<api, manifest, upload, deadline, remote, schedule, pc>>

(* PUT /review and POST /approve rewrite a published record.               *)
Review(m, status, outcome) ==
    /\ life[m] = "stored"
    /\ Unlocked(m)
    /\ Shown(m) \in Ready
    /\ Write(m, [record[m] EXCEPT !.status = status], outcome)
    /\ Charge(Faulty(outcome))
    /\ UNCHANGED <<api, manifest, upload, deadline, remote, schedule, pc>>

(* The checks of DELETE under the lifecycle lock.                          *)
Deletable(m) ==
    /\ record[m].status \notin {"queued", "processing"}
    /\ record[m].cleanup # "pending"
    /\ record[m].local # "pending"
    /\ ~upload[m]
    /\ \A a \in 1..Attempt(m) : /\ record[m].jobs[a].cleanup # "pending"
                                /\ ~record[m].jobs[a].ack

(* DELETE passes its checks and waits for the coordinator lock.            *)
DeleteBegins(m) ==
    /\ life[m] = "stored"
    /\ Unlocked(m)
    /\ Deletable(m)
    /\ deleting' = deleting \union {m}
    /\ UNCHANGED <<life, record, manifest, upload, deadline, remote, schedule,
                   pc, faults>>

(* It gets the lock between two ticks and moves the folder away; when the  *)
(* move cannot be made durable, it moves it back and raises.               *)
DeleteEnds(m, ok) ==
    /\ m \in deleting
    /\ tick = "idle"
    /\ life' = IF ok THEN [life EXCEPT ![m] = "deleted"] ELSE life
    /\ Charge(IF ok THEN 0 ELSE 1)
    /\ deleting' = deleting \ {m}
    /\ UNCHANGED <<record, manifest, upload, deadline, remote, schedule, pc>>

-----------------------------------------------------------------------------
(* The tick *)

TickBegins ==
    /\ tick = "idle"
    /\ tick' = "sweep"
    /\ todo' = Stored
    /\ UNCHANGED <<api, record, manifest, upload, deadline, remote, pc, faults>>

Expirable(m) == record[m].local = "pending" /\ deadline[m]

(* The non-blocking lifecycle lock is taken, or there is nothing to do.    *)
SweepSkips(m) ==
    /\ tick = "sweep"
    /\ m \in todo
    /\ ~Unlocked(m) \/ ~Expirable(m)
    /\ todo' = todo \ {m}
    /\ UNCHANGED <<api, record, manifest, upload, deadline, remote, tick, pc,
                   faults>>

(* Mutant: an attempt whose job is not known is taken for never sent.      *)
ExpiredUnsent(r) ==
    WithCleanup([r EXCEPT
        !.local = "expired",
        !.jobs = [a \in DOMAIN @ |->
                    IF ~@[a].bound /\ @[a].cleanup = "pending"
                    THEN [@[a] EXCEPT !.cleanup = "expired"] ELSE @[a]]])

(* _record_expiry: the local copy expired, and so did every attempt that   *)
(* never sent anything.                                                    *)
Expired(r) ==
    WithCleanup([r EXCEPT
        !.local = "expired",
        !.jobs = [a \in DOMAIN @ |->
                    IF ~@[a].bound /\ ~@[a].started /\ @[a].cleanup = "pending"
                    THEN [@[a] EXCEPT !.cleanup = "expired"] ELSE @[a]]])

(* How delete_upload ends: "unlinked" raises after the file is gone.       *)
Removal == {"removed", "unlinked", "failed"}

Unremoved(removal) == IF removal = "removed" THEN 0 ELSE 1

Remove(m, removal) ==
    upload' = IF removal = "failed" THEN upload ELSE [upload EXCEPT ![m] = FALSE]

(* Mutant: the expiry is recorded although the removal failed.             *)
SweepExpiresAnyway(m, removal, outcome) ==
    /\ tick = "sweep"
    /\ m \in todo
    /\ Unlocked(m)
    /\ Expirable(m)
    /\ Writable(m, record[m])
    /\ Remove(m, removal)
    /\ Write(m, Expired(record[m]), outcome)
    /\ Charge(Unremoved(removal) + Faulty(outcome))
    /\ todo' = todo \ {m}
    /\ UNCHANGED <<api, manifest, deadline, remote, tick, pc>>

(* _expire_upload.  The write raises in the ways the sweep survives.       *)
SweepExpires(m, removal, outcome) ==
    /\ tick = "sweep"
    /\ m \in todo
    /\ Unlocked(m)
    /\ Expirable(m)
    /\ Writable(m, record[m])
    /\ Remove(m, removal)
    /\ Write(m, IF removal = "removed" THEN Expired(record[m]) ELSE record[m],
             outcome)
    /\ Charge(Unremoved(removal) + Faulty(outcome))
    /\ todo' = todo \ {m}
    /\ UNCHANGED <<api, manifest, deadline, remote, tick, pc>>

(* update_meeting raises ArtifactNotReady, which the sweep does not catch: *)
(* run_forever reports a failed scan, and the tick is over for everybody.  *)
SweepAborts(m, removal) ==
    /\ tick = "sweep"
    /\ m \in todo
    /\ Unlocked(m)
    /\ Expirable(m)
    /\ ~Writable(m, record[m])
    /\ Remove(m, removal)
    /\ Charge(Unremoved(removal))
    /\ tick' = "idle"
    /\ todo' = {}
    /\ UNCHANGED <<api, record, manifest, deadline, remote, pc>>

ScanBegins ==
    /\ tick = "sweep"
    /\ todo = {}
    /\ tick' = "scan"
    /\ todo' = Stored
    /\ UNCHANGED <<api, record, manifest, upload, deadline, remote, pc, faults>>

(* Mutant: queued meetings wait for somebody else.                         *)
EligibleStarted(m) ==
    \/ Shown(m) = "processing"
    \/ Shown(m) \in Ready /\ record[m].cleanup = "pending"
    \/ /\ Shown(m) = "failed"
       /\ \E a \in 1..Attempt(m) : /\ record[m].jobs[a].bound
                                   /\ record[m].jobs[a].cleanup = "pending"

(* Mutant: a failed meeting needs no more steps.                           *)
EligibleUnfailed(m) ==
    \/ Shown(m) \in {"queued", "processing"}
    \/ Shown(m) \in Ready /\ record[m].cleanup = "pending"

(* What the scan hands to process_once.                                    *)
Eligible(m) ==
    \/ Shown(m) \in {"queued", "processing"}
    \/ Shown(m) \in Ready /\ record[m].cleanup = "pending"
    \/ /\ Shown(m) = "failed"
       /\ \E a \in 1..Attempt(m) : /\ record[m].jobs[a].bound
                                   /\ record[m].jobs[a].cleanup = "pending"

Quiet == \A m \in Meetings : pc[m] = "idle"

ScanSkips(m) ==
    /\ tick = "scan" /\ Quiet
    /\ m \in todo
    /\ m \in deleting \/ ~Eligible(m)
    /\ todo' = todo \ {m}
    /\ UNCHANGED <<api, record, manifest, upload, deadline, remote, tick, pc,
                   faults>>

StepBegins(m) ==
    /\ tick = "scan" /\ Quiet
    /\ m \in todo \ deleting
    /\ Eligible(m)
    /\ todo' = todo \ {m}
    /\ Goto(m, "reconcile")
    /\ UNCHANGED <<api, record, manifest, upload, deadline, remote, tick, faults>>

TickEnds ==
    /\ tick = "scan" /\ Quiet
    /\ todo = {}
    /\ tick' = "idle"
    /\ UNCHANGED <<api, record, manifest, upload, deadline, remote, todo, pc,
                   faults>>

-----------------------------------------------------------------------------
(* The coordinator's step *)

(* The attempts whose GPU copy _reconcile_pending_jobs asks about.         *)
Open(m) ==
    { a \in 1..Attempt(m) :
        LET job == record[m].jobs[a]
        IN /\ job.bound /\ job.cleanup = "pending"
           /\ a = Attempt(m) =>
                /\ record[m].status \notin {"queued", "processing"}
                /\ record[m].status \in Ready => ~job.ack }

Confirmed(m, asked) ==
    { a \in asked : /\ gpu[m][a].clean # "pending"
                    /\ gpu[m][a].status # "forgotten" }

Reconciled(m, asked) ==
    WithCleanup([record[m] EXCEPT !.jobs =
        [a \in DOMAIN @ |->
            IF a \in Confirmed(m, asked)
            THEN [@[a] EXCEPT !.cleanup = gpu[m][a].clean, !.ack = FALSE]
            ELSE @[a]]])

(* The GPU service answers for the attempts in asked.  A write here raises *)
(* past _advance, and a half published record cannot be written at all.    *)
Reconcile(m, asked, outcome) ==
    /\ pc[m] = "reconcile"
    /\ asked \subseteq Open(m)
    /\ LET unanswered == IF asked = Open(m) THEN 0 ELSE 1
       IN IF Confirmed(m, asked) # {} /\ Writable(m, record[m])
          THEN /\ Write(m, Reconciled(m, asked), outcome)
               /\ Continue(m, outcome, "advance")
               /\ Charge(unanswered + Faulty(outcome))
          ELSE /\ outcome = "saved"
               /\ UNCHANGED record
               /\ Goto(m, IF Confirmed(m, asked) = {} THEN "advance" ELSE "idle")
               /\ Charge(unanswered)
    /\ UNCHANGED <<api, manifest, upload, deadline, remote, schedule>>

(* Nothing to advance in a failed meeting.                                 *)
LeaveFailed(m) ==
    /\ pc[m] = "advance"
    /\ record[m].status = "failed"
    /\ Goto(m, "idle")
    /\ UNCHANGED <<api, record, manifest, upload, deadline, remote, schedule,
                   faults>>

(* Mutant: the manifest is not looked for first.                           *)
WorkingAgain(m) == record[m].status # "failed"

Working(m) == record[m].status # "failed" /\ ~Published(m)

(* The results are there: publish_results only fsyncs them again.          *)
Republish(m, ok) ==
    /\ pc[m] = "advance"
    /\ record[m].status # "failed"
    /\ Published(m)
    /\ Goto(m, IF ok THEN "cleanup" ELSE "idle")
    /\ Charge(IF ok THEN 0 ELSE 1)
    /\ UNCHANGED <<api, record, manifest, upload, deadline, remote, schedule>>

(* Without a job: stage uploading_to_gpu, then look the key up unless      *)
(* nothing was ever sent under it.                                         *)
Start(m, outcome) ==
    /\ pc[m] = "advance"
    /\ Working(m)
    /\ ~CurrentJob(m).bound
    /\ Save(m, [record[m] EXCEPT !.status = "processing"], outcome,
            IF CurrentJob(m).started THEN "lookup" ELSE "source")
    /\ UNCHANGED <<api, manifest, upload, deadline, remote, schedule>>

(* Mutant: an expired job is waited for.                                   *)
LearnHopefully(m, job, outcome) ==
    Save(m, [record[m] EXCEPT
               !.jobs[Attempt(m)].bound = TRUE,
               !.jobs[Attempt(m)].cleanup = job.clean,
               !.status = IF job.status = "failed" THEN "failed"
                                                   ELSE "processing"],
         outcome, IF job.status = "completed" THEN "fetch" ELSE "idle")

(* A JobV1 arrives: it is bound, its cleanup copied, and the status        *)
(* follows it.                                                             *)
Learn(m, job, outcome) ==
    LET over == job.status \in {"failed", "expired"}
    IN Save(m, [record[m] EXCEPT
                  !.jobs[Attempt(m)].bound = TRUE,
                  !.jobs[Attempt(m)].cleanup = job.clean,
                  !.status = IF over THEN "failed" ELSE "processing"],
            outcome, IF job.status = "completed" THEN "fetch" ELSE "idle")

Known == {"running", "completed", "failed", "expired"}

(* get_job on a bound job.                                                 *)
Poll(m, outcome) ==
    /\ pc[m] = "advance"
    /\ Working(m)
    /\ CurrentJob(m).bound
    /\ RemoteJob(m).status \in Known
    /\ Learn(m, RemoteJob(m), outcome)
    /\ UNCHANGED <<api, manifest, upload, deadline, remote, schedule>>

(* get_job_by_key after a submission of unknown outcome.                   *)
LookupFinds(m, outcome) ==
    /\ pc[m] = "lookup"
    /\ RemoteJob(m).status \in Known
    /\ Learn(m, RemoteJob(m), outcome)
    /\ UNCHANGED <<api, manifest, upload, deadline, remote, schedule>>

LookupMisses(m) ==
    /\ pc[m] = "lookup"
    /\ RemoteJob(m).status \in {"none", "sent", "forgotten"}
    /\ Goto(m, "source")
    /\ UNCHANGED <<api, record, manifest, upload, deadline, remote, schedule,
                   faults>>

(* submission_pending, or 404 job_not_found for a job once known: nothing  *)
(* changes, the next tick asks again.                                      *)
Wait(m) ==
    /\ \/ pc[m] = "lookup" /\ RemoteJob(m).status = "reserved"
       \/ /\ pc[m] = "advance" /\ Working(m) /\ CurrentJob(m).bound
          /\ RemoteJob(m).status = "forgotten"
       \/ pc[m] = "fetch" /\ RemoteJob(m).status = "forgotten"
    /\ Goto(m, "idle")
    /\ UNCHANGED <<api, record, manifest, upload, deadline, remote, schedule,
                   faults>>

(* GPUUnavailable ends the step.                                           *)
Unavailable(m) ==
    /\ \/ pc[m] \in {"lookup", "fetch"}
       \/ pc[m] = "advance" /\ Working(m) /\ CurrentJob(m).bound
    /\ Charge(1)
    /\ Goto(m, "idle")
    /\ UNCHANGED <<api, record, manifest, upload, deadline, remote, schedule>>

(* get_job or get_job_by_key is refused or answers what no JobV1 is: the   *)
(* service is at fault, and the meeting fails without a receipt.           *)
QueryFails(m, outcome) ==
    /\ \/ pc[m] = "lookup"
       \/ pc[m] = "advance" /\ Working(m) /\ CurrentJob(m).bound
    /\ Fail(m, outcome, 1)
    /\ UNCHANGED <<api, manifest, upload, deadline, remote, schedule>>

(* Mutant: the audio is sent for as long as it is on disk.                 *)
SourceLate(m, outcome) ==
    /\ pc[m] = "source"
    /\ IF upload[m]
       THEN Save(m, [record[m] EXCEPT !.jobs[Attempt(m)].started = TRUE],
                 outcome, "submit")
       ELSE Fail(m, outcome, 0)
    /\ UNCHANGED <<api, manifest, upload, deadline, remote, schedule>>

(* submit_started is durable before anything is sent.  Without the audio   *)
(* the meeting fails.                                                      *)
Source(m, outcome) ==
    /\ pc[m] = "source"
    /\ IF SourceAvailable(m)
       THEN Save(m, [record[m] EXCEPT !.jobs[Attempt(m)].started = TRUE],
                 outcome, "submit")
       ELSE Fail(m, outcome, 0)
    /\ UNCHANGED <<api, manifest, upload, deadline, remote, schedule>>

SetGPU(m, a, status, clean) ==
    gpu' = [gpu EXCEPT ![m][a] = [status |-> status, clean |-> clean]]

Run(m, a) == runs' = [runs EXCEPT ![m][a] = @ + 1]

(* submit is answered 202: a new job under a free key, else the job that   *)
(* the key already names.                                                  *)
SubmitAnswered(m, outcome) ==
    LET a == Attempt(m)
    IN /\ pc[m] = "submit"
       /\ \/ /\ RemoteJob(m).status \in {"none", "sent", "reserved", "forgotten"}
             /\ SetGPU(m, a, "running", "pending")
             /\ Run(m, a)
          \/ /\ RemoteJob(m).status \in {"running", "completed", "failed"}
             /\ UNCHANGED remote
       /\ Learn(m, gpu'[m][a], outcome)
       /\ UNCHANGED <<api, manifest, upload, deadline, schedule>>

(* The request or its answer is lost; it may still arrive later.           *)
SubmitLost(m) ==
    /\ pc[m] = "submit"
    /\ IF RemoteJob(m).status = "none"
       THEN SetGPU(m, Attempt(m), "sent", "pending")
       ELSE UNCHANGED gpu
    /\ Charge(1)
    /\ Goto(m, "idle")
    /\ UNCHANGED <<api, record, manifest, upload, deadline, runs, schedule>>

(* Refused (4xx), 410 for an expired job, or the audio cannot be opened.   *)
SubmitFails(m, outcome) ==
    /\ pc[m] = "submit"
    /\ Fail(m, outcome, 0)
    /\ UNCHANGED <<api, manifest, upload, deadline, remote, schedule>>

(* get_result delivers the bundle.                                         *)
Fetch(m) ==
    /\ pc[m] = "fetch"
    /\ RemoteJob(m) = [status |-> "completed", clean |-> "pending"]
    /\ Goto(m, "record")
    /\ UNCHANGED <<api, record, manifest, upload, deadline, remote, schedule,
                   faults>>

(* 410 after the cleanup, or a bundle that does not validate.              *)
FetchFails(m, outcome) ==
    /\ pc[m] = "fetch"
    /\ RemoteJob(m).status \in {"completed", "expired"}
    /\ Fail(m, outcome, 0)
    /\ UNCHANGED <<api, manifest, upload, deadline, remote, schedule>>

(* publish_results: the originals, then meeting.json.                      *)
PublishRecord(m, outcome) ==
    /\ pc[m] = "record"
    /\ Save(m, [record[m] EXCEPT !.status = "review_required",
                                 !.jobs[Attempt(m)].ack = TRUE],
            outcome, "manifest")
    /\ UNCHANGED <<api, manifest, upload, deadline, remote, schedule>>

(* Then the manifest, the commit marker.                                   *)
PublishManifest(m, outcome) ==
    /\ pc[m] = "manifest"
    /\ manifest' = IF outcome = "lost" THEN manifest
                   ELSE [manifest EXCEPT ![m] = Attempt(m)]
    /\ Charge(Faulty(outcome))
    /\ Continue(m, outcome, "cleanup")
    /\ UNCHANGED <<api, record, upload, deadline, remote, schedule>>

(* _cleanup: the audio goes first; a failing removal is tolerated.         *)
RemoveUpload(m, removal, outcome) ==
    /\ pc[m] = "cleanup"
    /\ record[m].local = "pending"
    /\ Remove(m, removal)
    /\ Write(m, IF removal = "removed"
                THEN [record[m] EXCEPT !.local = "deleted"] ELSE record[m],
             outcome)
    /\ Charge(Unremoved(removal) + Faulty(outcome))
    /\ Continue(m, outcome, "ack")
    /\ UNCHANGED <<api, manifest, deadline, remote, schedule>>

UploadGone(m) ==
    /\ pc[m] = "cleanup"
    /\ record[m].local # "pending"
    /\ Goto(m, "ack")
    /\ UNCHANGED <<api, record, manifest, upload, deadline, remote, schedule,
                   faults>>

(* The ACK erases the GPU copy; its answer may be lost, and an expired job *)
(* whose copy is not yet confirmed gone, or a forgotten one, gives an      *)
(* error.  ack_pending stays set until a receipt is read.                  *)
Acknowledge(m, arrives, answered, outcome) ==
    LET a == Attempt(m)
        erased == IF RemoteJob(m).status = "completed" /\ RemoteJob(m).clean = "pending"
                  THEN "deleted" ELSE RemoteJob(m).clean
        receipt == RemoteJob(m).status \in {"completed", "expired"} /\ erased # "pending"
        refused == arrives /\ ~receipt
        done == [record[m] EXCEPT !.jobs[a].cleanup = erased,
                                  !.jobs[a].ack = FALSE]
    IN /\ pc[m] = "ack"
       /\ CurrentJob(m).ack
       /\ answered => arrives /\ receipt
       /\ IF arrives THEN gpu' = [gpu EXCEPT ![m][a].clean = erased]
                     ELSE UNCHANGED gpu
       /\ Write(m, WithCleanup(IF answered THEN done ELSE record[m]), outcome)
       /\ Charge((IF answered \/ refused THEN 0 ELSE 1) + Faulty(outcome))
       /\ Goto(m, "idle")
       /\ UNCHANGED <<api, manifest, upload, deadline, runs, schedule>>

(* No ACK is owed: only the public cleanup_status is brought up to date.   *)
Close(m, outcome) ==
    /\ pc[m] = "ack"
    /\ ~CurrentJob(m).ack
    /\ Save(m, WithCleanup(record[m]), outcome, "idle")
    /\ UNCHANGED <<api, manifest, upload, deadline, remote, schedule>>

-----------------------------------------------------------------------------
(* The GPU service, the clocks and the process *)

(* A request that was given up arrives after all, or never does.           *)
Deliver(m, a) ==
    /\ gpu[m][a].status = "sent"
    /\ \E status \in {"none", "reserved"} : SetGPU(m, a, status, "pending")
    /\ UNCHANGED <<api, record, manifest, upload, deadline, runs, schedule, pc,
                   faults>>

(* A reserved key becomes a job, or is released.                           *)
Accept(m, a) ==
    /\ gpu[m][a].status = "reserved"
    /\ \/ SetGPU(m, a, "running", "pending") /\ Run(m, a)
       \/ SetGPU(m, a, "none", "pending") /\ UNCHANGED runs
    /\ UNCHANGED <<api, record, manifest, upload, deadline, schedule, pc, faults>>

Finish(m, a) ==
    /\ gpu[m][a].status = "running"
    /\ \E status \in {"completed", "failed"} : SetGPU(m, a, status, "pending")
    /\ UNCHANGED <<api, record, manifest, upload, deadline, runs, schedule, pc,
                   faults>>

(* The payload of a failed job is erased early.                            *)
Erase(m, a) ==
    /\ gpu[m][a] = [status |-> "failed", clean |-> "pending"]
    /\ SetGPU(m, a, "failed", "deleted")
    /\ UNCHANGED <<api, record, manifest, upload, deadline, runs, schedule, pc,
                   faults>>

(* The job's own deadline, and later the confirmed removal.                *)
Expire(m, a) ==
    /\ gpu[m][a].clean = "pending"
    /\ \/ /\ gpu[m][a].status \in {"running", "completed", "failed"}
          /\ \E clean \in {"pending", "expired"} :
                SetGPU(m, a, "expired", clean)
       \/ gpu[m][a].status = "expired" /\ SetGPU(m, a, "expired", "expired")
    /\ UNCHANGED <<api, record, manifest, upload, deadline, runs, schedule, pc,
                   faults>>

(* Receipts are kept for seven days after the cleanup: longer than any     *)
(* upload, and than a submission that was started before the deadline.     *)
Forget(m, a) ==
    /\ gpu[m][a].status \in Known
    /\ gpu[m][a].clean # "pending"
    /\ deadline[m] /\ pc[m] \notin {"source", "submit"}
    /\ SetGPU(m, a, "forgotten", gpu[m][a].clean)
    /\ UNCHANGED <<api, record, manifest, upload, deadline, runs, schedule, pc,
                   faults>>

DeadlinePasses(m) ==
    /\ life[m] = "stored"
    /\ ~deadline[m]
    /\ deadline' = [deadline EXCEPT ![m] = TRUE]
    /\ UNCHANGED <<api, record, manifest, upload, remote, schedule, pc, faults>>

(* The backend process dies and is started again.                          *)
Crash ==
    /\ tick # "idle" \/ deleting # {}
    /\ Charge(1)
    /\ tick' = "idle" /\ todo' = {}
    /\ pc' = [m \in Meetings |-> "idle"]
    /\ deleting' = {}
    /\ UNCHANGED <<life, record, manifest, upload, deadline, remote>>

-----------------------------------------------------------------------------
Calls(m) ==
    \/ Create(m)
    \/ \E outcome \in Outcome : \/ Retry(m, outcome)
                                \/ \E status \in Ready : Review(m, status, outcome)
    \/ DeleteBegins(m)

Tick ==
    \/ TickBegins \/ ScanBegins \/ TickEnds
    \/ \E m \in Meetings :
          \/ SweepSkips(m) \/ ScanSkips(m) \/ StepBegins(m)
          \/ \E removal \in Removal :
                \/ SweepAborts(m, removal)
                \/ \E outcome \in Outcome : SweepExpires(m, removal, outcome)

Step(m) ==
    \/ LeaveFailed(m) \/ LookupMisses(m) \/ Wait(m) \/ Unavailable(m)
    \/ SubmitLost(m) \/ Fetch(m) \/ UploadGone(m)
    \/ \E ok \in BOOLEAN : Republish(m, ok)
    \/ \E outcome \in Outcome :
          \/ Start(m, outcome) \/ Poll(m, outcome) \/ LookupFinds(m, outcome)
          \/ Source(m, outcome) \/ SubmitAnswered(m, outcome)
          \/ QueryFails(m, outcome) \/ SubmitFails(m, outcome)
          \/ FetchFails(m, outcome)
          \/ PublishRecord(m, outcome) \/ PublishManifest(m, outcome)
          \/ Close(m, outcome)
          \/ \E asked \in SUBSET Attempts : Reconcile(m, asked, outcome)
          \/ \E removal \in Removal : RemoveUpload(m, removal, outcome)
          \/ \E arrives, answered \in BOOLEAN :
                Acknowledge(m, arrives, answered, outcome)

GPU(m, a) == Deliver(m, a) \/ Accept(m, a) \/ Finish(m, a) \/ Erase(m, a)
             \/ Expire(m, a) \/ Forget(m, a)

Next ==
    \/ Tick
    \/ \E m \in Meetings :
          \/ Calls(m) \/ Step(m) \/ DeadlinePasses(m)
          \/ \E ok \in BOOLEAN : DeleteEnds(m, ok)
          \/ \E a \in Attempts : GPU(m, a)
    \/ Crash

Spec == Init /\ [][Next]_vars

(* run_forever ticks for ever and every GPU call has a timeout; both       *)
(* deadlines are clocks, and the GPU service promises to resolve every     *)
(* reserved key.  Users and the GPU's computations are not fair.           *)
Fairness ==
    /\ WF_vars(Tick \/ \E m \in Meetings : Step(m))
    /\ \A m \in Meetings :
          /\ WF_vars(DeadlinePasses(m))
          /\ \A a \in Attempts : /\ WF_vars(Deliver(m, a))
                                 /\ WF_vars(Accept(m, a))
                                 /\ WF_vars(Expire(m, a))

FairSpec == Spec /\ Fairness

SchedulerSpec == Spec /\ WF_vars(Tick \/ \E m \in Meetings : Step(m))

-----------------------------------------------------------------------------
(* Properties *)

(* A temporary copy of the audio or of a result that the GPU service may   *)
(* hold for the attempt, now or once a request under way arrives.          *)
Held(m, a) ==
    \/ gpu[m][a].status \in {"sent", "reserved"}
    \/ gpu[m][a].status \in Known /\ gpu[m][a].clean = "pending"

(* cleanup_status covers "all temporary copies of all attempts": whenever  *)
(* a meeting says that cleanup is over, and after a DELETE, there is no    *)
(* copy left and none can come back.                                       *)
CleanupIsTrue ==
    \A m \in Meetings :
       life[m] # "absent" /\ record[m].cleanup # "pending" =>
          /\ ~upload[m]
          /\ \A a \in Attempts : ~Held(m, a)

(* However often a submission is lost, repeated or interrupted by a crash, *)
(* one attempt is computed at most once.                                   *)
OneRunPerAttempt == \A m \in Meetings, a \in Attempts : runs[m][a] <= 1

Contract == INSTANCE MeetingContract WITH
    status <- [m \in Meetings |->
                 IF life[m] = "stored" THEN Shown(m) ELSE life[m]],
    attempt <- [m \in Meetings |-> Attempt(m)]

(* What GET shows only ever changes as the API contract permits.           *)
ContractSpec == Contract!Spec

(* A record that says ready without its manifest, which cannot be saved.   *)
HalfPublished(m) == record[m].status \in Ready /\ ~Published(m)

(* The deadline of the upload is kept, whatever the GPU does and whoever   *)
(* holds a lock.                                                           *)
AudioExpires == \A m \in Meetings : deadline[m] ~> ~upload[m]

(* Every uploaded recording is picked up.  With two meetings it is not:    *)
(* one half published meeting past its deadline aborts every sweep, and    *)
(* the scan that should follow never comes ("one storage failure does not  *)
(* block other meetings", test_coordinator_runtime.py).                    *)
QueuedStarts ==
    \A m \in Meetings :
       (life[m] = "stored" /\ Shown(m) = "queued") ~> Shown(m) # "queued"

(* A started attempt ends, in a result or a failure.  Left out are a       *)
(* receipt that expired before it was read, which the contract leaves to   *)
(* the operator, and the half published record, which the reconciliation   *)
(* cannot save, and which the run with two meetings shows getting stuck.   *)
AttemptsEnd ==
    \A m \in Meetings :
       Shown(m) = "processing" ~>
          \/ Shown(m) # "processing" \/ HalfPublished(m)
          \/ RemoteJob(m).status = "forgotten"

(* The removal of every bound GPU copy is recorded in the end.             *)
Unconfirmed(m, a) ==
    /\ a <= Attempt(m)
    /\ record[m].jobs[a].bound
    /\ record[m].jobs[a].cleanup = "pending"

ReceiptsAreRead ==
    \A m \in Meetings, a \in Attempts :
       Unconfirmed(m, a) ~>
          \/ ~Unconfirmed(m, a)
          \/ HalfPublished(m) \/ gpu[m][a].status = "forgotten"

-----------------------------------------------------------------------------
(* What the documents say and the code does not do *)

(* API_CONTRACT.md: cleanup_status is pending "while at least one copy is  *)
(* not confirmed as removed".  Here every copy is confirmed, but the poll  *)
(* that brought the last receipt failed the meeting without bringing       *)
(* cleanup_status up to date, and nothing looks at the meeting again.      *)
ConfirmedCleanupShows ==
    \A m \in Meetings :
       (life[m] = "stored" /\ CleanupOf(record[m]) # "pending") ~>
          (record[m].cleanup # "pending" \/ CleanupOf(record[m]) = "pending")
=============================================================================
