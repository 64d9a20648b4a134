------------------------- MODULE ResultPublication -------------------------
(***************************************************************************)
(* How the backend takes over the result of one GPU job: the coordinator's *)
(* poll, fetch, publish, clean up and ACK (services/coordinator.py) on top *)
(* of the meeting folder (services/artifact_store.py), with failing        *)
(* system calls, process crashes and power losses at every step.           *)
(*                                                                         *)
(* The meeting folder is a directory whose entries are seen by readers     *)
(* before they are durable: os.link and os.replace change what is read,    *)
(* only a later fsync of the directory decides what a power loss leaves.   *)
(* File contents are fsynced before they get a name, so an entry that      *)
(* survives has its contents.                                              *)
(*                                                                         *)
(* The model starts with the job bound and polling (see MeetingLifecycle   *)
(* for what comes before and for retries), and ends at "failed".           *)
(***************************************************************************)
EXTENDS Naturals, Sequences, Functions

CONSTANTS
    Originals,  \* names of the write-once result files, in publication order
    Manifest,   \* the name of the commit marker, "manifest.json"
    MaxFaults   \* bound: failing calls, crashes and power losses in one run

OriginalSet == Range(Originals)

ASSUME OriginalsAssumption ==
    /\ Originals \in Seq(OriginalSet)
    /\ Len(Originals) > 0
    /\ Manifest \notin OriginalSet

ASSUME FaultsAssumption == MaxFaults \in Nat

VARIABLES
    names,      \* write-once files a reader of the folder finds
    unsynced,   \* those of them that a power loss may still take away
    record,     \* meeting.json as a reader finds it
    survivors,  \* the versions of it that a power loss may bring back
    upload,     \* upload.bin: "present", "unlinked" (not durably), "removed"
    pc,         \* the coordinator's place in its step, "idle" between steps
    at,         \* position in Originals of the next file to publish
    mem,        \* the coordinator's in-memory copy of the record
    gpu,        \* the GPU job
    deadline,   \* TRUE once the upload's fixed deadline has passed
    faults      \* faults so far

disk == <<names, unsynced, record, survivors, upload>>
vars == <<disk, pc, at, mem, gpu, deadline, faults>>

-----------------------------------------------------------------------------
(* Types *)

Ready == {"review_required", "approved"}

CleanupStatus == {"pending", "deleted", "expired"}

(* The part of MeetingRecord that decides about the result: the status,    *)
(* ack_pending and cleanup_status of its job, local_cleanup_status, and    *)
(* the public cleanup_status.                                              *)
Record == [status  : {"processing", "failed"} \union Ready,
           ack     : BOOLEAN,
           job     : CleanupStatus,
           local   : CleanupStatus,
           cleanup : CleanupStatus]

FileNames == OriginalSet \union {Manifest}

UploadState == {"present", "unlinked", "removed"}

(* "released": erased after an ACK.  "lapsed", "void": the deadline passed *)
(* with and without a result.                                              *)
GPUStatus == {"running", "completed", "failed", "released", "lapsed", "void"}

Places == {"idle", "poll", "fetch", "original", "record", "manifest",
           "resync", "upload", "local", "ack", "final"}

TypeOK ==
    /\ names \subseteq FileNames
    /\ unsynced \subseteq names
    /\ record \in Record
    /\ survivors \subseteq Record
    /\ record \in survivors
    /\ upload \in UploadState
    /\ pc \in Places
    /\ at \in 1..Len(Originals)
    /\ mem \in Record
    /\ gpu \in GPUStatus
    /\ deadline \in BOOLEAN
    /\ faults \in 0..MaxFaults

-----------------------------------------------------------------------------
(* The folder *)

(* How a write ends: it fails before the name changes, it changes the name *)
(* but the directory fsync fails, or both succeed.  The first two raise.   *)
Outcome == {"failed", "named", "synced"}

Faulty(outcome) == IF outcome = "synced" THEN 0 ELSE 1

(* Charge n faults to the bound.                                           *)
Charge(n) ==
    /\ faults + n <= MaxFaults
    /\ faults' = faults + n

AfterSync(u) == IF u = "unlinked" THEN "removed" ELSE u

AfterUnlink(u) == IF u = "present" THEN "unlinked" ELSE u

(* _atomic_write of meeting.json, with upload.bin in state u: replace,     *)
(* then fsync of the folder, which makes every earlier change durable too. *)
WriteRecord(r, u, outcome) ==
    /\ record' = IF outcome = "failed" THEN record ELSE r
    /\ survivors' = CASE outcome = "failed" -> survivors
                      [] outcome = "named"  -> survivors \union {r}
                      [] outcome = "synced" -> {r}
    /\ unsynced' = IF outcome = "synced" THEN {} ELSE unsynced
    /\ upload' = IF outcome = "synced" THEN AfterSync(u) ELSE u
    /\ names' = names

(* _atomic_write(immutable=True) of f.  A file that is already there has   *)
(* the same bytes: it is only fsynced again.                               *)
WriteOnce(f, outcome) ==
    /\ names' = IF outcome = "failed" THEN names ELSE names \union {f}
    /\ unsynced' = CASE outcome = "failed" -> unsynced
                     [] outcome = "named"  -> unsynced \union ({f} \ names)
                     [] outcome = "synced" -> {}
    /\ survivors' = IF outcome = "synced" THEN {record} ELSE survivors
    /\ upload' = IF outcome = "synced" THEN AfterSync(upload) ELSE upload
    /\ UNCHANGED record

Published == Manifest \in names

(* update_meeting reads the results back before it writes a ready record,  *)
(* and raises ArtifactNotReady when the manifest is not there.             *)
Writable(r) == r.status \in Ready => Published

CleanupOf(r) ==
    LET statuses == {r.job, r.local}
    IN IF "pending" \in statuses THEN "pending"
       ELSE IF "expired" \in statuses THEN "expired" ELSE "deleted"

-----------------------------------------------------------------------------
Init ==
    /\ names = {} /\ unsynced = {}
    /\ record = [status |-> "processing", ack |-> FALSE, job |-> "pending",
                 local |-> "pending", cleanup |-> "pending"]
    /\ survivors = {record}
    /\ upload = "present"
    /\ pc = "idle" /\ at = 1 /\ mem = record
    /\ gpu = "running"
    /\ deadline = FALSE
    /\ faults = 0

-----------------------------------------------------------------------------
(* The coordinator *)

(* The sweep that opens every tick aborts the tick when it has to expire   *)
(* the upload of a record it may not write back.                           *)
SweepAborts ==
    /\ deadline
    /\ record.local = "pending"
    /\ ~Writable(record)

(* Mutant: a ready record is taken for a published result.                 *)
BeginTrusting ==
    /\ pc = "idle"
    /\ ~SweepAborts
    /\ \/ record.status = "processing"
       \/ record.status \in Ready /\ record.cleanup = "pending"
    /\ pc' = IF record.status \in Ready THEN "resync" ELSE "poll"
    /\ UNCHANGED <<disk, at, mem, gpu, deadline, faults>>

(* Mutant: the job is polled although its result is already here.          *)
BeginPolling ==
    /\ pc = "idle"
    /\ ~SweepAborts
    /\ \/ record.status = "processing"
       \/ record.status \in Ready /\ record.cleanup = "pending"
    /\ pc' = "poll"
    /\ UNCHANGED <<disk, at, mem, gpu, deadline, faults>>

(* A tick picks the meeting: it is shown as processing, or ready with      *)
(* cleanup pending.  A visible manifest is re-published, a job is polled.  *)
Begin ==
    /\ pc = "idle"
    /\ ~SweepAborts
    /\ \/ record.status = "processing"
       \/ record.status \in Ready /\ ~Published
       \/ record.status \in Ready /\ record.cleanup = "pending"
    /\ pc' = IF Published THEN "resync" ELSE "poll"
    /\ UNCHANGED <<disk, at, mem, gpu, deadline, faults>>

(* Mutant: a failing directory fsync is ignored.                           *)
ContinueUnsynced(outcome, place) ==
    pc' = IF outcome = "failed" THEN "idle" ELSE place

(* A step that wrote goes on only if the write was durable.                *)
Continue(outcome, place) == pc' = IF outcome = "synced" THEN place ELSE "idle"

(* The poll answers queued or processing.                                  *)
PollRunning(outcome) ==
    /\ pc = "poll"
    /\ gpu = "running"
    /\ WriteRecord([record EXCEPT !.status = "processing"], upload, outcome)
    /\ Charge(Faulty(outcome))
    /\ pc' = "idle"
    /\ UNCHANGED <<at, mem, gpu, deadline>>

(* The poll answers completed: stage saving_results, then fetch.           *)
PollCompleted(outcome) ==
    /\ pc = "poll"
    /\ gpu \in {"completed", "released"}
    /\ LET receipt == IF gpu = "released" THEN "deleted" ELSE "pending"
       IN WriteRecord([record EXCEPT !.status = "processing",
                                     !.job = receipt], upload, outcome)
    /\ Charge(Faulty(outcome))
    /\ Continue(outcome, "fetch")
    /\ UNCHANGED <<at, mem, gpu, deadline>>

(* Mutant: an expired job is polled again instead of failing the meeting.  *)
PollEndedIgnoringExpiry(outcome) ==
    /\ pc = "poll"
    /\ gpu = "failed"
    /\ WriteRecord([record EXCEPT !.status = "failed"], upload, outcome)
    /\ Charge(Faulty(outcome))
    /\ pc' = "idle"
    /\ UNCHANGED <<at, mem, gpu, deadline>>

(* The poll answers failed or expired: _fail, with the receipt copied and  *)
(* the public cleanup_status left as it was.                               *)
PollEnded(outcome) ==
    /\ pc = "poll"
    /\ gpu \in {"failed", "lapsed", "void"}
    /\ LET receipt == IF gpu = "failed" THEN "pending" ELSE "expired"
       IN WriteRecord([record EXCEPT !.status = "failed",
                                     !.job = receipt], upload, outcome)
    /\ Charge(Faulty(outcome))
    /\ pc' = "idle"
    /\ UNCHANGED <<at, mem, gpu, deadline>>

(* GPUUnavailable while polling or fetching: nothing changes.              *)
Unavailable ==
    /\ pc \in {"poll", "fetch"}
    /\ Charge(1)
    /\ pc' = "idle"
    /\ UNCHANGED <<disk, at, mem, gpu, deadline>>

(* get_job is refused or answers what no JobV1 is: the service is at       *)
(* fault, and the meeting fails without a receipt.                         *)
PollFails(outcome) ==
    /\ pc = "poll"
    /\ WriteRecord([record EXCEPT !.status = "failed"], upload, outcome)
    /\ Charge(1 + Faulty(outcome))
    /\ pc' = "idle"
    /\ UNCHANGED <<at, mem, gpu, deadline>>

(* get_result delivers the bundle; publish_results begins.                 *)
Fetch ==
    /\ pc = "fetch"
    /\ gpu = "completed"
    /\ pc' = "original"
    /\ at' = 1
    /\ UNCHANGED <<disk, mem, gpu, deadline, faults>>

(* get_result is refused (410), or delivers a bundle that does not         *)
(* validate: the meeting fails.                                            *)
FetchFails(outcome) ==
    /\ pc = "fetch"
    /\ WriteRecord([record EXCEPT !.status = "failed"], upload, outcome)
    /\ Charge(Faulty(outcome))
    /\ pc' = "idle"
    /\ UNCHANGED <<at, mem, gpu, deadline>>

(* Mutant: the loop over the originals runs one position too far.          *)
PublishOriginalTooFar(outcome) ==
    /\ pc = "original"
    /\ WriteOnce(Originals[at], outcome)
    /\ Charge(Faulty(outcome))
    /\ Continue(outcome, IF at < Len(Originals) THEN "original" ELSE "record")
    /\ at' = at + 1
    /\ UNCHANGED <<mem, gpu, deadline>>

(* publish_results writes transcript.json, insights.json, transcript.txt.  *)
PublishOriginal(outcome) ==
    /\ pc = "original"
    /\ WriteOnce(Originals[at], outcome)
    /\ Charge(Faulty(outcome))
    /\ IF at < Len(Originals)
       THEN /\ Continue(outcome, "original")
            /\ at' = IF outcome = "synced" THEN at + 1 ELSE at
       ELSE /\ Continue(outcome, "record")
            /\ at' = at
    /\ UNCHANGED <<mem, gpu, deadline>>

(* Then meeting.json: review_required, and an ACK is owed.                 *)
PublishRecord(outcome) ==
    /\ pc = "record"
    /\ WriteRecord([record EXCEPT !.status = "review_required", !.ack = TRUE],
                   upload, outcome)
    /\ Charge(Faulty(outcome))
    /\ Continue(outcome, "manifest")
    /\ UNCHANGED <<at, mem, gpu, deadline>>

(* _cleanup first removes the upload, unless that is already recorded.     *)
CleanupPlace(r) ==
    IF r.local = "pending" THEN "upload" ELSE IF r.ack THEN "ack" ELSE "final"

(* Last the manifest, the commit marker.  _cleanup reads the record again. *)
PublishManifest(outcome) ==
    /\ pc = "manifest"
    /\ WriteOnce(Manifest, outcome)
    /\ Charge(Faulty(outcome))
    /\ Continue(outcome, CleanupPlace(record))
    /\ mem' = record
    /\ UNCHANGED <<at, gpu, deadline>>

(* Mutant: a visible manifest is taken for durable.                        *)
ResyncTrusting(ok) ==
    /\ pc = "resync"
    /\ pc' = CleanupPlace(record)
    /\ mem' = record
    /\ UNCHANGED <<disk, at, gpu, deadline, faults>>

(* publish_results with the manifest already there: a visible manifest     *)
(* does not prove that its fsync succeeded, so everything is fsynced.      *)
Resync(ok) ==
    /\ pc = "resync"
    /\ IF ok
       THEN /\ unsynced' = {}
            /\ survivors' = {record}
            /\ upload' = AfterSync(upload)
            /\ Charge(0)
            /\ pc' = CleanupPlace(record)
       ELSE /\ UNCHANGED <<unsynced, survivors, upload>>
            /\ Charge(1)
            /\ pc' = "idle"
    /\ mem' = record
    /\ UNCHANGED <<names, record, at, gpu, deadline>>

(* _cleanup removes upload.bin.  A failure is tolerated: the record then   *)
(* keeps local_cleanup_status pending.                                     *)
RemoveUpload(outcome) ==
    /\ pc = "upload"
    /\ IF outcome = "synced"
       THEN /\ upload' = "removed"
            /\ unsynced' = {} /\ survivors' = {record}
            /\ mem' = [mem EXCEPT !.local = "deleted"]
       ELSE /\ upload' = IF outcome = "named" THEN AfterUnlink(upload)
                                              ELSE upload
            /\ UNCHANGED <<unsynced, survivors, mem>>
    /\ Charge(Faulty(outcome))
    /\ pc' = "local"
    /\ UNCHANGED <<names, record, at, gpu, deadline>>

SaveLocal(outcome) ==
    /\ pc = "local"
    /\ WriteRecord(mem, upload, outcome)
    /\ Charge(Faulty(outcome))
    /\ Continue(outcome, IF mem.ack THEN "ack" ELSE "final")
    /\ UNCHANGED <<at, mem, gpu, deadline>>

(* Mutant: a lost answer is taken for a receipt.                           *)
SendAckOnce(arrives, answered) ==
    /\ pc = "ack"
    /\ answered => arrives /\ gpu \in {"completed", "released", "lapsed"}
    /\ gpu' = IF arrives /\ gpu = "completed" THEN "released" ELSE gpu
    /\ mem' = [mem EXCEPT !.ack = FALSE,
                          !.job = IF answered THEN "deleted" ELSE mem.job]
    /\ Charge(IF answered THEN 0 ELSE 1)
    /\ pc' = "final"
    /\ UNCHANGED <<disk, at, deadline>>

(* The ACK.  It may erase the payload and its answer may still be lost;    *)
(* any GPUClientError leaves ack_pending set.                              *)
SendAck(arrives, answered) ==
    /\ pc = "ack"
    /\ answered => arrives /\ gpu \in {"completed", "released", "lapsed"}
    /\ gpu' = IF arrives /\ gpu = "completed" THEN "released" ELSE gpu
    /\ mem' = IF answered
              THEN [mem EXCEPT !.ack = FALSE,
                               !.job = IF gpu = "lapsed" THEN "expired"
                                                         ELSE "deleted"]
              ELSE mem
    /\ Charge(IF answered THEN 0 ELSE 1)
    /\ pc' = "final"
    /\ UNCHANGED <<disk, at, deadline>>

SaveFinal(outcome) ==
    /\ pc = "final"
    /\ WriteRecord([mem EXCEPT !.cleanup = CleanupOf(mem)], upload, outcome)
    /\ Charge(Faulty(outcome))
    /\ pc' = "idle"
    /\ UNCHANGED <<at, mem, gpu, deadline>>

-----------------------------------------------------------------------------
(* The janitor: the upload's own deadline *)

(* delete_upload, then the record; a failing unlink or fsync leaves the    *)
(* record's cleanup pending.                                               *)
ExpireUpload(unlink, outcome) ==
    /\ pc = "idle"
    /\ deadline
    /\ record.local = "pending"
    /\ Writable(record)
    /\ LET expiring == [record EXCEPT !.local = "expired"]
           expired  == [expiring EXCEPT !.cleanup = CleanupOf(expiring)]
       IN CASE unlink = "failed" -> WriteRecord(record, upload, outcome)
            [] unlink = "named" ->
                  WriteRecord(record, AfterUnlink(upload), outcome)
            [] unlink = "synced" -> WriteRecord(expired, "removed", outcome)
    /\ Charge(Faulty(unlink) + Faulty(outcome))
    /\ UNCHANGED <<pc, at, mem, gpu, deadline>>

(* The upload goes, and then update_meeting raises ArtifactNotReady.       *)
ExpireAborts ==
    /\ pc = "idle"
    /\ SweepAborts
    /\ upload # "removed"
    /\ upload' = "removed"
    /\ unsynced' = {} /\ survivors' = {record}
    /\ UNCHANGED <<names, record, pc, at, mem, gpu, deadline, faults>>

-----------------------------------------------------------------------------
(* The reviewer, the GPU service, the clock and the failures *)

(* PUT /review and POST /approve rewrite a published record between steps. *)
Review(outcome) ==
    /\ pc = "idle"
    /\ record.status \in Ready
    /\ Published
    /\ \E status \in Ready :
          WriteRecord([record EXCEPT !.status = status], upload, outcome)
    /\ Charge(Faulty(outcome))
    /\ UNCHANGED <<pc, at, mem, gpu, deadline>>

GPUFinishes ==
    /\ gpu = "running"
    /\ gpu' \in {"completed", "failed"}
    /\ UNCHANGED <<disk, pc, at, mem, deadline, faults>>

GPULapses ==
    /\ gpu \in {"running", "completed", "failed"}
    /\ gpu' = IF gpu = "completed" THEN "lapsed" ELSE "void"
    /\ UNCHANGED <<disk, pc, at, mem, deadline, faults>>

DeadlinePasses ==
    /\ ~deadline
    /\ deadline' = TRUE
    /\ UNCHANGED <<disk, pc, at, mem, gpu, faults>>

(* The process dies: what the folder shows stays.                          *)
Crash ==
    /\ pc # "idle"
    /\ Charge(1)
    /\ pc' = "idle"
    /\ UNCHANGED <<disk, at, mem, gpu, deadline>>

(* The machine dies: every entry that was not synced may be gone, and an   *)
(* older meeting.json may be back.                                         *)
PowerLoss ==
    /\ Charge(1)
    /\ \E lost \in SUBSET unsynced : names' = names \ lost
    /\ unsynced' = {}
    /\ record' \in survivors
    /\ survivors' = {record'}
    /\ upload' \in IF upload = "unlinked" THEN {"present", "removed"}
                                          ELSE {upload}
    /\ pc' = "idle"
    /\ UNCHANGED <<at, mem, gpu, deadline>>

-----------------------------------------------------------------------------
Step ==
    \/ Begin \/ Fetch \/ Unavailable
    \/ \E outcome \in Outcome :
          \/ PollRunning(outcome) \/ PollCompleted(outcome)
          \/ PollEnded(outcome) \/ PollFails(outcome) \/ FetchFails(outcome)
          \/ PublishOriginal(outcome) \/ PublishRecord(outcome)
          \/ PublishManifest(outcome)
          \/ RemoveUpload(outcome) \/ SaveLocal(outcome) \/ SaveFinal(outcome)
    \/ \E ok \in BOOLEAN : Resync(ok)
    \/ \E arrives, answered \in BOOLEAN : SendAck(arrives, answered)

Janitor ==
    \/ \E unlink, outcome \in Outcome : ExpireUpload(unlink, outcome)
    \/ ExpireAborts

Environment ==
    \/ \E outcome \in Outcome : Review(outcome)
    \/ GPUFinishes \/ GPULapses \/ DeadlinePasses \/ Crash \/ PowerLoss

Next == Step \/ Janitor \/ Environment

Spec == Init /\ [][Next]_vars

(* run_forever keeps ticking, the deadlines are clocks.  Nothing else is   *)
(* fair: neither the reviewer nor the GPU service has to do anything.      *)
FairSpec ==
    /\ Spec
    /\ WF_vars(Step)
    /\ WF_vars(Janitor)
    /\ WF_vars(GPULapses)
    /\ WF_vars(DeadlinePasses)

-----------------------------------------------------------------------------
(* Properties *)

(* Files that no power loss can take away any more.                        *)
Safe == names \ unsynced

(* The result survives anything: every file of it and every meeting.json   *)
(* that may come back says so.                                             *)
Durable ==
    /\ FileNames \subseteq Safe
    /\ \A r \in survivors : r.status \in Ready

(* "A successful return is the only permission for the coordinator to      *)
(* ACK" (publish_results): once the GPU service has erased the payload at  *)
(* the backend's request, the complete local result survives even a power  *)
(* loss in the same instant.                                               *)
AckedResultIsDurable == gpu = "released" => Durable

(* The manifest is published last: whenever a reader can see it, every     *)
(* original is safe and every meeting.json that may come back is ready, so *)
(* no crash or power loss shows a manifest over missing artifacts, which   *)
(* read_results would report as corruption.                                *)
ManifestIsLast ==
    Published =>
        /\ OriginalSet \subseteq Safe
        /\ \A r \in survivors : r.status \in Ready

(* Audio removed before its deadline has been replaced by a result: the    *)
(* coordinator never leaves the meeting with neither of the two.           *)
EarlyRemovalNeedsResult == upload # "present" /\ ~deadline => Durable

(* The status a reader is shown (read_meeting): a ready record without its *)
(* manifest is shown as processing.                                        *)
ShownStatus ==
    IF record.status \in Ready /\ ~Published THEN "processing"
                                             ELSE record.status

(* A result shown to the user and made durable is never withdrawn, by any  *)
(* later step, crash or power loss; nor does a result in the making become *)
(* ready and fail.                                                         *)
ResultIsNeverWithdrawn ==
    [][/\ Durable => Durable'
       /\ ShownStatus = "failed" => ShownStatus' \notin Ready]_vars

(* A durable result is acknowledged: whatever is lost on the way, the GPU  *)
(* copy is erased by the ACK or by its own deadline, and the record stops  *)
(* saying that cleanup is pending.                                         *)
CleanupFinishes ==
    Durable ~> (gpu \in {"released", "lapsed"} /\ record.cleanup # "pending")

(* Once the faults are over the meeting leaves processing.  The exception  *)
(* is the sweep that aborts, which blocks every meeting of the data root   *)
(* (MeetingLifecycle shows it).                                            *)
MeetingSettles ==
    [](ShownStatus = "processing" => <>(ShownStatus # "processing"
                                         \/ SweepAborts))

(* The abstract handover this module implements.                           *)
Handover == INSTANCE ResultHandover WITH
    remote <- CASE gpu = "running"   -> "working"
                [] gpu = "completed" -> "held"
                [] gpu = "failed"    -> "void"
                [] OTHER             -> gpu,
    secured <- Durable

HandoverSpec == Handover!Spec
=============================================================================
