--------------------------- MODULE MeetingUpload ---------------------------
(***************************************************************************)
(* POST /meetings from the body of the request to the answer: the handler  *)
(* (api/routes/meetings.py), staging and validation (services/uploads.py), *)
(* create_meeting (services/artifact_store.py), the janitor that removes   *)
(* what an upload left behind and, at its deadline, the recording of a     *)
(* meeting (services/local_janitor.py), and the steps of the coordinator   *)
(* that save the new record, publish a result and remove the recording.    *)
(* How a result is published, file by file, is ResultPublication's, what   *)
(* DELETE removes is MeetingFolder's.                                      *)
(*                                                                         *)
(* The handler waits for two calls that run in threads.  When it is        *)
(* cancelled the thread goes on.  No lock is held: readers and the tick    *)
(* see the new meeting as soon as meeting.json has its name.  A name is    *)
(* seen before it is durable; "kept" is what a power loss may leave.       *)
(***************************************************************************)
EXTENDS Naturals, FiniteSets, UploadPromise

CONSTANTS
    Videos,      \* those whose recording has a video track
    None,        \* no upload
    MaxFaults    \* bound: failing calls, crashes and power losses

ASSUME UploadsAssumption == Videos \subseteq Uploads /\ None \notin Uploads
ASSUME FaultsAssumption == MaxFaults \in Nat

VARIABLES
    pc,        \* where the thread of each upload is, or its handler between two
    staging,   \* the private staging files
    shown,     \* upload.bin and meeting.json in the folder, as they are read
    aged,      \* a day has passed since the upload ended, or its folder was touched
    tick,      \* the meeting whose record the tick is about to replace
    faults     \* faults so far

vars == <<pc, answer, staging, folder, shown, kept, due, aged, tick, faults>>

clock == <<due, aged>>

-----------------------------------------------------------------------------
(* The places of stage_and_validate, then those of create_meeting.         *)
Staging == {"reserve", "check", "extract", "convert", "swap", "discard", "giveup"}
Creating == {"folder", "open", "audio", "marker", "parent", "undo", "created",
             "failed"}
Places == {"new", "staged", "done"} \union Staging \union Creating

Source(u) == <<u, "source">>
Target(u) == <<u, "target">>
Files == Uploads \X {"source", "target"}

(* The file that stage_and_validate returns.                               *)
Payload(u) == IF u \in Videos THEN Target(u) ELSE Source(u)

(* An unlinked name is no longer found, but may come back.                 *)
Name == {"absent", "present", "unlinked"}

Audio == {"none", "partial", "whole"}

(* meeting.json as it was created, as a first step has saved it, with its  *)
(* result published; and with the removal of the recording recorded,       *)
(* whatever its status then is.                                            *)
Marker == {"none", "queued", "processing", "finished", "cleaned"}

TypeOK ==
    /\ pc \in [Uploads -> Places]
    /\ answer \in [Uploads -> {"waiting", "gone", "accepted", "refused"}]
    /\ staging \in [Files -> Name]
    /\ folder \in [Uploads -> Name]
    /\ shown \in [Uploads -> [audio : Audio, marker : Marker]]
    /\ kept \in [Uploads -> [audio : SUBSET Audio, marker : SUBSET Marker]]
    /\ \A u \in Uploads :
          /\ shown[u].audio \in kept[u].audio
          /\ shown[u].marker \in kept[u].marker
          /\ folder[u] # "present" => shown[u] = [audio |-> "none", marker |-> "none"]
    /\ due \in [Uploads -> BOOLEAN]
    /\ aged \in [Uploads -> BOOLEAN]
    /\ \A u \in Uploads : aged[u] => due[u]
    /\ tick \in Uploads \union {None}
    /\ faults \in 0..MaxFaults

Init ==
    /\ pc = [u \in Uploads |-> "new"]
    /\ answer = [u \in Uploads |-> "waiting"]
    /\ staging = [f \in Files |-> "absent"]
    /\ folder = [u \in Uploads |-> "absent"]
    /\ shown = [u \in Uploads |-> [audio |-> "none", marker |-> "none"]]
    /\ kept = [u \in Uploads |-> [audio |-> {"none"}, marker |-> {"none"}]]
    /\ due = [u \in Uploads |-> FALSE]
    /\ aged = [u \in Uploads |-> FALSE]
    /\ tick = None
    /\ faults = 0

-----------------------------------------------------------------------------
(* Helpers *)

Goto(u, place) == pc' = [pc EXCEPT ![u] = place]

Failing(ok) == IF ok THEN 0 ELSE 1

(* Charge n faults to the bound.                                           *)
Charge(n) ==
    /\ faults + n <= MaxFaults
    /\ faults' = faults + n

(* The request is over; nobody reads the answer of a cancelled one.        *)
End(u, result) ==
    /\ Goto(u, "done")
    /\ answer' = IF answer[u] = "waiting" THEN [answer EXCEPT ![u] = result]
                                          ELSE answer

Unlink(names, gone) ==
    [n \in DOMAIN names |->
       IF n \in gone /\ names[n] = "present" THEN "unlinked" ELSE names[n]]

Sync(names) ==
    [n \in DOMAIN names |-> IF names[n] = "unlinked" THEN "absent" ELSE names[n]]

Stale == { f \in Files : staging[f] = "present" /\ aged[f[1]] }

(* _sweep_stale_uploads removes what it can and then syncs; both errors    *)
(* are suppressed.                                                         *)
Swept(names, removed, synced) ==
    IF synced THEN Sync(Unlink(names, removed)) ELSE Unlink(names, removed)

SweepFaults(removed, synced) ==
    Cardinality(Stale \ removed) + Failing(synced)

(* temporary_upload_path syncs the directory, or fails to; sweeps it; and  *)
(* creates f, or fails to.                                                 *)
Reserve(f, removed, synced, ok) ==
    /\ removed = {} => synced
    /\ \/ ~ok /\ removed = {} /\ UNCHANGED staging /\ Charge(1)
       \/ /\ LET names == Swept(Sync(staging), removed, synced)
             IN staging' = IF ok THEN [names EXCEPT ![f] = "present"] ELSE names
          /\ Charge(SweepFaults(removed, synced) + Failing(ok))

(* A change of meeting.json, in a folder that shows "seen" and of which a  *)
(* power loss may leave "left", fails, is seen but raises, or is durable;  *)
(* then the fsync of the folder has made both entries durable.             *)
Outcome == {"failed", "named", "synced"}

Write(u, seen, left, value, outcome) ==
    LET new == [seen EXCEPT !.marker = value]
    IN /\ shown' = [shown EXCEPT ![u] = IF outcome = "failed" THEN seen ELSE new]
       /\ kept' = [kept EXCEPT ![u] =
                     CASE outcome = "failed" -> left
                       [] outcome = "named"  -> [left EXCEPT !.marker = @ \union {value}]
                       [] outcome = "synced" -> [audio |-> {new.audio},
                                                 marker |-> {value}]]

WriteMarker(u, value, outcome) ==
    /\ Write(u, shown[u], kept[u], value, outcome)
    /\ Charge(Failing(outcome = "synced"))

meeting == <<folder, shown, kept>>

-----------------------------------------------------------------------------
(* Parsing and staging *)

(* parse_upload reads the form within its limits, or refuses it.           *)
Parse(u) ==
    /\ pc[u] = "new"
    /\ \/ Goto(u, "reserve") /\ UNCHANGED answer
       \/ End(u, "refused")
    /\ UNCHANGED <<staging, meeting, clock, tick, faults>>

ReserveSource(u, removed, synced, ok) ==
    /\ pc[u] = "reserve"
    /\ Reserve(Source(u), removed, synced, ok)
    /\ IF ok THEN Goto(u, "check") /\ UNCHANGED answer ELSE End(u, "refused")
    /\ UNCHANGED <<meeting, clock, tick>>

(* The recording is copied and probed.  It may be refused, or the copy     *)
(* fails, also because a cancelled handler has closed the recording.       *)
Check(u) ==
    /\ pc[u] = "check"
    /\ \E place \in {IF u \in Videos THEN "extract" ELSE "staged", "discard"} :
          Goto(u, place)
    /\ UNCHANGED <<answer, staging, meeting, clock, tick, faults>>

(* _extract_first_audio reserves a second file.                            *)
ReserveTarget(u, removed, synced, ok) ==
    /\ pc[u] = "extract"
    /\ Reserve(Target(u), removed, synced, ok)
    /\ Goto(u, IF ok THEN "convert" ELSE "discard")
    /\ UNCHANGED <<answer, meeting, clock, tick>>

(* ffmpeg and the checks of its output; a refused output is unlinked.      *)
Convert(u, ok) ==
    /\ pc[u] = "convert"
    /\ \/ ok /\ Goto(u, "swap") /\ UNCHANGED staging
       \/ /\ staging' = IF ok THEN Unlink(staging, {Target(u)}) ELSE staging
          /\ Goto(u, "discard")
    /\ Charge(Failing(ok))
    /\ UNCHANGED <<answer, meeting, clock, tick>>

(* The video goes before its audio is handed over.                         *)
Swap(u, ok) ==
    /\ pc[u] = "swap"
    /\ staging' = IF ok THEN Unlink(staging, {Source(u)}) ELSE staging
    /\ Goto(u, IF ok THEN "staged" ELSE "giveup")
    /\ Charge(Failing(ok))
    /\ UNCHANGED <<answer, meeting, clock, tick>>

(* The except clause of stage_and_validate: the source, then the target if *)
(* it was handed over; an unlink that raises ends it.                      *)
Discard(u, removed) ==
    LET files == IF pc[u] = "giveup" THEN {Source(u), Target(u)} ELSE {Source(u)}
    IN /\ pc[u] \in {"discard", "giveup"}
       /\ removed \in {{}, {Source(u)}, files}
       /\ staging' = Unlink(staging, removed)
       /\ Charge(Failing(removed = files))
       /\ End(u, "refused")
       /\ UNCHANGED <<meeting, clock, tick>>

(* The handler closes the recording and starts the second call.  When it   *)
(* has been cancelled nobody takes the file.                               *)
Continue(u) ==
    /\ pc[u] = "staged"
    /\ Goto(u, IF answer[u] = "waiting" THEN "folder" ELSE "done")
    /\ UNCHANGED <<answer, staging, meeting, clock, tick, faults>>

-----------------------------------------------------------------------------
(* create_meeting *)

(* _make_directory: the folder and its ancestors, all of them synced.      *)
MakeFolder(u, outcome) ==
    /\ pc[u] = "folder"
    /\ folder' = IF outcome = "failed" THEN folder ELSE [folder EXCEPT ![u] = "present"]
    /\ Goto(u, IF outcome = "synced" THEN "open" ELSE "failed")
    /\ Charge(Failing(outcome = "synced"))
    /\ UNCHANGED <<answer, staging, shown, kept, clock, tick>>

(* The staged file is opened; it may have been unlinked meanwhile.         *)
Open(u) ==
    /\ pc[u] = "open"
    /\ Goto(u, IF staging[Payload(u)] = "present" THEN "audio" ELSE "failed")
    /\ UNCHANGED <<answer, staging, meeting, clock, tick, faults>>

(* upload.bin is copied and synced; its name in the folder is not.         *)
CopyAudio(u, ok) ==
    /\ pc[u] = "audio"
    /\ LET result == IF ok THEN "whole" ELSE "partial"
       IN /\ shown' = [shown EXCEPT ![u].audio = result]
          /\ kept' = [kept EXCEPT ![u].audio = {"none", result}]
    /\ Goto(u, IF ok THEN "marker" ELSE "failed")
    /\ Charge(Failing(ok))
    /\ UNCHANGED <<answer, staging, folder, clock, tick>>

(* Mutant: that meeting.json can be read is enough.                        *)
CommitSeen(u, outcome) ==
    /\ pc[u] = "marker"
    /\ WriteMarker(u, "queued", outcome)
    /\ Goto(u, IF outcome = "failed" THEN "undo" ELSE "parent")
    /\ UNCHANGED <<answer, staging, folder, clock, tick>>

(* meeting.json makes the meeting visible.                                 *)
Commit(u, outcome) ==
    /\ pc[u] = "marker"
    /\ WriteMarker(u, "queued", outcome)
    /\ Goto(u, IF outcome = "synced" THEN "parent" ELSE "undo")
    /\ UNCHANGED <<answer, staging, folder, clock, tick>>

(* The fsync of the owner's directory.                                     *)
SyncParent(u, ok) ==
    /\ pc[u] = "parent"
    /\ Goto(u, IF ok THEN "created" ELSE "undo")
    /\ Charge(Failing(ok))
    /\ UNCHANGED <<answer, staging, meeting, clock, tick>>

(* The except clause: unlink meeting.json and sync the folder.             *)
Undo(u, outcome) ==
    /\ pc[u] = "undo"
    /\ WriteMarker(u, "none", outcome)
    /\ Goto(u, "failed")
    /\ UNCHANGED <<answer, staging, folder, clock, tick>>

(* The handler unlinks the staged file and answers; that the file cannot   *)
(* be removed changes nothing.  A cancelled handler has done so before.    *)
Answer(u, ok) ==
    /\ pc[u] \in {"created", "failed"}
    /\ answer[u] = "gone" => ok
    /\ staging' = IF ok /\ answer[u] = "waiting"
                  THEN Unlink(staging, {Payload(u)}) ELSE staging
    /\ Charge(Failing(ok))
    /\ End(u, IF pc[u] = "created" THEN "accepted" ELSE "refused")
    /\ UNCHANGED <<meeting, clock, tick>>

(* The handler is cancelled where it awaits.  A call that still waits for  *)
(* a thread is dropped, one that runs goes on; from the second call on the *)
(* handler unlinks the staged file first.                                  *)
Cancel(u, ok) ==
    /\ answer[u] = "waiting"
    /\ pc[u] \in Staging \union {"staged"} \union Creating
    /\ answer' = [answer EXCEPT ![u] = "gone"]
    /\ \/ pc[u] \in {"reserve", "folder"} /\ Goto(u, "done")
       \/ UNCHANGED pc
    /\ pc[u] \notin Creating => ok
    /\ staging' = IF ok /\ pc[u] \in Creating
                  THEN Unlink(staging, {Payload(u)}) ELSE staging
    /\ Charge(Failing(ok))
    /\ UNCHANGED <<meeting, clock, tick>>

-----------------------------------------------------------------------------
(* The tick *)

(* sweep_stale_uploads on the timer.                                       *)
SweepStaging(removed, synced) ==
    /\ tick = None
    /\ Stale # {}
    /\ removed = {} => synced
    /\ staging' = Swept(staging, removed, synced)
    /\ Charge(SweepFaults(removed, synced))
    /\ UNCHANGED <<pc, answer, meeting, clock, tick>>

(* Mutant: a folder in which a recording lies is not abandoned.            *)
AbandonedEmpty(u) ==
    folder[u] = "present" /\ shown[u] = [audio |-> "none", marker |-> "none"] /\ aged[u]

LoseAudio(u) ==
    /\ shown' = [shown EXCEPT ![u].audio = "none"]
    /\ kept' = [kept EXCEPT ![u].audio = @ \union {"none"}]

(* _sweep_entry: a folder without meeting.json in which nothing is recent. *)
Abandoned(u) == folder[u] = "present" /\ shown[u].marker = "none" /\ aged[u]

SweepFolder(u, outcome) ==
    /\ tick = None
    /\ Abandoned(u)
    /\ Charge(Failing(outcome = "synced"))
    /\ \/ outcome = "failed" /\ UNCHANGED <<meeting, aged>>
       \/ /\ outcome = "failed"      \* the recording went, which touches the folder
          /\ LoseAudio(u) /\ aged' = [aged EXCEPT ![u] = FALSE]
          /\ UNCHANGED folder
       \/ /\ outcome = "named"
          /\ LoseAudio(u) /\ folder' = [folder EXCEPT ![u] = "unlinked"]
          /\ UNCHANGED aged
       \/ /\ outcome = "synced"
          /\ folder' = [folder EXCEPT ![u] = "absent"]
          /\ shown' = [shown EXCEPT ![u].audio = "none"]
          /\ kept' = [kept EXCEPT ![u] = [audio |-> {"none"}, marker |-> {"none"}]]
          /\ UNCHANGED aged
    /\ UNCHANGED <<pc, answer, staging, due, tick>>

(* delete_upload, and the record that is saved after it: a removal that    *)
(* raised is not recorded and will be repeated.                            *)
RemoveAudio(u, removed, outcome) ==
    LET seen == IF removed = "failed" THEN shown[u]
                ELSE [shown[u] EXCEPT !.audio = "none"]
        left == CASE removed = "failed" -> kept[u]
                  [] removed = "named"  -> [kept[u] EXCEPT !.audio = @ \union {"none"}]
                  [] removed = "synced" -> [audio |-> {"none"},
                                            marker |-> {shown[u].marker}]
    IN /\ tick = None
       /\ folder[u] = "present"
       /\ Write(u, seen, left,
                IF removed = "synced" THEN "cleaned" ELSE shown[u].marker, outcome)
       /\ Charge(Failing(removed = "synced") + Failing(outcome = "synced"))
       /\ UNCHANGED <<pc, answer, staging, folder, clock, tick>>

(* _expire_upload: the deadline has passed, and the recording has not been *)
(* cleaned up.                                                             *)
Expire(u, removed, outcome) ==
    /\ due[u]
    /\ shown[u].marker \in {"queued", "processing", "finished"}
    /\ RemoveAudio(u, removed, outcome)

(* _cleanup of the coordinator, once the result is published.              *)
CleanUp(u, removed, outcome) ==
    /\ shown[u].marker = "finished"
    /\ RemoveAudio(u, removed, outcome)

(* The tick that publishes a result returns only when the result and the   *)
(* record are durable; until then the meeting counts as unfinished here.   *)
Publish(u) ==
    /\ tick = None
    /\ pc[u] = "done"
    /\ folder[u] = "present" /\ shown[u].marker = "processing"
    /\ WriteMarker(u, "finished", "synced")
    /\ UNCHANGED <<pc, answer, staging, folder, clock, tick>>

(* The first step of a meeting: update_meeting has read the record back    *)
(* and is about to replace it.                                             *)
StepReads(u) ==
    /\ tick = None
    /\ folder[u] = "present" /\ shown[u].marker = "queued"
    /\ tick' = u
    /\ UNCHANGED <<pc, answer, staging, meeting, clock, faults>>

StepSaves(u, outcome) ==
    /\ tick = u
    /\ WriteMarker(u, "processing", outcome)
    /\ tick' = None
    /\ UNCHANGED <<pc, answer, staging, folder, clock>>

-----------------------------------------------------------------------------
(* The clock, the process and the machine *)

(* No upload takes a day: copies are bounded by their size, the decoders   *)
(* by timeouts.  The deadline, temporary_expires_at, is a day after the    *)
(* meeting's folder was made; it has passed when the upload's files are a  *)
(* day old.                                                                *)
DayPasses(u) ==
    /\ pc[u] = "done" /\ tick # u
    /\ ~aged[u]
    /\ aged' = [aged EXCEPT ![u] = TRUE]
    /\ due' = [due EXCEPT ![u] = TRUE]
    /\ UNCHANGED <<pc, answer, staging, meeting, tick, faults>>

Die ==
    /\ pc' = [u \in Uploads |-> IF pc[u] = "new" THEN "new" ELSE "done"]
    /\ answer' = [u \in Uploads |->
                    IF answer[u] = "waiting" /\ pc[u] # "new" THEN "gone"
                                                              ELSE answer[u]]
    /\ tick' = None
    /\ Charge(1)

Crash ==
    /\ tick # None \/ \E u \in Uploads : pc[u] \notin {"new", "done"}
    /\ Die
    /\ UNCHANGED <<staging, meeting, clock>>

(* The staging directory is synced only by the next upload.                *)
PowerLoss ==
    /\ Die
    /\ \E back \in SUBSET { f \in Files : staging[f] # "absent" } :
          staging' = [f \in Files |-> IF f \in back THEN "present" ELSE "absent"]
    /\ \E back \in SUBSET { u \in Uploads : folder[u] = "unlinked" } :
          folder' = [u \in Uploads |-> IF u \in back THEN "present" ELSE Sync(folder)[u]]
    /\ shown' \in [Uploads -> [audio : Audio, marker : Marker]]
    /\ \A u \in Uploads :
          /\ shown'[u].audio \in kept[u].audio
          /\ shown'[u].marker \in kept[u].marker
          /\ folder'[u] = "absent" => shown'[u] = [audio |-> "none", marker |-> "none"]
    /\ kept' = [u \in Uploads |-> [audio |-> {shown'[u].audio},
                                   marker |-> {shown'[u].marker}]]
    /\ UNCHANGED clock

-----------------------------------------------------------------------------
Request(u) ==
    \/ Parse(u) \/ Check(u) \/ Continue(u) \/ Open(u)
    \/ \E ok \in BOOLEAN :
          \/ Convert(u, ok) \/ Swap(u, ok) \/ CopyAudio(u, ok)
          \/ SyncParent(u, ok) \/ Answer(u, ok) \/ Cancel(u, ok)
          \/ \E removed \in SUBSET Stale, synced \in BOOLEAN :
                \/ ReserveSource(u, removed, synced, ok)
                \/ ReserveTarget(u, removed, synced, ok)
    \/ \E removed \in SUBSET {Source(u), Target(u)} : Discard(u, removed)
    \/ \E outcome \in Outcome :
          MakeFolder(u, outcome) \/ Commit(u, outcome) \/ Undo(u, outcome)

Sweep ==
    \/ \E removed \in SUBSET Stale, synced \in BOOLEAN : SweepStaging(removed, synced)
    \/ \E u \in Uploads, outcome \in Outcome :
          \/ SweepFolder(u, outcome)
          \/ \E removed \in Outcome : Expire(u, removed, outcome)

Save == \E u \in Uploads, outcome \in Outcome : StepSaves(u, outcome)

Next ==
    \/ Sweep \/ Save
    \/ \E u \in Uploads :
          \/ Request(u) \/ StepReads(u) \/ Publish(u) \/ DayPasses(u)
          \/ \E removed, outcome \in Outcome : CleanUp(u, removed, outcome)
    \/ Crash \/ PowerLoss

Spec == Init /\ [][Next]_vars

(* The scheduler ticks for ever, and days pass.                            *)
FairSpec ==
    /\ Spec
    /\ WF_vars(Sweep)
    /\ WF_vars(Save)
    /\ \A u \in Uploads : WF_vars(DayPasses(u))

-----------------------------------------------------------------------------
(* Properties *)

(* What an upload may leave without a meeting: files in the staging        *)
(* directory, a folder without meeting.json, with the recording in them.   *)
Leftover(u) ==
    \/ \E f \in Files : f[1] = u /\ staging[f] = "present"
    \/ folder[u] = "present" /\ shown[u].marker = "none"

(* However an upload ends, refused, cancelled, or with the process, the    *)
(* janitor removes in the end every copy that belongs to no meeting.       *)
LeftoversGo ==
    \A u \in Uploads : (pc[u] = "done" /\ Leftover(u)) ~> ~Leftover(u)
=============================================================================
