---------------------------- MODULE MeetingFolder ----------------------------
(***************************************************************************)
(* The folder of one failed meeting, entry by entry: POST /retry archives  *)
(* the originals of the attempt before it saves the next one, DELETE       *)
(* renames the folder to a tombstone, makes that durable and removes it,   *)
(* and the coordinator's tick expires the recording, reads the GPU's       *)
(* receipt and sweeps tombstones.  A DELETE takes the meeting's lock and   *)
(* then the data root's, the tick the data root's and then, without        *)
(* waiting, the meeting's.                                                 *)
(*                                                                         *)
(* As in ReviewExport an entry has the value that readers find (shown) and *)
(* those that a power loss may leave (kept).                               *)
(***************************************************************************)
EXTENDS Naturals, Sequences, FiniteSetsExt, Functions

CONSTANTS
    Retries,    \* the POST /retry calls
    Deletes,    \* the DELETE calls
    Originals,  \* what a publication leaves in the folder, in archive order
    None,       \* no such entry
    MaxFaults   \* bound: failing calls, crashes and power losses

ASSUME CallsAssumption == Retries \intersect Deletes = {}

ASSUME OriginalsAssumption ==
    Originals \in Seq(STRING) /\ "meeting.json" \notin Range(Originals)

ASSUME FaultsAssumption == MaxFaults \in Nat

VARIABLES
    shown,     \* the entries of the folder and of its archive
    kept,      \* the values of each that a power loss may leave
    name,      \* the name the folder goes by
    nameKept,  \* the names that a power loss may leave
    whole,     \* the removal of the folder has not begun
    had,       \* the originals of the failed attempt
    pc,        \* the place of each call, or its answer
    tick,      \* the place of the coordinator's tick
    expired,   \* the deadline of the recording has passed
    faults     \* faults so far

vars == <<shown, kept, name, nameKept, whole, had, pc, tick, expired, faults>>

names == <<name, nameKept, whole>>

disk == <<shown, kept, names>>

-----------------------------------------------------------------------------
(* The folder *)

Calls == Retries \union Deletes

(* The record of meeting.json: the first attempt has failed, the second    *)
(* waits; a copy of the recording is left here, or on the GPU.             *)
Records == [attempt : 1..2, upload : BOOLEAN, receipt : BOOLEAN]

ASSUME NoneAssumption == None \notin Records \union {"there"}

Files == {"meeting.json"} \union Range(Originals)

Entries == {"folder", "archive"} \X Files

Record == <<"folder", "meeting.json">>
Archived(f) == <<"archive", f>>
Top(f) == <<"folder", f>>

Now == shown[Record]

Values(e) == IF e[2] = "meeting.json" THEN Records \union {None} ELSE {"there", None}

Places == {"idle", "wait", "record", "copy", "unlink",
           "root", "hide", "undo", "remove"}

Answers == {"accepted", "deleted", "refused", "failed", "lost"}

TypeOK ==
    /\ \A e \in Entries : shown[e] \in kept[e] /\ kept[e] \subseteq Values(e)
    /\ None \notin kept[Record]
    /\ nameKept \subseteq {"folder", "tombstone", "gone"}
    /\ name \in nameKept
    /\ whole \in BOOLEAN
    /\ had \subseteq Range(Originals)
    /\ pc \in [Calls -> Places \union Answers]
    /\ tick \in {"idle", "sweep", "visit"}
    /\ expired \in BOOLEAN
    /\ faults \in 0..MaxFaults

(* A change fails, is visible but raises before its fsync, or is durable.  *)
Outcome == {"failed", "named", "synced"}

Charge(outcome) ==
    LET n == IF outcome = "synced" THEN 0 ELSE 1
    IN faults + n <= MaxFaults /\ faults' = faults + n

(* Entry e takes the value v; the fsync is one of the whole directory.     *)
Change(e, v, outcome) ==
    /\ shown' = IF outcome = "failed" THEN shown ELSE [shown EXCEPT ![e] = v]
    /\ kept' = CASE outcome = "failed" -> kept
                 [] outcome = "named" -> [kept EXCEPT ![e] = @ \union {v}]
                 [] outcome = "synced" ->
                       [x \in Entries |-> IF x[1] = e[1] THEN {shown'[x]}
                                          ELSE kept[x]]

(* The folder gets the name n in the owner's directory.                    *)
Rename(n, outcome) ==
    /\ name' = IF outcome = "failed" THEN name ELSE n
    /\ nameKept' = CASE outcome = "failed" -> nameKept
                     [] outcome = "named" -> nameKept \union {n}
                     [] outcome = "synced" -> {n}

Goto(c, place) == pc' = [pc EXCEPT ![c] = place]

(* A step of the call c: any error ends the call with a 503.               *)
Step(c, e, v, outcome, next) ==
    /\ Change(e, v, outcome)
    /\ Charge(outcome)
    /\ Goto(c, IF outcome = "synced" THEN next ELSE "failed")
    /\ UNCHANGED <<names, had, tick, expired>>

(* _atomic_write(immutable=True): other bytes under the name are an error. *)
StepOnce(c, e, v, outcome, next) ==
    \/ shown[e] \in {None, v} /\ Step(c, e, v, outcome, next)
    \/ /\ shown[e] \notin {None, v}
       /\ Goto(c, "failed")
       /\ UNCHANGED <<disk, had, tick, expired, faults>>

(* flock: who has the meeting's lock, who has the data root's.             *)
Locked == \E c \in Calls : pc[c] \notin {"idle", "wait"} \union Answers

RootLocked == tick # "idle" \/ \E c \in Calls : pc[c] \in {"hide", "undo", "remove"}

(* A publication that failed half-way leaves the first of its files.       *)
Init ==
    \E r \in { q \in Records : q.attempt = 1 }, n \in 0..Len(Originals) :
       /\ had = { Originals[i] : i \in 1..n }
       /\ shown = [e \in Entries |->
                     IF e = Record THEN r
                     ELSE IF e[1] = "folder" /\ e[2] \in had THEN "there"
                     ELSE None]
       /\ kept = [e \in Entries |-> {shown[e]}]
       /\ name = "folder"
       /\ nameKept = {"folder"}
       /\ whole = TRUE
       /\ pc = [c \in Calls |-> "idle"]
       /\ tick = "idle"
       /\ expired = FALSE
       /\ faults = 0

-----------------------------------------------------------------------------
(* Retry and delete under the meeting's lock *)

(* The record is read and .lifecycle.lock opened before the wait for it.   *)
Call(c) ==
    /\ pc[c] = "idle"
    /\ Goto(c, IF name = "folder" THEN "wait" ELSE "refused")
    /\ UNCHANGED <<disk, had, tick, expired, faults>>

(* The attempt failed, and its recording is still available.               *)
MayRetry == Now.attempt = 1 /\ Now.upload /\ ~expired

(* Nothing runs, and no copy of the recording is left anywhere.            *)
MayDelete == Now.attempt = 1 /\ ~Now.upload /\ ~Now.receipt

(* The record is read again under the lock: a folder that was renamed      *)
(* meanwhile is a 404, and half a folder may have lost its record.         *)
Lock(c) ==
    /\ pc[c] = "wait"
    /\ ~Locked
    /\ \/ /\ name = "folder"
          /\ Goto(c, IF c \in Retries /\ MayRetry THEN "record"
                     ELSE IF c \in Deletes /\ MayDelete THEN "root"
                     ELSE "refused")
       \/ /\ name # "folder" \/ ~whole
          /\ Goto(c, "refused")
    /\ UNCHANGED <<disk, had, tick, expired, faults>>

(* _archive_attempt: first the record of the attempt, never rewritten.     *)
ArchiveRecord(c, outcome) ==
    /\ pc[c] = "record"
    /\ StepOnce(c, Archived("meeting.json"), Now, outcome, "copy")

(* Places in the loop's list of originals that are still in the folder,    *)
(* and the original that the loop has come to.                             *)
Left == { i \in DOMAIN Originals : shown[Top(Originals[i])] # None }

First == Originals[Min(Left)]

(* Mutant: an original is removed although its copy could not be synced.   *)
ArchiveOriginalAnyway(c, outcome) ==
    /\ pc[c] = "copy"
    /\ Left # {}
    /\ Change(Archived(First), "there", outcome)
    /\ Charge(outcome)
    /\ Goto(c, "unlink")
    /\ UNCHANGED <<names, had, tick, expired>>

ArchiveOriginal(c, outcome) ==
    /\ pc[c] = "copy"
    /\ Left # {}
    /\ StepOnce(c, Archived(First), "there", outcome, "unlink")

UnlinkOriginal(c, outcome) ==
    /\ pc[c] = "unlink"
    /\ Step(c, Top(First), None, outcome, "copy")

(* Mutant: the next attempt is saved before the originals are archived.    *)
SaveAttemptFirst(c, outcome) ==
    /\ pc[c] = "copy"
    /\ Step(c, Record, [Now EXCEPT !.attempt = @ + 1], outcome, "accepted")

(* Only then is the next attempt saved, and answered with a 202.           *)
SaveAttempt(c, outcome) ==
    /\ pc[c] = "copy"
    /\ Left = {}
    /\ Step(c, Record, [Now EXCEPT !.attempt = @ + 1], outcome, "accepted")

(* The data root's lock, then the rename, which nothing has synced yet.    *)
Hide(c, outcome) ==
    /\ pc[c] = "root"
    /\ ~RootLocked
    /\ outcome \in {"failed", "named"}
    /\ Rename("tombstone", outcome)
    /\ IF outcome = "failed" THEN Charge("failed") ELSE UNCHANGED faults
    /\ Goto(c, IF outcome = "failed" THEN "failed" ELSE "hide")
    /\ UNCHANGED <<shown, kept, whole, had, tick, expired>>

(* Mutant: a directory that cannot be synced does not matter.              *)
SyncHiddenAnyway(c, outcome) ==
    /\ pc[c] = "hide"
    /\ outcome # "named"
    /\ Rename(name, outcome)
    /\ Charge(outcome)
    /\ Goto(c, "remove")
    /\ UNCHANGED <<shown, kept, whole, had, tick, expired>>

(* The owner's directory is synced before anything is removed.             *)
SyncHidden(c, outcome) ==
    /\ pc[c] = "hide"
    /\ outcome # "named"
    /\ Rename(name, outcome)
    /\ Charge(outcome)
    /\ Goto(c, IF outcome = "synced" THEN "remove" ELSE "undo")
    /\ UNCHANGED <<shown, kept, whole, had, tick, expired>>

(* Otherwise the folder gets its name back, and the call is a 503 anyway.  *)
Unhide(c, outcome) ==
    /\ pc[c] = "undo"
    /\ Rename("folder", outcome)
    /\ Charge(outcome)
    /\ Goto(c, "failed")
    /\ UNCHANGED <<shown, kept, whole, had, tick, expired>>

(* rmtree and the fsync after it: nothing was removed, or a part, or all   *)
(* of it without the fsync, or all.                                        *)
RemoveTree(outcome) ==
    /\ IF outcome = "half" THEN UNCHANGED <<name, nameKept>>
       ELSE Rename("gone", outcome)
    /\ Charge(outcome)
    /\ whole' = (whole /\ outcome = "failed")
    /\ UNCHANGED <<shown, kept>>

(* Whatever the removal left, the deletion is durable: 204.                *)
Remove(c, outcome) ==
    /\ pc[c] = "remove"
    /\ RemoveTree(outcome)
    /\ Goto(c, "deleted")
    /\ UNCHANGED <<had, tick, expired>>

-----------------------------------------------------------------------------
(* The coordinator's tick, under the data root's lock *)

TickStart ==
    /\ tick = "idle"
    /\ ~RootLocked
    /\ tick' = "sweep"
    /\ UNCHANGED <<disk, had, pc, expired, faults>>

(* Mutant: the sweep knows only meetings.                                  *)
SweepMeetings(outcome) ==
    /\ tick = "sweep"
    /\ tick' = "visit"
    /\ outcome = "synced"
    /\ UNCHANGED <<disk, had, pc, expired, faults>>

(* A tombstone is removed; a meeting whose lock is free loses a recording  *)
(* past its deadline, and its record is saved.                             *)
Sweep(outcome) ==
    /\ tick = "sweep"
    /\ tick' = "visit"
    /\ IF name = "tombstone" THEN RemoveTree(outcome)
       ELSE IF name = "folder" /\ ~Locked /\ expired /\ Now.upload
       THEN /\ outcome # "half"
            /\ Change(Record, [Now EXCEPT !.upload = FALSE], outcome)
            /\ Charge(outcome)
            /\ UNCHANGED names
       ELSE outcome = "synced" /\ UNCHANGED <<disk, faults>>
    /\ UNCHANGED <<had, pc, expired>>

(* Mutant: the tick waits for the meeting's lock.                          *)
VisitWaits(outcome) ==
    /\ tick = "visit"
    /\ ~Locked
    /\ tick' = "idle"
    /\ outcome = "synced"
    /\ UNCHANGED <<disk, had, pc, expired, faults>>

(* process_once, unless somebody has the meeting's lock: the GPU may have  *)
(* confirmed that it deleted its copy.                                     *)
Visit(outcome) ==
    /\ tick = "visit"
    /\ tick' = "idle"
    /\ \/ /\ name = "folder" /\ ~Locked /\ Now.receipt
          /\ Change(Record, [Now EXCEPT !.receipt = FALSE], outcome)
          /\ Charge(outcome)
       \/ outcome = "synced" /\ UNCHANGED <<shown, kept, faults>>
    /\ UNCHANGED <<names, had, pc, expired>>

-----------------------------------------------------------------------------
Deadline ==
    /\ ~expired
    /\ expired' = TRUE
    /\ UNCHANGED <<disk, had, pc, tick, faults>>

(* The backend dies with all of its calls and locks.                       *)
Die ==
    /\ Charge("failed")
    /\ pc' = [c \in Calls |-> IF pc[c] \in {"idle"} \union Answers THEN pc[c]
                              ELSE "lost"]
    /\ tick' = "idle"
    /\ UNCHANGED <<whole, had, expired>>

Crash == Die /\ UNCHANGED <<shown, kept, name, nameKept>>

PowerLoss ==
    LET unsynced == { e \in Entries : kept[e] # {shown[e]} }
    IN /\ Die
       /\ \E left \in [unsynced -> UNION { kept[e] : e \in unsynced }] :
             /\ \A e \in unsynced : left[e] \in kept[e]
             /\ shown' = [e \in Entries |-> IF e \in unsynced THEN left[e]
                                              ELSE shown[e]]
       /\ kept' = [e \in Entries |-> {shown'[e]}]
       /\ name' \in nameKept
       /\ nameKept' = {name'}

Retry(c) ==
    \E outcome \in Outcome :
       \/ ArchiveRecord(c, outcome) \/ ArchiveOriginal(c, outcome)
       \/ UnlinkOriginal(c, outcome) \/ SaveAttempt(c, outcome)

Delete(c) ==
    \/ \E outcome \in Outcome : SyncHidden(c, outcome) \/ Unhide(c, outcome)
    \/ \E outcome \in Outcome \union {"half"} : Remove(c, outcome)

HideAny(c) == \E outcome \in Outcome : Hide(c, outcome)

Tick ==
    \/ TickStart
    \/ \E outcome \in Outcome \union {"half"} : Sweep(outcome)
    \/ \E outcome \in Outcome : Visit(outcome)

Next ==
    \/ \E c \in Calls : Call(c) \/ Lock(c)
    \/ \E c \in Retries : Retry(c)
    \/ \E c \in Deletes : HideAny(c) \/ Delete(c)
    \/ Tick \/ Deadline \/ Crash \/ PowerLoss

(* Threads and the tick go on; the kernel hands a lock that is released    *)
(* again and again to each of those that wait for it.                      *)
Fairness ==
    /\ \A c \in Calls : SF_vars(Lock(c))
    /\ \A c \in Retries : WF_vars(Retry(c))
    /\ \A c \in Deletes : SF_vars(HideAny(c)) /\ WF_vars(Delete(c))
    /\ WF_vars(Tick)

Spec == Init /\ [][Next]_vars /\ Fairness

-----------------------------------------------------------------------------
(* Properties *)

(* _archive_attempt unlinks an original only when its copy is durable: no  *)
(* failing write, crash or power loss, and no repetition after one, loses  *)
(* what the failed attempt produced.                                       *)
OriginalsSurvive ==
    whole => \A o \in had : {"there"} \in {kept[Top(o)], kept[Archived(o)]}

(* A retry that was answered 202 is final and clean: whatever is left, the *)
(* next attempt waits, no original of the failed one is beside it, which   *)
(* its own results could never replace, and the record of the failed one   *)
(* is in the archive.                                                      *)
AcceptedRetryIsClean ==
    (\E c \in Retries : pc[c] = "accepted") =>
       /\ \A r \in kept[Record] : r.attempt = 2
       /\ \A o \in Range(Originals) : kept[Top(o)] = {None}
       /\ \A old \in kept[Archived("meeting.json")] :
             old # None /\ old.attempt = 1

(* delete_meeting hides a folder durably before it removes any of it: a    *)
(* DELETE that was answered 204 is final, and none of its failures leaves  *)
(* half a folder under the meeting's name.                                 *)
DeletedStaysGone ==
    \A c \in Deletes :
       pc[c] \in {"remove", "deleted"} => "folder" \notin nameKept

(* The two orders of the two locks never block each other, and no call     *)
(* waits for ever.                                                         *)
CallsEnd == \A c \in Calls : pc[c] # "idle" ~> pc[c] \in Answers

(* What an interrupted deletion left is removed by the sweep, unless the   *)
(* deletion itself is undone.                                              *)
TombstoneGoes == name = "tombstone" ~> name # "tombstone"
=============================================================================
