# Formal models of the meeting service

TLA+ models of `src/backend/app` and of the web client's meeting view: what is
modelled, which TLC runs check it, what TLAPS proves about it, and what the
models leave out.

An owner uploads a recording. The backend stores it, sends it to a GPU
service, takes over the machine result, tells the GPU service to erase its
copy, lets the owner review and approve the minutes, and exports them as PDF.
There is no database: a meeting is a folder
`data/users/<owner>/meetings/<meeting>/` whose `meeting.json` is replaced
atomically, and processes and threads exclude each other with `flock`. The hard
part of this program is therefore the order of small durable steps, and what
is left when one of them fails or the process or the machine dies in between.

## 1. Inventory

Paths are relative to `src/backend/app`; those that begin with `features/` or
`components/` to `src/frontend/src`.

| Component | Source | State | Operations |
| --- | --- | --- | --- |
| Artifact store | `services/artifact_store.py` | the meeting folder: `meeting.json`, `upload.bin`, three originals, `manifest.json`, `attempts/`, reviews, PDFs with markers, tombstones, two lock files | create, read, list, update, archive, publish, delete |
| Coordinator | `services/coordinator.py` | a copy of the record during one step | `process_once`: reconcile, then submit / poll / fetch / publish / clean up / ACK |
| Scheduler | `services/coordinator_runtime.py` | the coordinator lock during a tick | `run_forever`, `tick` |
| Janitor | `services/local_janitor.py` | none | `sweep`: expire uploads, remove tombstones and stale staging |
| Lifecycle | `services/lifecycle.py` | none | retry, delete |
| GPU service and client | `services/gpu_client.py` (the service itself is not in the repository) | one job per (meeting, attempt) key | submit, status, result, ACK |
| Reviews | `services/reviews.py` | `review-<n>.json`, the revision in the record | PUT, approve, read a revision |
| PDF export | `api/routes/meetings.py` 356-496 | `review-<n>.pdf`, its marker, stage `exporting`, the lock kept by the response | GET `/export.pdf` |
| Uploads | `services/uploads.py` | a staging file | parse, stage, validate, remove |
| Results | `models/*.py`, `services/pipeline_result_adapter.py` | none | adapt, validate, overlay a review |
| Listing | `api/routes/meetings.py` 95-130, 173-197 | none | page by cursor |
| Web client: meeting view | `features/meetings/ui/live-meeting-detail-view.tsx`, `features/meetings/api/hooks.ts`, `components/providers/app-providers.tsx` | three queries, a draft with its revision, one request at a time | poll, edit, save, approve, retry, download |
| The rest | profiles, auth, configuration, `main.py`, PDF layout, demo fixture, Supabase migration | none shared | stateless requests, a one-off command |

How they interact:

- `run_forever` calls `tick` for ever. A tick holds the root's
  `.coordinator.lock`, lets the janitor sweep, then visits every meeting with a
  non-blocking `.lifecycle.lock` and lets the coordinator take one step.
- API calls run in threads of the event loop's executor and wait for the
  meeting's lifecycle lock. DELETE waits for the coordinator lock as well.
- A coordinator step makes HTTP calls to the GPU service while it holds the
  lifecycle lock. Any of them may be lost, before or after it took effect.
- A browser tab reads the record, the transcript and the insights in three
  requests that no lock holds together. It names the revision it has seen when
  it saves or approves, and sends the whole of what it shows.
- An export keeps the lifecycle lock after its handler has returned, until the
  response is sent, and releases it in another thread.

What makes each component correct, and what is hard about it:

| Component | Correct means | Hard because |
| --- | --- | --- |
| Publication | the GPU copy is given up only for a result that survives a power loss; a shown result is never withdrawn | renames are visible before they are durable; every call may fail; ACK and removal are two steps |
| Lifecycle | the status follows the documented table; `cleanup_status` never claims more than is true and catches up; no attempt is computed twice; one meeting does not stop another | submissions and receipts arrive late or twice; retries leave jobs behind; deadlines pass at any moment |
| Review | no confirmed edit is lost; approval is of what was inspected | two files and a record change in three writes |
| Export | the PDF is the approved revision, made again only when the last one was lost | the cache outlives a revision; the lock outlives the handler and the client |
| Deletion | nothing is left, nothing comes back | two locks taken in both orders, a rename that may be undone, a removal that may stop half-way |
| Retry | the failed attempt's originals survive, the next attempt starts without them | three files copied and unlinked one by one before the record changes; repetitions after a failure |
| Results | what the machine said is attributed to who said it, and what a reviewer changed is marked | three layers of identifiers, validators in other modules than the lookups that rely on them |
| Listing | newest first, nobody twice, nobody missing | a list is read anew for each page, without a lock, while meetings come and go |
| Meeting view | no save takes back another's; approved is what was on the screen; results appear by themselves | answers come in any order; a request that was given up may arrive later; two tabs edit the same revision |
| Uploads | no recording is kept without a meeting, none is lost | cancellation does not stop a thread |

`PROJECT.json` lists the hazards one by one, at their lines.

## 2. Modules

| Module | Models | Its actions are |
| --- | --- | --- |
| `ResultHandover` | the abstract promise: one result, two copies, never none because of an ACK | what happens to the two copies |
| `ResultPublication` | `_advance` with a bound job, `publish_results`, `_cleanup`, the deadline sweep | one durable write, call or decision each, with every way it can end |
| `MeetingContract` | the documented table of statuses | one change of what GET answers |
| `MeetingLifecycle` | several meetings: create, retry, review, delete, tick, sweep, scan, `process_once`, the GPU jobs | one await or one save of a step, one API call |
| `ReviewContract` | the abstract promise of a reviewed meeting: numbered minutes, the last of which may be approved, and what answers are worth | one change of the minutes or of their approval, answered or only seen; a loss of power |
| `ReviewExport` | PUT, approve, reading, the export and its cache | one write of an operation |
| `UploadPromise` | what POST's 202 promises: the record, and the recording until its deadline or its published result | none: the state it speaks of and `AcceptedIsKept` |
| `MeetingUpload` | POST from the parsed form to the answer, cancelled handlers, the sweeps with the expiry of the recording, a meeting's first step, the publication of its result and the clean-up after it | one call of the staging or creating thread with every way it can end, one write of the tick |
| `ExportLocks` | concurrent requests, the executor's queue and threads, the flock, the cached PDF of each revision | one hand-over of a thread or of the lock, one call under it with every way it can end |
| `MeetingFolder` | one failed meeting's folder and archive, entry by entry: POST retry, DELETE, the tick's expiry, receipt and sweep of tombstones | one write, unlink, rename or removal, with every way it can end; a lock taken |
| `MeetingDocument` | `adapt_pipeline_result`, the validators of transcripts, insights and bundles, the overlay of a review, approval, the lookups of the PDF | adapt or receive a result, PUT, approve; the algorithms are operators |
| `MeetingList` | GET `/meetings` and the client's walk over its pages | one folder read, one page cut, one meeting that comes or goes |
| `MeetingView` | browser tabs that show one meeting: their queries, drafts and requests, over what the server promises | one answer or failure of a query, one click, one request carried out |
| `ResultPublicationProofs`, `MeetingLifecycleProofs`, `ReviewExportProofs`, `ExportLocksProofs`, `MeetingFolderProofs`, `MeetingDocumentProofs`, `MeetingViewProofs` | theorems about the module they are named after | |
| `MeetingRoutesProofs` | theorems about the two requests on `/meetings`: `MeetingList` and, as the instance `Post`, `MeetingUpload` | |
| `MC*` | what TLC needs to instantiate a module | |

`PROJECT.json` maps every definition to the lines it models. Operators whose
comment begins with `Mutant:` are not part of a model: each is a plausible
mistake in one definition, kept to show that the properties notice it.

How state corresponds to the code:

- **Durability** (`ResultPublication`, `ReviewExport`, `MeetingUpload`,
  `MeetingFolder`). File contents are
  fsynced before they get a name, so only names are in question. A write ends
  in one of three ways: it fails, it changes the name and then raises because
  the directory's fsync failed, or both succeed. Between fsyncs the module
  keeps every value an entry may fall back to (`survivors`, `kept`,
  `nameKept` for the name of a whole folder). A process
  crash keeps what is shown; a power loss picks any of these values.
- **The step.** `pc` is the await or write at which the coordinator (or the
  operation that holds the lifecycle lock) stands. `mem` in
  `ResultPublication` is its copy of the record, saved later; in
  `MeetingLifecycle`, where only process crashes occur, the copy equals the
  record and is left out.
- **The GPU service** is external. It is modelled from what the client can
  observe: a key is reserved, becomes a job or is released; a job completes,
  fails, expires; a copy is erased by an ACK or by the deadline; receipts are
  forgotten only after a week. A request that was given up may still arrive. Any
  query may be answered with an error instead, or with what is no valid job,
  which fails the meeting (`QueryFails`, `PollFails`), or not at all; both count
  as faults, which are bounded, so that no liveness property rests on them.
- **Threads.** In `MeetingUpload`, `pc` is the place of an upload's thread, or
  of its handler between two threads, and `answer` is what the client knows.
  `Cancel` ends the handler alone: the thread goes on from where it is, and the
  handler's own unlinking may come before the thread is done with the file.
  `aged` says of an upload that its files are a day old, `due` that the deadline
  in its record, a day after its folder was made, has passed; one action sets
  both. `shown` and `kept` are the present and the durable values of the record
  and of the recording: the record is `queued`, `processing`, `finished` (a
  result is published) or `cleaned` (and the recording is removed, or expired).
- **Locks.** In `MeetingLifecycle` a meeting's lock is free when its `pc` is
  idle and no DELETE holds it. In `ReviewExport` one operation runs at a time:
  `ExportLocks` is where that assumption is examined, with requests that wait
  and clients that leave. `MeetingFolder` has both locks, taken in the order of
  each caller: a call's `pc` and the tick's `tick` say who holds which.
- **The cached PDF.** In `ExportLocks`, `cache` is the set of revisions that have
  a usable PDF on the disk, `renders` how often each was rendered. A PUT drops the
  PDF of an approved revision before it commits; when it fails in between, or an
  export fails while it writes the file or its marker, the request ends at `lost`
  instead of `done`: it has cost one more rendering.
- **Documents.** A text is the machine's or typed, a time is a small number, an
  identifier derived by uuid5 is the source identifier it is derived from.
  `Adaptable`, `ValidBundle` and `Acceptable` are the conjunctions of what the
  validators refuse; `None` is an absent value, and a failing dictionary lookup.
- **The list.** A meeting is its place in the order of creation time and
  identifier; `names` are the folders of one `iterdir()`, `there` is what a
  reader finds at that moment.
- **The view.** `data`, `errors` and `fetching` are React Query's cache of a tab,
  `draft` the component's `draftState` with its key, `editing` its
  `editingApproved`; `waiting` and `refreshing` are the two awaits of a handler
  and together its `busy`. The server is reduced to the minutes of each revision
  (`versions`), each a set of edits made since the machine's result, and to what
  `update_review` and `approve_review` check; a request stays in `sent` until it
  is carried out, also after its tab has given it up. `approved` remembers what
  was displayed when the button was pressed.
- **Data** is reduced to what the properties distinguish: contents are model
  values, a PDF is the content it shows, a digest is the content it is of, a
  deadline is a flag that becomes true once.

## 3. Runs

Every number below is of TLC with two workers.

### Runs that pass

| Run | Instance | States | Checks |
| --- | --- | --- | --- |
| `publication` | the three originals and the manifest, 4 faults | 10 192 | `TypeOK`, `AckedResultIsDurable`, `ManifestIsLast`, `EarlyRemovalNeedsResult`, `ResultIsNeverWithdrawn`, `HandoverSpec`, `CleanupFinishes`, `MeetingSettles` |
| `lifecycle` | 1 meeting, 2 attempts, 2 faults | 118 523 | `TypeOK`, `CleanupIsTrue`, `OneRunPerAttempt`, `ContractSpec`, `AudioExpires`, `QueuedStarts`, `AttemptsEnd`, `ReceiptsAreRead` |
| `review_export` | 2 reviewed edits and a draft, 3 revisions, 4 faults | 135 246 | `CommittedReviewIsThere`, `ConfirmedRevisionStays`, `ExportShowsApproved`, `ExportCanBeRepeated`, `ContractSpec` |
| `upload` | an audio and a video upload, 2 faults | 260 468 | `AcceptedIsKept`, `LeftoversGo` |
| `export_locks` | 2 exports, 2 PUTs, 1 approval, 5 threads | 74 185 | `BytesAreCurrent`, `PDFBuiltOnce`, `LockHasAnOwner`, `EveryCallEnds` |
| `folder` | 2 retries, 1 deletion, 2 originals, 2 faults | 135 566 | `OriginalsSurvive`, `AcceptedRetryIsClean`, `DeletedStaysGone`, `CallsEnd`, `TombstoneGoes` |
| `documents` | 1 900 pipeline results, 2 bundles, 1 323 review requests for each | 9 987 | `AdapterIsFaithful`, `MachineShows`, `MinutesCanBePrinted` |
| `list` | 4 meetings, pages of 2 | 210 616 | `NewestFirst`, `SteadyIsListed` |
| `view` | 2 tabs, 2 edits, 2 saved revisions, 1 retry, 1 fault | 521 916 | `SavedEditsStay`, `ApprovedWasSeen`, `ResultsAppear` |

What they show.

- `publication`: whatever fails, and whenever the machine dies, the GPU copy is
  erased at the backend's request only over a durable result, a visible
  manifest has everything below it, a recording removed early was replaced by a
  result, and once faults stop the ACK is delivered and the meeting leaves
  `processing`.
- `lifecycle`: what `cleanup_status` claims is true of every copy of every
  attempt, even of a submission that was lost on the way; no attempt is
  computed twice; what GET shows follows the documented table; every attempt
  ends, the recording is removed at its deadline, receipts are read.
- `review_export`: the revision a client was told stays what it was through
  crashes and power losses, and a PDF shows the approved revision. Seen without
  its files, the meeting only ever takes the steps of `ReviewContract`: nothing
  is approved unreviewed or comes back approved that was not, an edit is all
  there or not at all, and only an answered change is relied on.
- `upload`: once the client has its 202 nothing takes the record any more, and
  nothing takes the recording before its deadline or before a result is
  published in a record that no power loss takes back: neither a power loss, nor
  a sweep, nor a clean-up that is interrupted. At the deadline the tick removes
  it (`Expire`), which `AudioExpires` of `lifecycle` demands. However an upload
  ends, no copy that belongs to no meeting is left for ever.
- `export_locks`: the lock kept by a response protects what is being sent, is
  always released, also for clients that left, and nobody waits for ever while
  there are threads enough. However exports, edits and failures interleave, a
  revision is rendered once, and once more for every call that has lost its PDF:
  two exports never render beside each other.
- `folder`: no failure, crash, power loss or repetition of a retry loses what
  the failed attempt produced; a retry answered 202 has removed all of it from
  the way of the next result, durably; a DELETE answered 204 is final; the two
  locks, taken in both orders, block nobody; a tombstone is removed.
- `documents`: from any result of the pipeline the adapter builds a bundle that
  the validators accept or refuses it itself, with every voice, segment and
  source in its place; whatever reviews are made, what is not marked as edited is
  what the machine heard; and no lookup of the PDF of an approved meeting fails
  or prints a voice that nobody reviewed.
- `list`: whatever comes, goes or comes back between any two reads, the walked
  list is newest first without repetition and without a missing meeting.
- `view`: whatever two tabs read, edit, save and give up, in any order, a saved
  edit is in every later revision, because nothing is shown, and so nothing can
  be sent, that was put together from two revisions; approved minutes are those
  that were on the screen, also when the approval arrives after its tab was told
  that it failed; and a tab that waits for the processing comes to show how it
  ended without being reloaded, unless somebody saves between two of its reads.

`ReviewExport`, `ExportLocks`, `MeetingUpload` and `MeetingFolder` state a type
invariant too. All but that of `MeetingUpload` are proved; the runs leave them
out in favour of what could really go wrong.

Why the bounds are enough. Four faults let a publication be interrupted, its
recovery be interrupted, and the clean-up fail twice. Two attempts are the
least with an old job behind a new one; the third of the code adds a second
old job that is treated like the first. Three revisions give an approved
revision with a cached PDF, the edit after it and the edit that may reuse its
number. Two faults let an upload fail and its undo or its removal fail as well,
and two uploads let one sweep the other's leftovers while it reserves its file.
Two exports and two PUTs let each wait for each, and the second
export meet what the first, or a PUT that failed, has left of the cache; with a
thread for every request the pool is never the limit, which is the subject of the run with
two threads. Two faults interrupt a retry and the next one, or a deletion and
its undo; of two originals one may be archived and the other not, and the third
of the code is treated like the second. Four meetings and pages of two give a
second page with a meeting created, deleted or restored on each side of the
cursor. Two tabs are the least that overwrite each other; with two saved
revisions a tab may hold the first while the second is made of it, and the one
fault is a failed query, a lost answer, a reload, a return to the page or a
reconnection. The inputs of `documents` have up to three utterances with every
labelling, repeated and unordered ones, reviews that edit a text, a voice or
both, and evidence inside and outside a segment. All counters are bounded by
constants in the guards (`MaxFaults`, `MaxAttempts`, `MaxRevision`);
`MaxAttempts` is the code's 3 and the other two bound only the model.

Deadlock is checked in `review_export` and `folder`, where some operation can
always be called. In the other runs the system may really stop: a deleted or
settled meeting without receipts to read, all requests answered, an approved
meeting, a list walked to its end, a tab that shows what it has.

### Runs that TLC refutes

Each states one sentence of the documentation, of a docstring or of a test, and
TLC finds a behaviour of the code that contradicts it.

| Run | Property | What happens |
| --- | --- | --- |
| `lifecycle_stale` | `ConfirmedCleanupShows` | No fault at all. The upload expires, the poll brings the expired job's receipt and fails the meeting without recomputing `cleanup_status` (`coordinator.py:187`); the scan is no longer interested, so it says pending for ever and DELETE answers 409 |
| `lifecycle_blocked` | `QueuedStarts` | A half published meeting past its deadline raises `ArtifactNotReady` out of the sweep: no meeting of the data root is scheduled any more (`local_janitor.py:92`) |
| `export_locks_full` | `EveryCallEnds` | As many calls wait for the flock as there are threads, and the unlock needs one of them (`meetings.py:440`) |

`QueuedStarts` is therefore in two runs: it holds for a meeting alone on its
data root and fails with a neighbour. `AttemptsEnd` and `ReceiptsAreRead` name
the half published record as an exception, and `MeetingSettles` the aborted
sweep, because the runs above show exactly these to be the ways to get stuck.
Two meetings with liveness are expensive; the run with two has one attempt and
one fault.

### Known deviations without a run

Behaviours of the code that were met while modelling, that the models contain
and that limit what their properties can say:

- A publication stops between record and manifest and its job then expires: the
  failed meeting keeps `ack_pending`, which no later step clears, and every
  DELETE is answered 409 although all copies are confirmed gone
  (`lifecycle.py:49`).
- The second attempt's publication stops before the manifest and the first
  attempt's receipt arrives: every step ends saving it, because a half published
  record cannot be saved, and never comes to the repair (`coordinator.py:119`).
- A PUT fails at its last fsync, a client reads its revision, the power goes,
  another PUT gets the same number: the client's approval of what it read
  approves the other content (`reviews.py:230`). `ConfirmedRevisionStays` is
  about revisions that were confirmed.
- A PUT drops the PDF of the approved revision and its commit then fails
  (`reviews.py:206`, `:215`). The approval stays, without its PDF, which the next
  export renders again. The comment above the call says so;
  `docs/technical/API_CONTRACT.md:25` says that a failed edit changes neither the
  approval nor the cache. `PDFBuiltOnce` therefore allows one more rendering for
  each call that failed in this way.
- The fsync after the rename of `meeting.json` fails, a tick has read the
  record, the undo unlinks it and the tick's save writes it again: the POST is
  answered 503 and the meeting is there (`artifact_store.py:280`).
- DELETE dies between its rename and the fsync; the tick's sweep removes the
  tombstone without syncing the directory first, and a power loss may bring the
  meeting's name back over half a folder (`local_janitor.py:101`).
  `DeletedStaysGone` is about deletions that were answered.
- An unlink of a retry is done but its fsync fails; the repetition finds the
  original gone and does not sync the folder again. Until the next attempt is
  saved, in the same folder, a power loss may bring the original back beside its
  copy. It is the save that makes `AcceptedRetryIsClean` true.
- A retry stops after it has archived the record, and the tick records the GPU's
  receipt in the record: from then on every retry meets other bytes under the
  archived name, which is never rewritten, and is answered 503
  (`artifact_store.py:367`, whose docstring says "resumable on failure").
- Somebody saves between two reads of a tab: the three queries never agree, a
  finished meeting is not polled, and the tab shows "Loading the saved results"
  until its user does something (`live-meeting-detail-view.tsx:311`). This is the
  exception `Mixed` in `ResultsAppear`.
- A reconnection brings another revision under a draft: the draft's key no longer
  matches, and it disappears without a message
  (`live-meeting-detail-view.tsx:107`).
- A crash while a PDF is rendered leaves stage `exporting` on the record
  (`meetings.py:414`) until the revision is exported again.

## 4. Fairness

- `ResultPublication`: weak fairness of the coordinator's step and of the
  janitor, because `run_forever` catches every error of a tick and goes on, and
  every GPU call has a timeout; of the two deadlines, because they are clocks.
  Nothing is assumed of the reviewer, or that the GPU service ever computes.
- `MeetingLifecycle`: the scheduler, the deadlines, and that the GPU service
  resolves a key it has reserved and a job past its deadline. Users and
  computations are not fair. `SchedulerSpec` has the scheduler alone.
- `MeetingUpload`: the tick's sweeps and its pending save, as above, and that a
  day passes after an upload has ended. Nothing is assumed of clients or of
  the threads of an upload, or that a result is ever published.
- `ReviewExport`: none, only safety is stated.
- `MeetingFolder`: weak fairness of a call's own steps and of the tick, as
  above. Strong fairness of taking a lock, because the tick takes and releases
  the data root's lock for ever and holds a meeting's now and then: the kernel
  hands a released flock to those that wait for it.
- In `MeetingUpload` and `MeetingFolder` the fairness of the sweep assumes that it
  comes to the entries of this meeting. A half published neighbour past its
  deadline keeps it from that, tick after tick (`local_janitor.py:92`, the run
  `lifecycle_blocked`): `LeftoversGo` and `TombstoneGoes` hold of a data root
  without one.
- `MeetingDocument` and `MeetingList`: none, only safety is stated.
- `MeetingView`: queries are answered (a request ends in an answer or an error,
  and failures are bounded), the interval of a visible tab goes on, and an
  attempt ends, which `MeetingLifecycle` shows. Nothing is assumed of users, or
  that a request of theirs is carried out.
- `ExportLocks`: weak fairness of what the server can do for each request:
  threads run, the event loop resumes what is ready, the kernel grants a free
  flock. A request that waits for the lock competes with others; as each takes
  it once, weak fairness is enough and starvation is not assumed away.

Faults are never fair and their number is bounded, so liveness is about what
happens once they stop.

## 5. Proofs

`tlapm` checks the proof modules to the last leaf, for every value of the
constants, under the assumptions that the component modules name.

**`ResultPublicationProofs`** (assuming `OriginalsAssumption`: a non-empty list
of names without the manifest; `FaultsAssumption`). Theorems `Typing`,
`AckIsSafe`, `ManifestCommits`, `SourceOrResult`, `NeverWithdrawn` and
`ImplementsHandover`. None of the three invariants is inductive: that the ACK
is safe depends on where the coordinator stands. `IInv` adds `PlaceInv`, which
says of each place what the steps before it have made durable (files passed in
the loop are safe, behind the record every version that may come back is ready,
clean-up runs only over a durable result), and `FetchedInv`, that nothing is
published which the GPU service had not computed; the refinement needs it to
map the final fsync to `Secure`. `WriteRecordEffect`, `WriteOnceEffect` and the
`...Keeps` lemmas say once what a write with any outcome does to the folder.
The refinement maps a step to `Secure` when it makes `Durable` true, to
`Release`, `Compute` or `Lapse` when it changes the GPU's copy, and otherwise
to a stutter.

**`ExportLocksProofs`** (assuming `RequestsAssumption`: finitely many requests
of disjoint kinds; `WorkersAssumption`: at least one thread). Theorems
`Invariance`, `Typing`, `SentIsCurrent`, `BuiltOnce`, `LockIsOwned`. `IInv`
adds `LockInv` (a request is at a holding place exactly when it owns the lock,
which is what excludes a PUT while bytes are sent), `QueueInv` (a job is in the
queue exactly as its request's place says, and once), `UnlockInv` (an export at
its unlock is in the queue), `CountInv` (only a finished PUT has raised the
revision, which bounds it), `ExportInv` (only exports keep the lock without
a thread), and `BuildInv`, which counts: a revision was rendered at most once for
each call that lost its PDF, and once more if it is in the cache or is not the
current revision any more, so that nobody will render it again. The argument is
about any pool, also a full one: the last theorem says the unlock is in the
queue, not that a thread will come to it, and `export_locks_full` shows that it
may not.

**`MeetingRoutesProofs`**, first part: `MeetingList` (assuming
`MeetingsAssumption`: finitely many numbers; `LimitAssumption`). Theorems
`Invariance`, `ListIsOrdered`, `NobodyIsMissing`.
`CursorInv` says that what the client has is not below the cursor of its next
request, `SteadyInv` that a meeting that was there all along was seen, or is
below the cursor and was read by this request or will be. That a page is what
its definition says (`NewestIsAPage`) rests on `RankIsTaken`, a pigeonhole
argument: in a finite set every place from the newest on is some meeting's.

Second part: `MeetingUpload` (assuming only that `None` is not an upload).
Theorems `UploadsInvariance`, `AcceptedStays`. `AcceptedIsKept` speaks of the
moment after the answer; the power loss that would refute it may come long
before. `UploadInv` therefore says of each place of `create_meeting` what the
steps before it have made durable: before the commit nobody, the janitor's tick
included, knows the meeting; from the sync of the parent on, its folder, its
recording and its record are `Safe`. `aged` implies that the thread is over,
which keeps the sweep away from a folder in the making. `Safe` asks for the
recording until `Over`; so the proof has to show that the tick removes it only
then, and that no older record can come back once the recording is gone: an
expiry needs `due`, and a clean-up begins by publishing durably. An upload's step leaves
every other upload's invariant alone (`OthersKeep`), so each action is looked at
for one upload.

**`MeetingDocumentProofs`** (assuming `SegmentsAssumption`,
`VoicesAssumption` and `PayloadsAssumption`, the shape of the inputs). Theorems
`Invariance`, `ApprovedIsPrintable`, `EditsAreMarked`, `AdapterMixesUpNothing`.
`ReviewInv` says that both the machine's result and the minutes laid over it
have passed the validators; `SoundIsPrintable` that a document that has passed
them contains all that the PDF looks up, `EditMarks` and `OverlayShows` what an
overlay leaves alone. The inputs are arbitrary sets, so this does not depend on
those of the run, and `AdapterInv` is about payloads with any number of
utterances. The adapter's loop over them is the recursive function `Heard`; that
this function exists (`HeardExists`) and an induction over the number of
utterances heard (`Induction`) both rest on the well-foundedness of the natural
numbers, said of sets, since the provers cannot instantiate the induction
theorems of the library. `HeardInv` says what is true between two utterances:
the list of labels has exactly those heard so far, each once, and begins with
every earlier list. From this follow that voices are numbered as they are first
heard (`VoicesInOrder`), that every segment keeps its voice, and that what the
adapter does not refuse passes the validators (`AdaptedIsValid`).

**`MeetingLifecycleProofs`** (assuming `MaxAttemptsAssumption`: at least one
attempt; `MaxFaultsAssumption`; the meetings are any set). Theorems `Typing`,
`Invariance`, `OneRun`, `CleanupTrue`, `ImplementsContract`. That a record's
claim is true of every copy depends on the submissions that are still under way,
so `IInv` says of every attempt of every meeting what its job at the service and
its entry in the record have to do with each other: nothing was sent that is not
marked as started, which was saved first; what is bound is known; an attempt is
called clean when its job is, or when it was never sent and its deadline has
passed (`AttemptInv`, `JobInv`). `PlaceInv` says what the steps before each
place of a step have saved, `BusyInv` which meetings the tick and a DELETE may
be busy with. A step of one meeting leaves the others as they are, and the proof
has one lemma per action. TLC has checked `IInv` with one meeting, 2 attempts and
2 faults (118 523 states).
The refinement looks at every step through `Contract!vars`, what GET answers:
a step is not seen (`Unseen`, `QuietSteps`), is a write of one record, which may
be seen or lost (`EditSeen`, from `Edits`: what an edit of a record may change),
or is a creation, retry, review or deletion, each of which the table permits.
`RecordInv` is needed here: an edit to `ready` is only shown over a published
result.

**`ReviewExportProofs`** (assuming `ContentsAssumption` and `BoundsAssumption`).
Theorems `Invariance`, `Typing`, `ReviewIsThere`, `ConfirmedStays`,
`ExportIsApproved`, `ExportRepeats`, `ImplementsContract` and `AnswersAreKept`:
the four invariants of the run and the refinement of `ReviewContract`, for any
contents and any number of revisions, faults and power losses. `RecordInv` says
that no record which may come back is ahead of the current one, and that the
content of every revision up to it is durable; `CacheInv` that whatever may be
left in a revision's cache is that revision's content, and that the meeting can
then not fall back from being approved in it. The second is what `PutCommit`
needs, after which the number of a lost revision is used again: the cache is
dropped, durably, before the commit (`PutInv`).
The refinement forgets the files and keeps the record's revision and status, the
records a power loss may leave, the minutes up to the revision, and what was
told. `PutCommit` maps to `Save`, `Approve` to `Approve`, `ExportSend` to
`Send`, `PowerLoss` to `PowerLoss`; every other write that syncs the folder maps
to `Settle` or a stutter, the rest to a stutter. It needs the invariant:
that the minutes of earlier revisions are left alone by a power loss is
`RecordInv`, and that what an export sends is approved durably is `CacheInv`.
`AnswersAreKept` is the contract's own invariant, shown of the implementation.

**`MeetingFolderProofs`** (assuming `CallsAssumption`, `OriginalsAssumption`: a
list of names without the record's; `NoneAssumption`,
`FaultsAssumption`). Theorems `Invariance`, `Typing`, `OriginalsAreSafe`,
`RetryIsClean`, `DeletionIsFinal`. `OriginalsInv` says that something durable is
left of each original in the folder or in the archive; `RetryInv` that a retry
unlinks an original only over a durable copy of it, and answers over a next
attempt which is alone in its folder whatever is left of it; `NameInv` which
names the folder may come back with at each place of a deletion; `LockInv` that
each lock has one owner, without which neither would survive another call's
step. The next original is the first that is left, which exists by
well-founded induction (`Left`, `First`).

**`MeetingViewProofs`** (assuming `EditsAssumption` and `BoundsAssumption`; the
tabs are any set). Theorems `Invariance`, `NoEditIsOverwritten`,
`ApprovedIsSeen`. What could overwrite an edit is a request sent long ago by a
tab that was closed since. `SentInv` therefore says of every request that may
still arrive that it contains all that was saved in the revision it names, and
`DraftInv` says so of every draft. A draft is begun only by a tab whose three
queries agree on one revision (`View`), which is where the guard
of `live-meeting-detail-view.tsx` enters the proof; the server's comparison of
`base_revision` does the rest.

What stays with TLC: every liveness property, as liveness under fairness and
`ENABLED` are beyond the provers used; and `MeetingUpload`'s type invariant, of
which the proof needs only parts. Every safety property of a passing run is a theorem.

## 6. What is not modelled

- In the modelled components: the bytes of JSON, hashes and PDFs (a mismatch is
  one outcome of a read), path checks against symbolic links, logging, and the
  text of errors. `MeetingLifecycle` treats the archive of a retry and the
  rename of a deletion as one step that happens or fails (`MeetingFolder` has
  them in detail), and creation as one step that succeeds (`MeetingUpload` has
  it). `MeetingUpload` assumes that no upload takes a day, so the
  sweep never meets a staging file in use: a copy is bounded by 100 MiB, a probe
  by 5 seconds and an extraction by 120. The formats and limits of an upload
  are one accept-or-refuse choice; the first step of a meeting stands for the
  changes a tick may make to it before its result, and `Publish` for those up to
  the published result; a DELETE is `MeetingFolder`'s. `ExportLocks` leaves out a
  cached PDF that the disk has damaged (read back with another digest it is
  rendered again, `meetings.py:388`), the read of `meeting.json` that precedes a
  PUT in a thread of its own, the moments in which a tick has the lock of an
  approved meeting, and a response cancelled while it is unlocking (the
  descriptor is closed when the generator is).
- `MeetingFolder`: the meeting has failed in its first attempt, with its next
  attempt's processing left to `MeetingLifecycle`. The file `upload.bin` and the
  record's `local_cleanup_status` are one flag. A folder whose removal has begun
  and which a power loss gave its name back is not looked into: a call may find
  its record or not.
- `MeetingDocument`: wording, dates, hashes, durations and uuid5 itself. A
  responsible person's name never becomes an assignee in the code, so the model
  has no names. In the repository the adapter is called by its tests only; what
  the GPU service sends comes through `Receive`, which validates it alone.
- `MeetingList`: the coding of the cursor, which is reversible, and refused
  parameters. Equal creation times are ordered by the identifier.
- The GPU service itself is not in the repository, and the HTTP side of its
  client (parsing, sizes, status codes) is one choice of outcome per call.
- The prepared demo meeting: a command run once, by hand, for a demo account. It
  is listed as a hazard because it does without the lifecycle lock.
- `MeetingView`: the validation of a draft, which only keeps requests from being
  sent; the PDF download, which changes nothing; the list query; a page left
  while a request is on its way; a deleted meeting; a revision's number used
  again after a power loss, for which see above. The fetch and its answer are
  one step, since React Query drops an answer that an invalidation has
  overtaken; what a query knows may be old from then on. Edits only add up: the
  text of a segment is edited or it is not.
- The other views of the web client: presentation of local state. PDF layout,
  profiles, authentication, configuration, the database migration and the scripts: no state shared
  between operations.

## 7. State of the plan

Done: every module above, the safety proofs of all nine components, and the
three refinements of `ResultHandover`, `MeetingContract` and `ReviewContract`.
Nothing of the plan is left but what sections 5 and 6 name as out of reach or
out of scope. The runs are kept few: a new module should bring one passing run,
and a refuted one only for a disagreement stronger than those above, which it
then replaces.
