------------------------- MODULE ReviewExportProofs -------------------------
(***************************************************************************)
(* Proofs about ReviewExport, for any contents, any number of revisions    *)
(* and any number of faults: type correctness, the four invariants of its  *)
(* run, and that the module implements ReviewContract.                     *)
(***************************************************************************)
EXTENDS ReviewExport, TLAPS

-----------------------------------------------------------------------------
(* The inductive invariant *)

(* No state that may come back is ahead of the current one, and the        *)
(* content of every revision up to the current one is there and durable.   *)
RecordInv ==
    /\ \A s \in kept[Meeting] : s.revision <= Now.revision
    /\ \A r \in Revisions :
          r <= Now.revision => /\ Content(r) # None
                               /\ KeptContent(r) = {Content(r)}

(* Whatever may be left in the cache of a revision is its content, and     *)
(* then the meeting cannot fall back from this revision and its approval.  *)
Cached(r, v) ==
    /\ v = Content(r)
    /\ \A s \in kept[Meeting] : s.revision = r /\ s.status = "approved"

CacheInv ==
    \A r \in Revisions :
       \A v \in kept[PDF(r)] \union kept[Marker(r)] : v = None \/ Cached(r, v)

(* What the steps before each place have made durable.                     *)
PutInv ==
    /\ pc \in {"snapshot", "copy", "drop", "commit"} =>
          data \in Edits /\ Now.revision < MaxRevision
    /\ pc \in {"copy", "drop", "commit"} =>
          kept[Snapshot(Now.revision + 1)] = {data}
    /\ pc = "commit" =>
          \A r \in Revisions : kept[PDF(r)] = {None} /\ kept[Marker(r)] = {None}

ExportInv ==
    /\ pc \in {"purge", "stage"} => Now.status = "approved"
    /\ pc \in {"stage", "render"} => shown[PDF(Now.revision)] = None
    /\ pc \in {"render", "marker"} =>
          kept[Meeting] = {Now} /\ Now.status = "approved"
    /\ pc \in {"marker", "clear", "send"} => Cached(Now.revision, data)

IInv ==
    /\ TypeOK
    /\ RecordInv
    /\ CacheInv
    /\ PutInv
    /\ ExportInv
    /\ ConfirmedRevisionStays

-----------------------------------------------------------------------------
(* Lemmas about the folder *)

(* The entries of a folder are different from each other.                  *)
LEMMA EntryFacts ==
    /\ Meeting \in Entries
    /\ \A r \in Revisions :
          /\ Snapshot(r) \in Entries /\ PDF(r) \in Entries /\ Marker(r) \in Entries
          /\ Snapshot(r) # Meeting /\ PDF(r) # Meeting /\ Marker(r) # Meeting
    /\ \A r, q \in Revisions :
          /\ Snapshot(r) # PDF(q) /\ Snapshot(r) # Marker(q) /\ PDF(r) # Marker(q)
          /\ r # q => /\ Snapshot(r) # Snapshot(q)
                      /\ PDF(r) # PDF(q)
                      /\ Marker(r) # Marker(q)
BY DEF Entries, Meeting, Snapshot, PDF, Marker

(* Revisions are numbers, and the next one is one as long as the bound is  *)
(* not reached.                                                            *)
LEMMA RevisionFacts ==
    /\ Revisions \subseteq Nat
    /\ 0 \in Revisions
    /\ \A r \in Revisions : r < MaxRevision => r + 1 \in Revisions
BY BoundsAssumption DEF Revisions

(* What setting the entries in E to v does: nothing else is shown          *)
(* differently or may newly come back, and a fsync settles everything.     *)
Settled == \A x \in Entries : kept[x] = {shown[x]}

Kept(E, v) ==
    \A x \in Entries :
       /\ shown'[x] \in kept'[x]
       /\ shown'[x] = shown[x] \/ (x \in E /\ shown'[x] = v)
       /\ \A w \in kept'[x] : w \in kept[x] \/ (x \in E /\ w = v)

LEMMA ChangeEffect ==
    ASSUME TypeOK, NEW E \in SUBSET Entries, NEW v,
           NEW outcome \in {"failed", "named", "synced"}, Change(E, v, outcome)
    PROVE  /\ shown' = [x \in Entries |-> shown'[x]]
           /\ Kept(E, v)
           /\ outcome = "synced" => Settled' /\ \A x \in E : shown'[x] = v
<1>1. CASE outcome = "failed"
  BY <1>1 DEF Change, TypeOK, Settled, Kept
<1>2. CASE outcome = "named"
  BY <1>2 DEF Change, TypeOK, Settled, Kept
<1>3. CASE outcome = "synced"
  BY <1>3 DEF Change, TypeOK, Settled, Kept
<1>4. QED
  BY <1>1, <1>2, <1>3

LEMMA ChargeType ==
    ASSUME TypeOK, NEW outcome, Charge(outcome)
    PROVE  faults' \in 0..MaxFaults
BY BoundsAssumption DEF Charge, TypeOK

(* The first four conjuncts of TypeOK.                                     *)
FolderOK ==
    /\ shown \in [Entries -> State \union Contents \union {None}]
    /\ shown[Meeting] \in State
    /\ \A e \in Entries : /\ shown[e] \in kept[e]
                          /\ e # Meeting => kept[e] \subseteq Contents \union {None}
    /\ kept[Meeting] \subseteq State

LEMMA ChangeFolder ==
    ASSUME TypeOK, NEW E \in SUBSET Entries, NEW v,
           NEW outcome \in {"failed", "named", "synced"}, Change(E, v, outcome),
           Meeting \in E => E = {Meeting} /\ v \in State,
           Meeting \notin E => v \in Contents \union {None}
    PROVE  FolderOK'
<1>1. FolderOK /\ Kept(E, v)
  BY ChangeEffect DEF TypeOK, FolderOK
<1>2. Meeting \in Entries
  BY EntryFacts
<1>3. shown'[Meeting] \in State
  BY <1>1, <1>2 DEF FolderOK, Kept
<1>4. kept'[Meeting] \subseteq State
  BY <1>1, <1>2 DEF FolderOK, Kept
<1>5. ASSUME NEW x \in Entries, x # Meeting
      PROVE  shown'[x] \in Contents \union {None}
  BY <1>1, <1>5 DEF FolderOK, Kept
<1>6. ASSUME NEW x \in Entries, x # Meeting
      PROVE  kept'[x] \subseteq Contents \union {None}
  BY <1>1, <1>6 DEF FolderOK, Kept
<1>7. shown' \in [Entries -> State \union Contents \union {None}]
  <2>1. \A x \in Entries : shown'[x] \in State \union Contents \union {None}
    BY <1>3, <1>5
  <2>2. shown' = [x \in Entries |-> shown'[x]]
    BY ChangeEffect
  <2>3. QED
    BY <2>1, <2>2
<1>8. \A x \in Entries : shown'[x] \in kept'[x]
  BY <1>1 DEF Kept
<1>9. QED
  BY <1>3, <1>4, <1>6, <1>7, <1>8 DEF FolderOK

(* A change that concerns no content up to the current revision and leaves *)
(* the meeting at this revision.                                           *)
Calm(E, v) ==
    /\ \A r \in Revisions : r <= Now.revision => Snapshot(r) \notin E
    /\ Meeting \in E => v \in State /\ v.revision = Now.revision

LEMMA StateFacts ==
    ASSUME NEW s \in State
    PROVE  /\ s.revision \in Revisions
           /\ s.status \in {"review_required", "approved"}
           /\ s.exporting \in BOOLEAN
           /\ s.exporting => s.status = "approved"
BY DEF State

LEMMA CalmRecord ==
    ASSUME TypeOK, RecordInv, NEW E \in SUBSET Entries, NEW v,
           NEW outcome \in {"failed", "named", "synced"}, Change(E, v, outcome),
           Calm(E, v)
    PROVE  /\ RecordInv'
           /\ Now'.revision = Now.revision
           /\ \A s \in kept'[Meeting] :
                 s \in kept[Meeting] \/ s.revision = Now.revision
           /\ \A r \in Revisions : r <= Now.revision => Content(r)' = Content(r)
           /\ \A r \in Revisions : r <= Now.revision => KeptContent(r)' = {Content(r)}
<1>0. Kept(E, v)
  BY ChangeEffect
<1>1. Meeting \in Entries /\ Now \in State /\ Now \in kept[Meeting]
  BY EntryFacts DEF TypeOK, Now
<1>2. Now'.revision = Now.revision
  BY <1>0, <1>1 DEF Calm, Now, Kept
<1>3. \A s \in kept'[Meeting] : s \in kept[Meeting] \/ s.revision = Now.revision
  BY <1>0, <1>1 DEF Calm, Kept
<1>4. Now.revision \in Nat
  BY <1>1, StateFacts, RevisionFacts
<1>5. \A s \in kept'[Meeting] : s.revision <= Now'.revision
  BY <1>2, <1>3, <1>4 DEF RecordInv
<1>6. ASSUME NEW r \in Revisions, r <= Now.revision
      PROVE  Content(r)' = Content(r) /\ KeptContent(r)' = {Content(r)}
  <2>1. CASE r = 0
    BY <2>1 DEF Content, KeptContent
  <2>2. CASE r # 0
    <3>1. Snapshot(r) \in Entries /\ Snapshot(r) \notin E
      BY <1>6, EntryFacts DEF Calm
    <3>2. kept[Snapshot(r)] = {shown[Snapshot(r)]}
      BY <1>6, <2>2 DEF RecordInv, Content, KeptContent
    <3>3. /\ shown'[Snapshot(r)] = shown[Snapshot(r)]
          /\ kept'[Snapshot(r)] = {shown[Snapshot(r)]}
      BY <1>0, <3>1, <3>2 DEF Kept
    <3>4. Snapshot(r)' = Snapshot(r)
      BY DEF Snapshot
    <3>5. QED
      BY <2>2, <3>3, <3>4 DEF Content, KeptContent
  <2>3. QED
    BY <2>1, <2>2
<1>7. RecordInv'
  BY <1>2, <1>5, <1>6 DEF RecordInv
<1>8. QED
  BY <1>2, <1>3, <1>6, <1>7

LEMMA CalmConfirmed ==
    ASSUME TypeOK, RecordInv, ConfirmedRevisionStays,
           NEW E \in SUBSET Entries, NEW v,
           NEW outcome \in {"failed", "named", "synced"}, Change(E, v, outcome),
           Calm(E, v), UNCHANGED told
    PROVE  ConfirmedRevisionStays'
<1> SUFFICES ASSUME NEW r \in Revisions, told[r] # None
             PROVE  /\ KeptContent(r)' = {told[r]}
                    /\ \A s \in kept'[Meeting] : s.revision >= r
  BY DEF ConfirmedRevisionStays
<1>1. /\ KeptContent(r) = {told[r]}
      /\ \A s \in kept[Meeting] : s.revision >= r
  BY DEF ConfirmedRevisionStays
<1>2. Now \in State /\ Now \in kept[Meeting]
  BY EntryFacts DEF TypeOK, Now
<1>3. Now.revision \in Nat /\ r \in Nat /\ r <= Now.revision
  BY <1>1, <1>2, StateFacts, RevisionFacts
<1>4. KeptContent(r)' = {Content(r)} /\ KeptContent(r) = {Content(r)}
  BY <1>3, CalmRecord DEF RecordInv
<1>5. \A s \in kept'[Meeting] : s \in kept[Meeting] \/ s.revision = Now.revision
  BY CalmRecord
<1>6. QED
  BY <1>1, <1>3, <1>4, <1>5

(* A change that puts nothing into a cache but what belongs there.         *)
Fitting(E, v) ==
    /\ Meeting \in E => v.status = "approved" \/ Now.status # "approved"
    /\ \A r \in Revisions :
          PDF(r) \in E \/ Marker(r) \in E =>
             Meeting \notin E /\ (v = None \/ Cached(r, v))

LEMMA CalmCache ==
    ASSUME TypeOK, RecordInv, CacheInv,
           NEW E \in SUBSET Entries, NEW v,
           NEW outcome \in {"failed", "named", "synced"}, Change(E, v, outcome),
           Calm(E, v), Fitting(E, v)
    PROVE  CacheInv'
<1> SUFFICES ASSUME NEW r \in Revisions,
                    NEW w \in kept'[PDF(r)] \union kept'[Marker(r)], w # None
             PROVE  Cached(r, w)'
  BY DEF CacheInv, PDF, Marker
<1>0. Kept(E, v)
  BY ChangeEffect
<1>1. /\ Meeting \in Entries /\ PDF(r) \in Entries /\ Marker(r) \in Entries
      /\ Now \in State /\ Now \in kept[Meeting]
  BY EntryFacts DEF TypeOK, Now
<1>2. Cached(r, w)
  <2>1. CASE w \in kept[PDF(r)] \union kept[Marker(r)]
    BY <2>1 DEF CacheInv
  <2>2. CASE w \notin kept[PDF(r)] \union kept[Marker(r)]
    <3>1. w = v /\ (PDF(r) \in E \/ Marker(r) \in E)
      BY <1>0, <1>1, <2>2 DEF Kept
    <3>2. QED
      BY <3>1 DEF Fitting
  <2>3. QED
    BY <2>1, <2>2
<1>3. Now.revision = r /\ Now.status = "approved"
  BY <1>1, <1>2 DEF Cached
<1>4. Content(r)' = Content(r)
  <2>1. r \in Nat
    BY RevisionFacts
  <2>2. QED
    BY <1>3, <2>1, CalmRecord
<1>5. ASSUME NEW s \in kept'[Meeting]
      PROVE  s.revision = r /\ s.status = "approved"
  <2>1. CASE s \in kept[Meeting]
    BY <1>2, <2>1 DEF Cached
  <2>2. CASE s \notin kept[Meeting]
    <3>1. Meeting \in E /\ s = v
      BY <1>0, <1>1, <2>2 DEF Kept
    <3>2. QED
      BY <1>3, <3>1 DEF Calm, Fitting
  <2>3. QED
    BY <2>1, <2>2
<1>6. QED
  BY <1>2, <1>4, <1>5 DEF Cached

-----------------------------------------------------------------------------
(* Every step keeps the invariant *)

(* The rest of TypeOK.                                                     *)
LocalOK ==
    /\ pc \in Places
    /\ data \in Contents \union {None}
    /\ told \in [Revisions -> Contents \union {None}]
    /\ faults \in 0..MaxFaults

LEMMA TypeParts == TypeOK <=> FolderOK /\ LocalOK
BY DEF TypeOK, FolderOK, LocalOK

LEMMA InvParts ==
    ASSUME FolderOK', LocalOK', RecordInv', CacheInv', PutInv', ExportInv',
           ConfirmedRevisionStays'
    PROVE  IInv'
BY DEF IInv, TypeOK, FolderOK, LocalOK

(* What holds whenever IInv does, about the current state and revision.    *)
LEMMA NowFacts ==
    ASSUME TypeOK
    PROVE  /\ Now \in State /\ Now \in kept[Meeting]
           /\ Now.revision \in Revisions /\ Now.revision \in Nat
           /\ Now.status \in {"review_required", "approved"}
           /\ Now.exporting \in BOOLEAN
<1>1. Now \in State /\ Now \in kept[Meeting]
  BY EntryFacts DEF TypeOK, Now
<1>2. QED
  BY <1>1, StateFacts, RevisionFacts

(* A step that changes nothing in the folder and tells nobody anything.    *)
LEMMA QuietStep ==
    ASSUME IInv, UNCHANGED <<shown, kept>>
    PROVE  /\ FolderOK' /\ RecordInv' /\ CacheInv'
           /\ told' = told => ConfirmedRevisionStays'
BY DEF IInv, TypeOK, FolderOK, RecordInv, CacheInv, Cached,
       ConfirmedRevisionStays, Now, Content, KeptContent,
       Snapshot, PDF, Marker, Meeting

(* A step that changes the folder in a calm and fitting way.               *)
LEMMA CalmStep ==
    ASSUME IInv, NEW E \in SUBSET Entries, NEW v,
           NEW outcome \in {"failed", "named", "synced"}, Change(E, v, outcome),
           Calm(E, v), Fitting(E, v),
           Meeting \in E => E = {Meeting},
           Meeting \notin E => v \in Contents \union {None}
    PROVE  /\ FolderOK' /\ RecordInv' /\ CacheInv'
           /\ told' = told => ConfirmedRevisionStays'
<1>1. TypeOK /\ RecordInv /\ CacheInv /\ ConfirmedRevisionStays
  BY DEF IInv
<1>2. FolderOK'
  BY <1>1, ChangeFolder DEF Calm
<1>3. RecordInv'
  BY <1>1, CalmRecord
<1>4. CacheInv'
  BY <1>1, CalmCache
<1>5. told' = told => ConfirmedRevisionStays'
  BY <1>1, CalmConfirmed
<1>6. QED
  BY <1>2, <1>3, <1>4, <1>5

(* An operation that ended leaves no obligation behind.                    *)
LEMMA IdleStep ==
    ASSUME pc' \in {"idle", "undo"}
    PROVE  PutInv' /\ ExportInv'
BY DEF PutInv, ExportInv

LEMMA PutKeeps ==
    ASSUME IInv, NEW base \in Revisions, NEW edit \in Edits, Put(base, edit)
    PROVE  IInv'
<1>1. FolderOK' /\ RecordInv' /\ CacheInv' /\ ConfirmedRevisionStays'
  BY QuietStep DEF Put
<1>2. LocalOK'
  BY TypeParts DEF IInv, Put, LocalOK, Places, Contents
<1>3. PutInv'
  BY DEF Put, PutInv, Now, Meeting
<1>4. ExportInv'
  BY DEF Put, ExportInv
<1>5. QED
  BY <1>1, <1>2, <1>3, <1>4, InvParts

LEMMA PutSnapshotKeeps ==
    ASSUME IInv, NEW outcome \in Outcome, PutSnapshot(outcome)
    PROVE  IInv'
<1> DEFINE e == Snapshot(Now.revision + 1)
<1>1. /\ pc = "snapshot" /\ Change({e}, data, outcome) /\ Charge(outcome)
      /\ pc' = IF outcome = "synced" THEN "copy" ELSE "idle"
      /\ data' = data /\ told' = told
  BY DEF PutSnapshot, Write
<1>2. TypeOK /\ data \in Edits /\ Now.revision < MaxRevision
  BY <1>1 DEF IInv, PutInv
<1>3. Now.revision \in Nat /\ Now.revision + 1 \in Revisions
  BY <1>2, NowFacts, RevisionFacts
<1>4. e \in Entries /\ e # Meeting
  BY <1>3, EntryFacts
<1>5. \A r \in Revisions :
         /\ r <= Now.revision => Snapshot(r) # e
         /\ PDF(r) # e /\ Marker(r) # e
  <2>1. \A r \in Revisions : r <= Now.revision => r # Now.revision + 1
    BY <1>3, RevisionFacts
  <2>2. QED
    BY <1>3, <2>1, EntryFacts
<1>6. Calm({e}, data) /\ Fitting({e}, data)
  BY <1>4, <1>5 DEF Calm, Fitting
<1>7. data \in Contents \union {None} /\ outcome \in {"failed", "named", "synced"}
  BY <1>2 DEF Contents, Outcome
<1>8. {e} \in SUBSET Entries /\ Meeting \notin {e}
  BY <1>4
<1>9. FolderOK' /\ RecordInv' /\ CacheInv' /\ ConfirmedRevisionStays'
  BY <1>1, <1>6, <1>7, <1>8, CalmStep
<1>10. LocalOK'
  BY <1>1, <1>2, TypeParts, ChargeType DEF LocalOK, Places
<1>11. PutInv' /\ ExportInv'
  <2>1. CASE outcome = "synced"
    <3>1. Settled' /\ shown'[e] = data
      BY <1>1, <1>2, <1>7, <1>8, <2>1, ChangeEffect
    <3>2. kept'[e] = {data}
      BY <1>4, <3>1 DEF Settled
    <3>3. Now'.revision = Now.revision
      BY <1>1, <1>2, <1>6, <1>7, <1>8, CalmRecord DEF IInv
    <3>4. Snapshot(Now.revision + 1)' = e
      BY <3>3 DEF Snapshot
    <3>5. QED
      BY <1>1, <1>2, <2>1, <3>2, <3>3, <3>4 DEF PutInv, ExportInv
  <2>2. CASE outcome # "synced"
    BY <1>1, <2>2, IdleStep
  <2>3. QED
    BY <2>1, <2>2
<1>12. QED
  BY <1>9, <1>10, <1>11, InvParts

LEMMA PutCopyKeeps ==
    ASSUME IInv, NEW outcome \in Outcome, PutCopy(outcome)
    PROVE  IInv'
<1>1. /\ pc = "copy" /\ Change({}, None, outcome) /\ Charge(outcome)
      /\ outcome # "synced" => pc' = "idle"
      /\ outcome = "synced" => pc' = IF Now.status = "approved" THEN "drop"
                                     ELSE "commit"
      /\ data' = data /\ told' = told
  BY DEF PutCopy
<1>2. /\ TypeOK /\ data \in Edits /\ Now.revision < MaxRevision
      /\ kept[Snapshot(Now.revision + 1)] = {data}
  BY <1>1 DEF IInv, PutInv
<1>3. Calm({}, None) /\ Fitting({}, None)
  BY DEF Calm, Fitting
<1>4. outcome \in {"failed", "named", "synced"} /\ {} \in SUBSET Entries
  BY DEF Outcome
<1>5. FolderOK' /\ RecordInv' /\ CacheInv' /\ ConfirmedRevisionStays'
  BY <1>1, <1>3, <1>4, CalmStep
<1>6. LocalOK'
  BY <1>1, <1>2, TypeParts, ChargeType DEF LocalOK, Places
<1>7. PutInv' /\ ExportInv'
  <2>1. CASE outcome = "synced"
    <3>1. Kept({}, None) /\ Settled'
      BY <1>1, <1>2, <1>4, <2>1, ChangeEffect
    <3>2. Now' = Now
      BY <3>1, EntryFacts DEF Kept, Now, Meeting
    <3>3. Snapshot(Now.revision + 1) \in Entries
      BY <1>2, NowFacts, RevisionFacts, EntryFacts
    <3>4. kept'[Snapshot(Now.revision + 1)] = {data}
      BY <1>2, <3>1, <3>3 DEF Kept, Settled
    <3>5. ASSUME pc' = "commit", NEW r \in Revisions, NEW x \in {PDF(r), Marker(r)}
          PROVE  kept'[x] = {None}
      <4>1. x \in Entries /\ Now.status # "approved" /\ Now \in kept[Meeting]
        BY <1>1, <1>2, <2>1, <3>5, EntryFacts, NowFacts
      <4>2. \A v \in kept[x] : v = None
        BY <4>1 DEF IInv, CacheInv, Cached
      <4>3. QED
        BY <3>1, <4>1, <4>2 DEF Kept, Settled
    <3>6. PutInv'
      BY <1>1, <1>2, <3>2, <3>4, <3>5 DEF PutInv, Snapshot, PDF, Marker
    <3>7. ExportInv'
      BY <1>1, <2>1 DEF ExportInv
    <3>8. QED
      BY <3>6, <3>7
  <2>2. CASE outcome # "synced"
    BY <1>1, <2>2, IdleStep
  <2>3. QED
    BY <2>1, <2>2
<1>8. QED
  BY <1>5, <1>6, <1>7, InvParts

(* delete_pdf_cache of the current revision.                               *)
LEMMA DropStep ==
    ASSUME IInv, NEW outcome \in Outcome \union {"half"}, NEW next,
           DropPDF(Now.revision, outcome, next), UNCHANGED <<data, told>>
    PROVE  /\ FolderOK' /\ RecordInv' /\ CacheInv' /\ ConfirmedRevisionStays'
           /\ next \in Places => LocalOK'
           /\ pc' = IF outcome = "synced" THEN next ELSE "idle"
           /\ Now' = Now
           /\ \A r \in Revisions : \A w \in kept'[Snapshot(r)] : w \in kept[Snapshot(r)]
           /\ outcome = "synced" =>
                 \A r \in Revisions : /\ kept'[PDF(r)] = {None}
                                      /\ kept'[Marker(r)] = {None}
<1> DEFINE r == Now.revision
           E == IF outcome = "half" THEN {PDF(r)} ELSE {PDF(r), Marker(r)}
           how == IF outcome = "half" THEN "named" ELSE outcome
<1>1. /\ Change(E, None, how) /\ Charge(outcome)
      /\ pc' = IF outcome = "synced" THEN next ELSE "idle"
  BY DEF DropPDF
<1>2. how \in {"failed", "named", "synced"}
  BY DEF Outcome
<1>3. TypeOK /\ r \in Revisions /\ Now \in kept[Meeting]
  BY NowFacts DEF IInv
<1>4. E \in SUBSET Entries /\ Meeting \notin E
  BY <1>3, EntryFacts
<1>5. \A q \in Revisions : Snapshot(q) \notin E
  BY <1>3, EntryFacts
<1>6. Calm(E, None) /\ Fitting(E, None)
  BY <1>4, <1>5 DEF Calm, Fitting
<1>7. FolderOK' /\ RecordInv' /\ CacheInv' /\ ConfirmedRevisionStays'
  BY <1>1, <1>2, <1>4, <1>6, CalmStep
<1>8. next \in Places => LocalOK'
  BY <1>1, <1>3, TypeParts, ChargeType DEF LocalOK, Places
<1>9. Kept(E, None)
  BY <1>1, <1>2, <1>3, <1>4, ChangeEffect
<1>10. Now' = Now
  BY <1>4, <1>9, EntryFacts DEF Kept, Now, Meeting
<1>11. \A q \in Revisions : \A w \in kept'[Snapshot(q)] : w \in kept[Snapshot(q)]
  BY <1>5, <1>9, EntryFacts DEF Kept
<1>12. ASSUME outcome = "synced", NEW q \in Revisions, NEW x \in {PDF(q), Marker(q)}
       PROVE  kept'[x] = {None}
  <2>1. Settled' /\ \A y \in E : shown'[y] = None
    BY <1>1, <1>2, <1>3, <1>4, <1>12, ChangeEffect
  <2>2. x \in Entries
    BY EntryFacts
  <2>3. CASE q = r
    BY <1>12, <2>1, <2>2, <2>3 DEF Settled
  <2>4. CASE q # r
    <3>1. x \notin E
      BY <1>3, <2>4, EntryFacts
    <3>2. \A w \in kept[x] : w = None
      BY <1>3, <2>4 DEF IInv, CacheInv, Cached
    <3>3. QED
      BY <1>9, <2>1, <2>2, <3>1, <3>2 DEF Kept, Settled
  <2>5. QED
    BY <2>3, <2>4
<1>13. QED
  BY <1>1, <1>7, <1>8, <1>10, <1>11, <1>12

LEMMA PutDropKeeps ==
    ASSUME IInv, NEW outcome \in Outcome \union {"half"}, PutDrop(outcome)
    PROVE  IInv'
<1>1. /\ pc = "drop" /\ DropPDF(Now.revision, outcome, "commit")
      /\ UNCHANGED <<data, told>>
  BY DEF PutDrop
<1>2. /\ data \in Edits /\ Now.revision < MaxRevision
      /\ kept[Snapshot(Now.revision + 1)] = {data}
  BY <1>1 DEF IInv, PutInv
<1>3. /\ FolderOK' /\ RecordInv' /\ CacheInv' /\ ConfirmedRevisionStays'
      /\ "commit" \in Places => LocalOK'
      /\ pc' = IF outcome = "synced" THEN "commit" ELSE "idle"
      /\ Now' = Now
      /\ \A r \in Revisions : \A w \in kept'[Snapshot(r)] : w \in kept[Snapshot(r)]
      /\ outcome = "synced" =>
            \A r \in Revisions : kept'[PDF(r)] = {None} /\ kept'[Marker(r)] = {None}
  BY <1>1, DropStep
<1>4. LocalOK'
  BY <1>3 DEF Places
<1>5. PutInv' /\ ExportInv'
  <2>1. CASE outcome = "synced"
    <3>1. Now.revision + 1 \in Revisions
      BY <1>2, NowFacts, RevisionFacts DEF IInv
    <3>2. kept'[Snapshot(Now.revision + 1)] = {data}
      <4>1. Snapshot(Now.revision + 1) \in Entries
        BY <3>1, EntryFacts
      <4>2. Snapshot(Now.revision + 1) \in Entries =>
               shown'[Snapshot(Now.revision + 1)] \in kept'[Snapshot(Now.revision + 1)]
        BY <1>3 DEF FolderOK
      <4>3. QED
        BY <1>2, <1>3, <3>1, <4>1, <4>2
    <3>3. PutInv'
      BY <1>1, <1>2, <1>3, <2>1, <3>2 DEF PutInv, Snapshot, PDF, Marker
    <3>4. QED
      BY <1>3, <2>1, <3>3 DEF ExportInv
  <2>2. CASE outcome # "synced"
    BY <1>3, <2>2, IdleStep
  <2>3. QED
    BY <2>1, <2>2
<1>6. QED
  BY <1>3, <1>4, <1>5, InvParts

LEMMA ExportPurgeKeeps ==
    ASSUME IInv, NEW outcome \in Outcome \union {"half"}, ExportPurge(outcome)
    PROVE  IInv'
<1>1. /\ pc = "purge" /\ DropPDF(Now.revision, outcome, "stage")
      /\ UNCHANGED <<data, told>>
  BY DEF ExportPurge
<1>2. Now.status = "approved" /\ Now.revision \in Revisions
  BY <1>1, NowFacts DEF IInv, ExportInv
<1>3. /\ FolderOK' /\ RecordInv' /\ CacheInv' /\ ConfirmedRevisionStays'
      /\ "stage" \in Places => LocalOK'
      /\ pc' = IF outcome = "synced" THEN "stage" ELSE "idle"
      /\ Now' = Now
      /\ outcome = "synced" => \A r \in Revisions : kept'[PDF(r)] = {None}
  BY <1>1, DropStep
<1>4. LocalOK'
  BY <1>3 DEF Places
<1>5. PutInv' /\ ExportInv'
  <2>1. CASE outcome = "synced"
    <3>1. PDF(Now.revision) \in Entries =>
             shown'[PDF(Now.revision)] \in kept'[PDF(Now.revision)]
      BY <1>3 DEF FolderOK
    <3>2. shown'[PDF(Now.revision)] = None
      BY <1>2, <1>3, <2>1, <3>1, EntryFacts
    <3>3. ExportInv'
      BY <1>2, <1>3, <2>1, <3>2 DEF ExportInv, PDF
    <3>4. QED
      BY <1>3, <2>1, <3>3 DEF PutInv
  <2>2. CASE outcome # "synced"
    BY <1>3, <2>2, IdleStep
  <2>3. QED
    BY <2>1, <2>2
<1>6. QED
  BY <1>3, <1>4, <1>5, InvParts

(* Writing the meeting anew, at its revision.                              *)
LEMMA MeetingStep ==
    ASSUME IInv, NEW m \in State, NEW outcome \in Outcome, NEW next, NEW after,
           Write(Meeting, m, outcome, next, after),
           m.revision = Now.revision,
           m.status = "approved" \/ Now.status # "approved"
    PROVE  /\ FolderOK' /\ RecordInv' /\ CacheInv'
           /\ told' = told => ConfirmedRevisionStays'
           /\ faults' \in 0..MaxFaults
           /\ pc' = IF outcome = "synced" THEN next ELSE after
           /\ Now'.revision = Now.revision
           /\ Content(Now.revision)' = Content(Now.revision)
           /\ \A e \in Entries : e # Meeting => shown'[e] = shown[e]
           /\ \A s \in kept'[Meeting] : s \in kept[Meeting] \/ s = m
           /\ outcome = "synced" => Now' = m /\ kept'[Meeting] = {m}
<1>1. /\ Change({Meeting}, m, outcome) /\ Charge(outcome)
      /\ pc' = IF outcome = "synced" THEN next ELSE after
  BY DEF Write
<1>2. TypeOK /\ Meeting \in Entries /\ Now.revision \in Revisions
      /\ Now.revision \in Nat
  BY EntryFacts, NowFacts DEF IInv
<1>3. outcome \in {"failed", "named", "synced"} /\ {Meeting} \in SUBSET Entries
  BY <1>2 DEF Outcome
<1>4. Calm({Meeting}, m) /\ Fitting({Meeting}, m)
  BY EntryFacts DEF Calm, Fitting
<1>5. /\ FolderOK' /\ RecordInv' /\ CacheInv'
      /\ told' = told => ConfirmedRevisionStays'
  BY <1>1, <1>3, <1>4, CalmStep
<1>6. /\ Now'.revision = Now.revision
      /\ Content(Now.revision)' = Content(Now.revision)
  <2>1. /\ Now'.revision = Now.revision
        /\ \A r \in Revisions : r <= Now.revision => Content(r)' = Content(r)
    BY <1>1, <1>2, <1>3, <1>4, CalmRecord DEF IInv
  <2>2. Now.revision <= Now.revision
    BY <1>2
  <2>3. QED
    BY <1>2, <2>1, <2>2
<1>7. Kept({Meeting}, m)
  BY <1>1, <1>2, <1>3, ChangeEffect
<1>8. outcome = "synced" => Settled' /\ shown'[Meeting] = m
  BY <1>1, <1>2, <1>3, ChangeEffect
<1>9. faults' \in 0..MaxFaults
  BY <1>1, <1>2, ChargeType
<1>10. outcome = "synced" => Now' = m /\ kept'[Meeting] = {m}
  <2>1. Meeting' = Meeting
    BY DEF Meeting
  <2>2. QED
    BY <1>2, <1>8, <2>1 DEF Settled, Now
<1>11. /\ \A e \in Entries : e # Meeting => shown'[e] = shown[e]
       /\ \A s \in kept'[Meeting] : s \in kept[Meeting] \/ s = m
  BY <1>2, <1>7 DEF Kept
<1>12. QED
  BY <1>1, <1>5, <1>6, <1>9, <1>10, <1>11

LEMMA StateUpdates ==
    ASSUME NEW s \in State
    PROVE  /\ [s EXCEPT !.status = "approved"] \in State
           /\ [s EXCEPT !.exporting = FALSE] \in State
           /\ s.status = "approved" => [s EXCEPT !.exporting = TRUE] \in State
BY DEF State

LEMMA HousekeepingKeeps ==
    ASSUME IInv, NEW outcome \in Outcome, Housekeeping(outcome)
    PROVE  IInv'
<1>1. /\ Write(Meeting, Now, outcome, "idle", "idle")
      /\ data' = data /\ told' = told
  BY DEF Housekeeping
<1>2. Now \in State /\ TypeOK
  BY NowFacts DEF IInv
<1>3. /\ FolderOK' /\ RecordInv' /\ CacheInv' /\ ConfirmedRevisionStays'
      /\ faults' \in 0..MaxFaults /\ pc' = "idle"
  BY <1>1, <1>2, MeetingStep
<1>4. LocalOK'
  BY <1>1, <1>2, <1>3, TypeParts DEF LocalOK, Places
<1>5. QED
  BY <1>3, <1>4, IdleStep, InvParts

LEMMA ApproveKeeps ==
    ASSUME IInv, NEW outcome \in Outcome, Approve(outcome)
    PROVE  IInv'
<1> DEFINE m == [Now EXCEPT !.status = "approved"]
           r == Now.revision
<1>1. /\ Write(Meeting, m, outcome, "idle", "idle")
      /\ told' = IF outcome = "synced" THEN [told EXCEPT ![r] = Content(r)] ELSE told
      /\ data' = data
      /\ Content(r) \in Reviewed
  BY DEF Approve
<1>2. Now \in State /\ TypeOK /\ r \in Revisions /\ r \in Nat
  BY NowFacts DEF IInv
<1>3. m \in State /\ m.revision = r /\ m.status = "approved"
  BY <1>2, StateUpdates DEF State
<1>4. /\ FolderOK' /\ RecordInv' /\ CacheInv'
      /\ told' = told => ConfirmedRevisionStays'
      /\ faults' \in 0..MaxFaults /\ pc' = "idle"
      /\ Now'.revision = r /\ Content(r)' = Content(r)
      /\ outcome = "synced" => kept'[Meeting] = {m}
  BY <1>1, <1>2, <1>3, MeetingStep
<1>5. Content(r) \in Contents
  BY <1>1, ContentsAssumption DEF Contents
<1>6. LocalOK'
  BY <1>1, <1>2, <1>4, <1>5, TypeParts DEF LocalOK, Places
<1>7. ConfirmedRevisionStays'
  <2>1. CASE outcome = "synced"
    <3> SUFFICES ASSUME NEW q \in Revisions, told'[q] # None
                 PROVE  /\ KeptContent(q)' = {told'[q]}
                        /\ \A s \in kept'[Meeting] : s.revision >= q
      BY DEF ConfirmedRevisionStays, Meeting
    <3>1. told \in [Revisions -> Contents \union {None}]
      BY <1>2 DEF TypeOK
    <3>2. q \in Nat /\ q <= r
      <4>1. CASE q = r
        BY <1>2, <4>1
      <4>2. CASE q # r
        BY <1>1, <1>2, <2>1, <3>1, <4>2, NowFacts, RevisionFacts
           DEF IInv, ConfirmedRevisionStays
      <4>3. QED
        BY <4>1, <4>2
    <3>3. KeptContent(q)' = {Content(q)'}
      BY <1>4, <3>2 DEF RecordInv
    <3>4. Content(q)' = told'[q]
      <4>1. CASE q = r
        BY <1>1, <1>2, <1>4, <2>1, <3>1, <4>1
      <4>2. CASE q # r
        <5>1. told'[q] = told[q]
          BY <1>1, <2>1, <3>1, <4>2
        <5>2. KeptContent(q) = {told[q]} /\ KeptContent(q) = {Content(q)}
          BY <3>2, <5>1 DEF IInv, ConfirmedRevisionStays, RecordInv
        <5>3. {Meeting} \in SUBSET Entries /\ outcome \in {"failed", "named", "synced"}
          BY EntryFacts DEF Outcome
        <5>4. Calm({Meeting}, m) /\ Change({Meeting}, m, outcome)
          BY <1>1, <1>3, EntryFacts DEF Calm, Write
        <5>5. Content(q)' = Content(q)
          BY <1>2, <3>2, <5>3, <5>4, CalmRecord DEF IInv
        <5>6. QED
          BY <5>1, <5>2, <5>5
      <4>3. QED
        BY <4>1, <4>2
    <3>5. QED
      BY <1>2, <1>3, <1>4, <2>1, <3>2, <3>3, <3>4
  <2>2. CASE outcome # "synced"
    BY <1>1, <1>4, <2>2
  <2>3. QED
    BY <2>1, <2>2
<1>8. QED
  BY <1>4, <1>6, <1>7, IdleStep, InvParts

LEMMA ExportStageKeeps ==
    ASSUME IInv, NEW outcome \in Outcome, ExportStage(outcome)
    PROVE  IInv'
<1> DEFINE m == [Now EXCEPT !.exporting = TRUE]
<1>1. /\ pc = "stage" /\ Write(Meeting, m, outcome, "render", "undo")
      /\ data' = data /\ told' = told
  BY DEF ExportStage
<1>2. /\ Now \in State /\ TypeOK /\ Now.revision \in Revisions
      /\ Now.status = "approved" /\ shown[PDF(Now.revision)] = None
  BY <1>1, NowFacts DEF IInv, ExportInv
<1>3. m \in State /\ m.revision = Now.revision /\ m.status = "approved"
  BY <1>2, StateUpdates DEF State
<1>4. /\ FolderOK' /\ RecordInv' /\ CacheInv' /\ ConfirmedRevisionStays'
      /\ faults' \in 0..MaxFaults
      /\ pc' = IF outcome = "synced" THEN "render" ELSE "undo"
      /\ \A e \in Entries : e # Meeting => shown'[e] = shown[e]
      /\ outcome = "synced" => Now' = m /\ kept'[Meeting] = {m}
  BY <1>1, <1>2, <1>3, MeetingStep
<1>5. LocalOK'
  BY <1>1, <1>2, <1>4, TypeParts DEF LocalOK, Places
<1>6. PutInv' /\ ExportInv'
  <2>1. CASE outcome = "synced"
    <3>1. shown'[PDF(Now.revision)] = None
      BY <1>2, <1>4, EntryFacts
    <3>2. PDF(Now'.revision) = PDF(Now.revision) /\ Now'.status = "approved"
      BY <1>3, <1>4, <2>1
    <3>3. pc' = "render" /\ kept'[Meeting] = {Now'}
      BY <1>4, <2>1
    <3>4. QED
      BY <3>1, <3>2, <3>3 DEF PutInv, ExportInv, PDF, Meeting
  <2>2. CASE outcome # "synced"
    BY <1>4, <2>2, IdleStep
  <2>3. QED
    BY <2>1, <2>2
<1>7. QED
  BY <1>4, <1>5, <1>6, InvParts

LEMMA ExportClearKeeps ==
    ASSUME IInv, NEW outcome \in Outcome, ExportClear(outcome)
    PROVE  IInv'
<1> DEFINE m == [Now EXCEPT !.exporting = FALSE]
           next == IF pc = "clear" THEN "send" ELSE "idle"
           r == Now.revision
<1>1. pc \in {"clear", "undo"} /\ data' = data /\ told' = told
  BY DEF ExportClear
<1>2. Now \in State /\ TypeOK /\ r \in Revisions
  BY NowFacts DEF IInv
<1>3. m \in State /\ m.revision = Now.revision /\ m.status = Now.status
  BY <1>2, StateUpdates DEF State
<1>4. pc = "clear" => Cached(r, data)
  BY DEF IInv, ExportInv
<1>5. CASE Now.exporting
  <2>1. Write(Meeting, m, outcome, next, "idle")
    BY <1>5 DEF ExportClear
  <2>2. /\ FolderOK' /\ RecordInv' /\ CacheInv' /\ ConfirmedRevisionStays'
        /\ faults' \in 0..MaxFaults
        /\ pc' = IF outcome = "synced" THEN next ELSE "idle"
        /\ Now'.revision = r /\ Content(r)' = Content(r)
        /\ outcome = "synced" => kept'[Meeting] = {m}
    <3> HIDE DEF m, next
    <3>1. m.status = "approved" \/ Now.status # "approved"
      BY <1>3
    <3>2. QED
      BY <1>1, <1>3, <2>1, <3>1, MeetingStep
  <2>3. LocalOK'
    BY <1>1, <1>2, <2>2, TypeParts DEF LocalOK, Places
  <2>4. CASE pc = "clear" /\ outcome = "synced"
    <3>1. m.status = "approved" /\ m.revision = r /\ data = Content(r)
      BY <1>2, <1>3, <1>4, <2>4, NowFacts DEF Cached
    <3>2. Cached(r, data)'
      BY <1>1, <2>2, <2>4, <3>1 DEF Cached, Meeting
    <3>3. pc' = "send"
      BY <2>2, <2>4
    <3>4. PutInv' /\ ExportInv'
      BY <2>2, <3>2, <3>3 DEF PutInv, ExportInv
    <3>5. QED
      BY <2>2, <2>3, <3>4, InvParts
  <2>5. CASE ~(pc = "clear" /\ outcome = "synced")
    <3>1. pc' = "idle"
      BY <2>2, <2>5
    <3>2. QED
      BY <2>2, <2>3, <3>1, IdleStep, InvParts
  <2>6. QED
    BY <2>4, <2>5
<1>6. CASE ~Now.exporting
  <2>1. UNCHANGED <<shown, kept, faults>> /\ pc' = next
    BY <1>6 DEF ExportClear
  <2>2. FolderOK' /\ RecordInv' /\ CacheInv' /\ ConfirmedRevisionStays'
    BY <1>1, <2>1, QuietStep
  <2>3. LocalOK'
    BY <1>1, <1>2, <2>1, TypeParts DEF LocalOK, Places
  <2>4. CASE pc = "clear"
    <3>1. Cached(r, data)' /\ Now' = Now
      BY <1>1, <1>4, <2>1, <2>4 DEF Cached, Now, Meeting, Content, Snapshot
    <3>2. PutInv' /\ ExportInv'
      BY <2>1, <2>4, <3>1 DEF PutInv, ExportInv
    <3>3. QED
      BY <2>2, <2>3, <3>2, InvParts
  <2>5. CASE pc # "clear"
    BY <2>1, <2>2, <2>3, <2>5, IdleStep, InvParts
  <2>6. QED
    BY <2>4, <2>5
<1>7. QED
  BY <1>5, <1>6

(* The commit: the next revision is the current one, its content is that   *)
(* of the snapshot, and nothing of it is in the cache.                     *)
LEMMA PutCommitKeeps ==
    ASSUME IInv, NEW outcome \in Outcome, PutCommit(outcome)
    PROVE  IInv'
<1> DEFINE r == Now.revision + 1
           m == [revision |-> r, status |-> "review_required", exporting |-> FALSE]
<1>1. /\ pc = "commit" /\ Change({Meeting}, m, outcome) /\ Charge(outcome)
      /\ pc' = "idle" /\ data' = data
      /\ told' = IF outcome = "synced" THEN [told EXCEPT ![r] = data] ELSE told
  BY DEF PutCommit, Write
<1>2. /\ TypeOK /\ RecordInv /\ CacheInv /\ ConfirmedRevisionStays
      /\ data \in Edits /\ Now.revision < MaxRevision
      /\ kept[Snapshot(r)] = {data}
      /\ \A q \in Revisions : kept[PDF(q)] = {None} /\ kept[Marker(q)] = {None}
  BY <1>1 DEF IInv, PutInv
<1>3. /\ Now.revision \in Nat /\ Now.revision \in Revisions /\ r \in Revisions
      /\ Meeting \in Entries
  BY <1>2, NowFacts, RevisionFacts, EntryFacts
<1>4. m \in State
  BY <1>3 DEF State
<1>5. outcome \in {"failed", "named", "synced"} /\ {Meeting} \in SUBSET Entries
  BY <1>3 DEF Outcome
<1>6. FolderOK'
  BY <1>1, <1>2, <1>4, <1>5, ChangeFolder
<1>7. Kept({Meeting}, m)
  BY <1>1, <1>2, <1>5, ChangeEffect
<1>8. \A x \in Entries : x # Meeting =>
         /\ shown'[x] = shown[x]
         /\ \A w \in kept'[x] : w \in kept[x]
         /\ shown'[x] \in kept'[x]
  BY <1>7 DEF Kept
<1>9. \A q \in Revisions : /\ Content(q)' = Content(q)
                           /\ KeptContent(q)' = KeptContent(q) \/ q > r
  <2> SUFFICES ASSUME NEW q \in Revisions
               PROVE  /\ Content(q)' = Content(q)
                      /\ KeptContent(q)' = KeptContent(q) \/ q > r
    OBVIOUS
  <2>1. Snapshot(q) \in Entries /\ Snapshot(q) # Meeting
    BY EntryFacts
  <2>2. Content(q)' = Content(q)
    BY <1>8, <2>1 DEF Content, Snapshot
  <2>3. ASSUME q <= r, q # 0
        PROVE  kept'[Snapshot(q)] = kept[Snapshot(q)]
    <3>1. PICK c : kept[Snapshot(q)] = {c}
      <4>1. CASE q = r
        BY <1>2, <4>1
      <4>2. CASE q # r
        <5>1. q <= Now.revision
          BY <1>3, <2>3, <4>2, RevisionFacts
        <5>2. QED
          BY <1>2, <2>3, <5>1 DEF RecordInv, KeptContent
      <4>3. QED
        BY <4>1, <4>2
    <3>2. QED
      BY <1>8, <2>1, <3>1
  <2>4. q \in Nat /\ r \in Nat
    BY <1>3, RevisionFacts
  <2>5. QED
    BY <2>2, <2>3, <2>4 DEF KeptContent, Snapshot
<1>10. Content(r) = data /\ KeptContent(r) = {data} /\ data # None
  <2>1. Snapshot(r) \in Entries /\ r # 0
    BY <1>3, EntryFacts
  <2>2. shown[Snapshot(r)] \in kept[Snapshot(r)]
    BY <1>2, <2>1 DEF TypeOK
  <2>3. QED
    BY <1>2, <2>1, <2>2, ContentsAssumption DEF Content, KeptContent
<1>11. /\ Now' \in {Now, m}
       /\ \A s \in kept'[Meeting] : s \in kept[Meeting] \/ s = m
       /\ outcome = "failed" => UNCHANGED <<shown, kept>>
       /\ outcome \in {"named", "synced"} => Now' = m
       /\ outcome = "synced" => kept'[Meeting] = {m}
  <2> HIDE DEF m
  <2>1. Now = shown[Meeting] /\ Now' = shown'[Meeting]
    BY DEF Now, Meeting
  <2>2. /\ outcome = "failed" => UNCHANGED <<shown, kept>>
        /\ outcome \in {"named", "synced"} => shown'[Meeting] = m
        /\ outcome = "synced" => kept'[Meeting] = {m}
    BY <1>1, <1>3 DEF Change
  <2>3. \A s \in kept'[Meeting] : s \in kept[Meeting] \/ s = m
    BY <1>3, <1>7 DEF Kept
  <2>4. QED
    BY <1>5, <2>1, <2>2, <2>3
<1>12. RecordInv'
  <2>1. CASE outcome = "failed"
    BY <1>11, <2>1, QuietStep
  <2>2. CASE outcome \in {"named", "synced"}
    <3>1. Now'.revision = r
      BY <1>11, <2>2
    <3>2. \A s \in kept'[Meeting] : s.revision <= r
      <4> SUFFICES ASSUME NEW s \in kept'[Meeting]
                   PROVE  s.revision <= r
        OBVIOUS
      <4>1. CASE s \in kept[Meeting]
        <5>1. s.revision \in Nat
          BY <1>2, <4>1, StateFacts, RevisionFacts DEF TypeOK
        <5>2. QED
          BY <1>2, <1>3, <4>1, <5>1 DEF RecordInv
      <4>2. CASE s = m
        BY <1>3, <4>2
      <4>3. QED
        BY <1>11, <4>1, <4>2
    <3>3. \A q \in Revisions : q <= r =>
             Content(q)' # None /\ KeptContent(q)' = {Content(q)'}
      <4> SUFFICES ASSUME NEW q \in Revisions, q <= r
                   PROVE  Content(q)' # None /\ KeptContent(q)' = {Content(q)'}
        OBVIOUS
      <4>1. (q \in Nat /\ q <= Now.revision) \/ q = r
        BY <1>3, RevisionFacts
      <4>2. KeptContent(q)' = KeptContent(q) /\ Content(q)' = Content(q)
        BY <1>3, <1>9, RevisionFacts
      <4>3. QED
        BY <1>2, <1>10, <4>1, <4>2 DEF RecordInv
    <3>4. QED
      BY <3>1, <3>2, <3>3 DEF RecordInv, Meeting
  <2>3. QED
    BY <1>5, <2>1, <2>2
<1>13. CacheInv'
  <2>1. \A q \in Revisions : PDF(q) \in Entries /\ Marker(q) \in Entries
                             /\ PDF(q) # Meeting /\ Marker(q) # Meeting
    BY EntryFacts
  <2>2. \A q \in Revisions : \A w \in kept'[PDF(q)] \union kept'[Marker(q)] : w = None
    BY <1>2, <1>8, <2>1
  <2>3. QED
    BY <2>2 DEF CacheInv, PDF, Marker
<1>14. LocalOK'
  <2>1. faults' \in 0..MaxFaults
    BY <1>1, <1>2, ChargeType
  <2>2. QED
    BY <1>1, <1>2, <1>3, <2>1, TypeParts DEF LocalOK, Places, Contents
<1>15. ConfirmedRevisionStays'
  <2> SUFFICES ASSUME NEW q \in Revisions, told'[q] # None
               PROVE  /\ KeptContent(q)' = {told'[q]}
                      /\ \A s \in kept'[Meeting] : s.revision >= q
    BY DEF ConfirmedRevisionStays, Meeting
  <2>1. told \in [Revisions -> Contents \union {None}]
    BY <1>2 DEF TypeOK
  <2>2. CASE q = r /\ outcome = "synced"
    BY <1>1, <1>3, <1>9, <1>10, <1>11, <2>1, <2>2, RevisionFacts
  <2>3. CASE ~(q = r /\ outcome = "synced")
    <3>1. told'[q] = told[q]
      BY <1>1, <2>1, <2>3
    <3>2. KeptContent(q) = {told[q]} /\ \A s \in kept[Meeting] : s.revision >= q
      BY <1>2, <3>1 DEF ConfirmedRevisionStays
    <3>3. q \in Nat /\ q <= Now.revision
      BY <1>2, <1>3, <3>2, NowFacts, RevisionFacts
    <3>4. KeptContent(q)' = {told[q]}
      BY <1>3, <1>9, <3>2, <3>3
    <3>5. QED
      BY <1>3, <1>11, <3>1, <3>2, <3>3, <3>4
  <2>4. QED
    BY <2>2, <2>3
<1>16. QED
  BY <1>1, <1>6, <1>12, <1>13, <1>14, <1>15, IdleStep, InvParts

LEMMA ExportKeeps ==
    ASSUME IInv, Export
    PROVE  IInv'
<1> DEFINE r == Now.revision
           cached == shown[PDF(r)]
<1>1. /\ Now.status = "approved" /\ data' = cached
      /\ pc' = IF cached = None THEN "stage"
               ELSE IF shown[Marker(r)] = cached THEN "clear" ELSE "purge"
      /\ UNCHANGED <<shown, kept>> /\ told' = told /\ faults' = faults
  BY DEF Export
<1>2. TypeOK /\ r \in Revisions /\ PDF(r) \in Entries /\ PDF(r) # Meeting
  BY NowFacts, EntryFacts DEF IInv
<1>3. cached \in kept[PDF(r)] /\ cached \in Contents \union {None}
  BY <1>2 DEF TypeOK
<1>4. FolderOK' /\ RecordInv' /\ CacheInv' /\ ConfirmedRevisionStays'
  BY <1>1, QuietStep
<1>5. LocalOK'
  BY <1>1, <1>2, <1>3, TypeParts DEF LocalOK, Places
<1>6. Now' = Now /\ (cached # None => Cached(r, data)')
  <2>1. cached # None => Cached(r, cached)
    BY <1>2, <1>3 DEF IInv, CacheInv
  <2>2. QED
    BY <1>1, <2>1 DEF Cached, Content, Snapshot, Now, Meeting
<1>7. ExportInv'
  BY <1>1, <1>6 DEF ExportInv, PDF
<1>8. PutInv'
  BY <1>1 DEF PutInv
<1>9. QED
  BY <1>4, <1>5, <1>7, <1>8, InvParts

(* While a PDF is rendered and cached the meeting is at one revision, and  *)
(* approved.                                                               *)
LEMMA RenderFacts ==
    ASSUME IInv, pc \in {"render", "marker"}
    PROVE  /\ TypeOK /\ Now.revision \in Revisions
           /\ Content(Now.revision) \in Contents
           /\ Cached(Now.revision, Content(Now.revision))
           /\ shown[PDF(Now.revision)] \in {None, Content(Now.revision)}
           /\ shown[Marker(Now.revision)] \in {None, Content(Now.revision)}
<1> DEFINE r == Now.revision
<1>1. /\ TypeOK /\ r \in Revisions /\ r \in Nat
      /\ kept[Meeting] = {Now} /\ Now.status = "approved"
  BY NowFacts DEF IInv, ExportInv
<1>2. /\ PDF(r) \in Entries /\ Marker(r) \in Entries /\ Snapshot(r) \in Entries
      /\ Snapshot(r) # Meeting
  BY <1>1, EntryFacts
<1>3. Content(r) # None
  BY <1>1 DEF IInv, RecordInv
<1>4. Content(r) \in Contents
  <2>1. Content(r) = Original \/ Content(r) = shown[Snapshot(r)]
    BY DEF Content
  <2>2. shown[Snapshot(r)] \in Contents \union {None}
    BY <1>1, <1>2 DEF TypeOK
  <2>3. QED
    BY <1>3, <2>1, <2>2 DEF Contents
<1>5. Cached(r, Content(r))
  BY <1>1 DEF Cached
<1>6. shown[PDF(r)] \in kept[PDF(r)] /\ shown[Marker(r)] \in kept[Marker(r)]
  BY <1>1, <1>2 DEF TypeOK
<1>7. /\ shown[PDF(r)] \in {None, Content(r)}
      /\ shown[Marker(r)] \in {None, Content(r)}
  BY <1>1, <1>6 DEF IInv, CacheInv, Cached
<1>8. QED
  BY <1>1, <1>4, <1>5, <1>7

(* Writing the content into the cache of the current revision.             *)
LEMMA CacheStep ==
    ASSUME IInv, pc \in {"render", "marker"}, NEW outcome \in Outcome,
           NEW e \in {PDF(Now.revision), Marker(Now.revision)}, NEW next,
           Write(e, Content(Now.revision), outcome, next, "undo"),
           UNCHANGED told
    PROVE  /\ FolderOK' /\ RecordInv' /\ CacheInv' /\ ConfirmedRevisionStays'
           /\ faults' \in 0..MaxFaults
           /\ pc' = IF outcome = "synced" THEN next ELSE "undo"
           /\ Now' = Now
           /\ Content(Now.revision)' = Content(Now.revision)
           /\ kept'[Meeting] \subseteq kept[Meeting]
<1> DEFINE r == Now.revision
           c == Content(r)
<1>1. /\ Change({e}, c, outcome) /\ Charge(outcome)
      /\ pc' = IF outcome = "synced" THEN next ELSE "undo"
  BY DEF Write
<1>2. /\ TypeOK /\ r \in Revisions /\ r \in Nat
      /\ c \in Contents /\ Cached(r, c)
  BY RenderFacts, NowFacts
<1>3. /\ {e} \in SUBSET Entries /\ Meeting \notin {e} /\ Meeting \in Entries
      /\ outcome \in {"failed", "named", "synced"}
      /\ \A q \in Revisions : Snapshot(q) # e
      /\ \A q \in Revisions : PDF(q) = e \/ Marker(q) = e => q = r
  BY <1>2, EntryFacts DEF Outcome
<1>4. Calm({e}, c)
  BY <1>3 DEF Calm
<1>5. Fitting({e}, c)
  BY <1>2, <1>3 DEF Fitting
<1>6. FolderOK' /\ RecordInv' /\ CacheInv' /\ ConfirmedRevisionStays'
  BY <1>1, <1>2, <1>3, <1>4, <1>5, CalmStep
<1>7. Kept({e}, c)
  BY <1>1, <1>2, <1>3, ChangeEffect
<1>8. Now' = Now /\ kept'[Meeting] \subseteq kept[Meeting]
  BY <1>3, <1>7 DEF Kept, Now, Meeting
<1>9. c' = c
  BY <1>1, <1>2, <1>3, <1>4, <1>8, CalmRecord DEF IInv
<1>10. faults' \in 0..MaxFaults
  BY <1>1, <1>2, ChargeType
<1>11. QED
  BY <1>1, <1>6, <1>8, <1>9, <1>10

LEMMA ExportRenderKeeps ==
    ASSUME IInv, NEW outcome \in Outcome, ExportRender(outcome)
    PROVE  IInv'
<1> DEFINE r == Now.revision
           c == Content(r)
<1>1. /\ pc = "render" /\ data' = c /\ told' = told
      /\ WriteOnce(PDF(r), c, outcome, "marker", "undo")
  BY DEF ExportRender
<1>2. /\ TypeOK /\ c \in Contents /\ Cached(r, c)
      /\ shown[PDF(r)] \in {None, c}
      /\ kept[Meeting] = {Now} /\ Now.status = "approved"
  BY <1>1, RenderFacts DEF IInv, ExportInv
<1>3. Write(PDF(r), c, outcome, "marker", "undo")
  BY <1>1, <1>2 DEF WriteOnce
<1>4. /\ FolderOK' /\ RecordInv' /\ CacheInv' /\ ConfirmedRevisionStays'
      /\ faults' \in 0..MaxFaults
      /\ pc' = IF outcome = "synced" THEN "marker" ELSE "undo"
      /\ Now' = Now /\ c' = c
      /\ kept'[Meeting] \subseteq kept[Meeting]
  BY <1>1, <1>3, CacheStep
<1>5. LocalOK'
  BY <1>1, <1>2, <1>4, TypeParts DEF LocalOK, Places
<1>6. PutInv' /\ ExportInv'
  <2>1. CASE outcome = "synced"
    <3>1. Now' \in kept'[Meeting]
      BY <1>4, EntryFacts DEF FolderOK, Now, Meeting
    <3>2. kept'[Meeting] = {Now'}
      BY <1>2, <1>4, <3>1
    <3>3. Cached(r, c)'
      BY <1>2, <1>4, <3>2 DEF Cached, Meeting
    <3>4. data' = Content(Now.revision)'
      BY <1>1, <1>4
    <3>5. Cached(Now.revision, data)'
      BY <1>4, <3>3, <3>4 DEF Cached
    <3>6. QED
      BY <1>2, <1>4, <2>1, <3>2, <3>5 DEF PutInv, ExportInv, Meeting
  <2>2. CASE outcome # "synced"
    BY <1>4, <2>2, IdleStep
  <2>3. QED
    BY <2>1, <2>2
<1>7. QED
  BY <1>4, <1>5, <1>6, InvParts

LEMMA ExportMarkerKeeps ==
    ASSUME IInv, NEW outcome \in Outcome, ExportMarker(outcome)
    PROVE  IInv'
<1> DEFINE r == Now.revision
           c == Content(r)
<1>1. /\ pc = "marker" /\ data' = data /\ told' = told
      /\ WriteOnce(Marker(r), data, outcome, "clear", "undo")
  BY DEF ExportMarker
<1>2. /\ TypeOK /\ c \in Contents /\ Cached(r, c) /\ data = c
      /\ shown[Marker(r)] \in {None, c}
  BY <1>1, RenderFacts DEF IInv, ExportInv, Cached
<1>3. Write(Marker(r), c, outcome, "clear", "undo")
  BY <1>1, <1>2 DEF WriteOnce
<1>4. /\ FolderOK' /\ RecordInv' /\ CacheInv' /\ ConfirmedRevisionStays'
      /\ faults' \in 0..MaxFaults
      /\ pc' = IF outcome = "synced" THEN "clear" ELSE "undo"
      /\ Now' = Now /\ c' = c
      /\ kept'[Meeting] \subseteq kept[Meeting]
  BY <1>1, <1>3, CacheStep
<1>5. LocalOK'
  BY <1>1, <1>2, <1>4, TypeParts DEF LocalOK, Places
<1>6. PutInv' /\ ExportInv'
  <2>1. CASE outcome = "synced"
    <3>1. Cached(Now.revision, data)'
      BY <1>1, <1>2, <1>4 DEF Cached, Meeting
    <3>2. QED
      BY <1>4, <2>1, <3>1 DEF PutInv, ExportInv
  <2>2. CASE outcome # "synced"
    BY <1>4, <2>2, IdleStep
  <2>3. QED
    BY <2>1, <2>2
<1>7. QED
  BY <1>4, <1>5, <1>6, InvParts

LEMMA RenderFailsKeeps ==
    ASSUME IInv, RenderFails
    PROVE  IInv'
<1>1. /\ pc' = "undo" /\ UNCHANGED <<shown, kept>> /\ data' = data /\ told' = told
      /\ faults' = faults \/ Charge("failed")
  BY DEF RenderFails
<1>2. FolderOK' /\ RecordInv' /\ CacheInv' /\ ConfirmedRevisionStays'
  BY <1>1, QuietStep
<1>3. LocalOK'
  BY <1>1, TypeParts, ChargeType DEF IInv, LocalOK, Places
<1>4. QED
  BY <1>1, <1>2, <1>3, IdleStep, InvParts

LEMMA CrashKeeps ==
    ASSUME IInv, Crash
    PROVE  IInv'
<1>1. /\ pc' = "idle" /\ UNCHANGED <<shown, kept>> /\ data' = data /\ told' = told
      /\ Charge("failed")
  BY DEF Crash
<1>2. FolderOK' /\ RecordInv' /\ CacheInv' /\ ConfirmedRevisionStays'
  BY <1>1, QuietStep
<1>3. LocalOK'
  BY <1>1, TypeParts, ChargeType DEF IInv, LocalOK, Places
<1>4. QED
  BY <1>1, <1>2, <1>3, IdleStep, InvParts

LEMMA ExportSendKeeps ==
    ASSUME IInv, ExportSend
    PROVE  IInv'
<1> DEFINE r == Now.revision
<1>1. /\ pc = "send" /\ pc' = "idle" /\ UNCHANGED <<shown, kept>>
      /\ data' = data /\ told' = [told EXCEPT ![r] = data] /\ faults' = faults
  BY DEF ExportSend
<1>2. /\ TypeOK /\ Cached(r, data) /\ r \in Revisions /\ r \in Nat
  BY <1>1, NowFacts DEF IInv, ExportInv
<1>3. FolderOK' /\ RecordInv' /\ CacheInv'
  BY <1>1, QuietStep
<1>4. LocalOK'
  BY <1>1, <1>2, TypeParts DEF LocalOK, Places
<1>5. ConfirmedRevisionStays'
  <2> SUFFICES ASSUME NEW q \in Revisions, told'[q] # None
               PROVE  /\ KeptContent(q) = {told'[q]}
                      /\ \A s \in kept[Meeting] : s.revision >= q
    BY <1>1 DEF ConfirmedRevisionStays, KeptContent, Meeting, Snapshot
  <2>1. told \in [Revisions -> Contents \union {None}]
    BY <1>2 DEF TypeOK
  <2>2. CASE q = r
    <3>1. told'[q] = Content(q)
      BY <1>1, <1>2, <2>1, <2>2 DEF Cached
    <3>2. KeptContent(q) = {Content(q)}
      BY <1>2, <2>2 DEF IInv, RecordInv
    <3>3. QED
      BY <1>2, <2>2, <3>1, <3>2 DEF Cached
  <2>3. CASE q # r
    BY <1>1, <2>1, <2>3 DEF IInv, ConfirmedRevisionStays
  <2>4. QED
    BY <2>2, <2>3
<1>6. QED
  BY <1>1, <1>3, <1>4, <1>5, IdleStep, InvParts

(* After a power loss the folder shows something that was kept.            *)
LEMMA PowerLossKeeps ==
    ASSUME IInv, PowerLoss
    PROVE  IInv'
<1>1. /\ pc' = "idle" /\ data' = data /\ told' = told /\ Charge("failed")
      /\ kept' = [e \in Entries |-> {shown'[e]}]
  BY DEF PowerLoss
<1>2. TypeOK /\ RecordInv /\ CacheInv /\ ConfirmedRevisionStays
  BY DEF IInv
<1>3. /\ DOMAIN shown' = Entries
      /\ shown' = [e \in Entries |-> shown'[e]]
      /\ \A e \in Entries : shown'[e] \in kept[e]
  <2> DEFINE unsynced == { e \in Entries : kept[e] # {shown[e]} }
  <2>1. PICK left \in [unsynced -> UNION { kept[e] : e \in unsynced }] :
           /\ \A e \in unsynced : left[e] \in kept[e]
           /\ shown' = [e \in Entries |-> IF e \in unsynced THEN left[e]
                                          ELSE shown[e]]
    BY DEF PowerLoss
  <2>2. QED
    BY <1>2, <2>1 DEF TypeOK
<1>4. \A e \in Entries : kept'[e] = {shown'[e]}
  BY <1>1
<1>5. FolderOK'
  <2>1. /\ shown'[Meeting] \in State
        /\ \A e \in Entries : e # Meeting => shown'[e] \in Contents \union {None}
    BY <1>2, <1>3, EntryFacts DEF TypeOK
  <2>2. shown' \in [Entries -> State \union Contents \union {None}]
    BY <1>3, <2>1
  <2>3. QED
    BY <1>4, <2>1, <2>2, EntryFacts DEF FolderOK, Meeting
<1>6. /\ Now' \in kept[Meeting] /\ kept'[Meeting] = {Now'} /\ Now' \in State
      /\ Now'.revision <= Now.revision /\ Now'.revision \in Nat
  <2>1. Now' \in kept[Meeting] /\ kept'[Meeting] = {Now'}
    BY <1>3, <1>4, EntryFacts DEF Now, Meeting
  <2>2. QED
    BY <1>2, <2>1, StateFacts, RevisionFacts DEF TypeOK, RecordInv
<1>7. ASSUME NEW r \in Revisions, r <= Now.revision
      PROVE  Content(r)' = Content(r) /\ KeptContent(r)' = {Content(r)}
  <2>1. Snapshot(r) \in Entries
    BY EntryFacts
  <2>2. CASE r = 0
    BY <2>2 DEF Content, KeptContent
  <2>3. CASE r # 0
    BY <1>2, <1>3, <1>4, <1>7, <2>1, <2>3
       DEF RecordInv, Content, KeptContent, Snapshot
  <2>4. QED
    BY <2>2, <2>3
<1>8. \A r \in Revisions : r <= Now'.revision => r <= Now.revision
  BY <1>2, <1>6, NowFacts, RevisionFacts
<1>9. RecordInv'
  <2>1. \A s \in kept'[Meeting] : s.revision <= Now'.revision
    BY <1>6
  <2>2. QED
    BY <1>2, <1>7, <1>8, <2>1 DEF RecordInv, Meeting
<1>10. CacheInv'
  <2> SUFFICES ASSUME NEW r \in Revisions,
                      NEW v \in kept'[PDF(r)] \union kept'[Marker(r)], v # None
               PROVE  Cached(r, v)'
    BY DEF CacheInv, PDF, Marker
  <2>1. PDF(r) \in Entries /\ Marker(r) \in Entries
    BY EntryFacts
  <2>2. v \in kept[PDF(r)] \union kept[Marker(r)]
    BY <1>3, <1>4, <2>1
  <2>3. Cached(r, v)
    BY <1>2, <2>2 DEF CacheInv
  <2>4. r = Now'.revision /\ Now'.status = "approved"
    BY <1>6, <2>3 DEF Cached
  <2>5. Content(r)' = Content(r)
    BY <1>6, <1>7, <2>4
  <2>6. QED
    BY <1>6, <2>3, <2>4, <2>5 DEF Cached, Meeting
<1>11. ConfirmedRevisionStays'
  <2> SUFFICES ASSUME NEW r \in Revisions, told[r] # None
               PROVE  /\ KeptContent(r)' = {told[r]}
                      /\ \A s \in kept'[Meeting] : s.revision >= r
    BY <1>1 DEF ConfirmedRevisionStays, Meeting
  <2>1. KeptContent(r) = {told[r]} /\ Now'.revision >= r
    BY <1>2, <1>6 DEF ConfirmedRevisionStays
  <2>2. r <= Now.revision
    BY <1>2, NowFacts DEF ConfirmedRevisionStays
  <2>3. KeptContent(r) = {Content(r)} /\ KeptContent(r)' = {Content(r)}
    BY <1>2, <1>7, <2>2 DEF RecordInv
  <2>4. QED
    BY <1>6, <2>1, <2>3
<1>12. LocalOK'
  BY <1>1, <1>2, TypeParts, ChargeType DEF LocalOK, Places
<1>13. QED
  BY <1>1, <1>5, <1>9, <1>10, <1>11, <1>12, IdleStep, InvParts

-----------------------------------------------------------------------------
(* Theorems *)

(* A meeting that was just published: revision 0, nothing exported.        *)
LEMMA InitInv == Init => IInv
<1> SUFFICES ASSUME Init PROVE IInv
  OBVIOUS
<1>1. /\ Meeting \in Entries /\ 0 \in Revisions
      /\ \A r \in Revisions :
            /\ PDF(r) \in Entries /\ Marker(r) \in Entries
            /\ Snapshot(r) \in Entries /\ Snapshot(r) # Meeting
            /\ PDF(r) # Meeting /\ Marker(r) # Meeting
  BY EntryFacts, RevisionFacts
<1>2. Now = [revision |-> 0, exporting |-> FALSE, status |-> "review_required"]
  BY <1>1 DEF Init, Now
<1>3. /\ Now \in State /\ kept[Meeting] = {Now} /\ Now.revision = 0
      /\ Now.revision \in Nat
  BY <1>1, <1>2 DEF Init, State, Now
<1>4. \A e \in Entries : /\ kept[e] = {shown[e]}
                         /\ e # Meeting => shown[e] = None
  BY DEF Init
<1>5. TypeOK
  <2>1. FolderOK
    BY <1>1, <1>2, <1>3, <1>4 DEF Init, FolderOK, Now
  <2>2. LocalOK
    BY <1>1, BoundsAssumption DEF Init, LocalOK, Places, Contents
  <2>3. QED
    BY <2>1, <2>2, TypeParts
<1>6. \A r \in Revisions : r <= 0 => r = 0
  BY RevisionFacts
<1>7. RecordInv
  BY <1>3, <1>6, ContentsAssumption DEF RecordInv, Content, KeptContent
<1>8. CacheInv
  BY <1>1, <1>4 DEF CacheInv
<1>9. pc = "idle" /\ \A r \in Revisions : told[r] = IF r = 0 THEN Original ELSE None
  BY DEF Init
<1>10. PutInv /\ ExportInv
  BY <1>9 DEF PutInv, ExportInv
<1>11. ConfirmedRevisionStays
  BY <1>3, <1>9 DEF ConfirmedRevisionStays, KeptContent
<1>12. QED
  BY <1>5, <1>7, <1>8, <1>10, <1>11 DEF IInv

LEMMA StutterKeeps ==
    ASSUME IInv, UNCHANGED vars
    PROVE  IInv'
<1>1. FolderOK' /\ RecordInv' /\ CacheInv' /\ ConfirmedRevisionStays'
  BY QuietStep DEF vars
<1>2. LocalOK'
  BY TypeParts DEF IInv, LocalOK, vars
<1>3. PutInv'
  BY DEF IInv, PutInv, vars, Now, Meeting, Snapshot, PDF, Marker
<1>4. ExportInv'
  BY DEF IInv, ExportInv, Cached, Content, vars, Now, Meeting, Snapshot, PDF, Marker
<1>5. QED
  BY <1>1, <1>2, <1>3, <1>4, InvParts

(* Every operation, at each of its writes and with each outcome of it.     *)
LEMMA NextKeeps == IInv /\ [Next]_vars => IInv'
<1> SUFFICES ASSUME IInv, [Next]_vars PROVE IInv'
  OBVIOUS
<1>1. CASE UNCHANGED vars
  BY <1>1, StutterKeeps
<1>2. CASE Export
  BY <1>2, ExportKeeps
<1>3. CASE RenderFails
  BY <1>3, RenderFailsKeeps
<1>4. CASE ExportSend
  BY <1>4, ExportSendKeeps
<1>5. CASE Crash
  BY <1>5, CrashKeeps
<1>6. CASE PowerLoss
  BY <1>6, PowerLossKeeps
<1>7. ASSUME NEW base \in Revisions, NEW edit \in Edits, Put(base, edit)
      PROVE  IInv'
  BY <1>7, PutKeeps
<1>8. ASSUME NEW outcome \in Outcome
      PROVE  /\ PutSnapshot(outcome) => IInv'
             /\ PutCopy(outcome) => IInv'
             /\ PutCommit(outcome) => IInv'
             /\ Approve(outcome) => IInv'
             /\ ExportStage(outcome) => IInv'
             /\ ExportRender(outcome) => IInv'
             /\ ExportMarker(outcome) => IInv'
             /\ ExportClear(outcome) => IInv'
             /\ Housekeeping(outcome) => IInv'
  BY PutSnapshotKeeps, PutCopyKeeps, PutCommitKeeps, ApproveKeeps,
     ExportStageKeeps, ExportRenderKeeps, ExportMarkerKeeps,
     ExportClearKeeps, HousekeepingKeeps
<1>9. ASSUME NEW outcome \in Outcome \union {"half"}
      PROVE  (PutDrop(outcome) => IInv') /\ (ExportPurge(outcome) => IInv')
  BY PutDropKeeps, ExportPurgeKeeps
<1>10. QED
  BY <1>1, <1>2, <1>3, <1>4, <1>5, <1>6, <1>7, <1>8, <1>9 DEF Next

(* The inductive invariant holds in every reachable state.                 *)
THEOREM Invariance == Spec => []IInv
  BY InitInv, NextKeeps, PTL DEF Spec

(* The folder holds what the code expects to read back in every file, and  *)
(* a visible value of a file is always one that may come back.             *)
THEOREM Typing == Spec => []TypeOK
<1>1. IInv => TypeOK
  BY DEF IInv
<1>2. QED
  BY <1>1, Invariance, PTL

(* put_review writes the snapshot of a revision durably before             *)
(* meeting.json names it: after any failure, crash or power loss the       *)
(* current revision can be read, and a meeting.json that comes back with   *)
(* its number comes back to the content that was read.                     *)
THEOREM ReviewIsThere == Spec => []CommittedReviewIsThere
<1>1. IInv => CommittedReviewIsThere
  <2> SUFFICES ASSUME IInv, NEW s \in kept[Meeting]
               PROVE  /\ None \notin KeptContent(s.revision)
                      /\ KeptContent(s.revision) = {Content(s.revision)}
    BY DEF CommittedReviewIsThere
  <2>1. s \in State /\ s.revision <= Now.revision
    BY DEF IInv, TypeOK, RecordInv
  <2>2. s.revision \in Revisions
    BY <2>1 DEF State
  <2>3. QED
    BY <2>1, <2>2 DEF IInv, RecordInv
<1>2. QED
  BY <1>1, Invariance, PTL

(* No revision that a client was told of, by the answer of put_review or   *)
(* approve or by an exported PDF, is lost, overwritten or fallen behind.   *)
THEOREM ConfirmedStays == Spec => []ConfirmedRevisionStays
<1>1. IInv => ConfirmedRevisionStays
  BY DEF IInv
<1>2. QED
  BY <1>1, Invariance, PTL

(* export_pdf sends a PDF, from its cache or newly rendered, only of the   *)
(* approved revision, and no power loss takes that approval back while the *)
(* bytes leave.                                                            *)
THEOREM ExportIsApproved == Spec => []ExportShowsApproved
<1>1. IInv => ExportShowsApproved
  <2> SUFFICES ASSUME IInv, pc = "send", NEW s \in kept[Meeting]
               PROVE  s.status = "approved" /\ KeptContent(s.revision) = {data}
    BY DEF ExportShowsApproved
  <2>1. Cached(Now.revision, data)
    BY DEF IInv, ExportInv
  <2>2. Now.revision \in Revisions /\ Now.revision \in Nat
    BY NowFacts DEF IInv
  <2>3. KeptContent(Now.revision) = {data}
    BY <2>1, <2>2 DEF IInv, RecordInv, Cached
  <2>4. QED
    BY <2>1, <2>3 DEF Cached
<1>2. QED
  BY <1>1, Invariance, PTL

(* delete_pdf_cache and the order of PDF and marker leave nothing under    *)
(* the write-once names of the cache that would refuse a repeated export.  *)
THEOREM ExportRepeats == Spec => []ExportCanBeRepeated
<1>1. IInv => ExportCanBeRepeated
  <2> SUFFICES ASSUME IInv PROVE ExportCanBeRepeated
    OBVIOUS
  <2>1. pc = "render" => shown[PDF(Now.revision)] = None
    BY DEF IInv, ExportInv
  <2>2. ASSUME pc = "marker"
        PROVE  shown[Marker(Now.revision)] \in {None, data}
    <3>1. Now.revision \in Revisions /\ Cached(Now.revision, data)
      BY <2>2, NowFacts DEF IInv, ExportInv
    <3>2. shown[Marker(Now.revision)] \in kept[Marker(Now.revision)]
      BY <3>1, EntryFacts DEF IInv, TypeOK
    <3>3. QED
      BY <3>1, <3>2 DEF IInv, CacheInv, Cached
  <2>3. QED
    BY <2>1, <2>2 DEF ExportCanBeRepeated
<1>2. QED
  BY <1>1, Invariance, PTL

-----------------------------------------------------------------------------
(* The refinement: every step is one change of the document, or none *)

(* Where a change leaves meeting.json, now and after a power loss.         *)
LEMMA ChangeOfMeeting ==
    ASSUME TypeOK, NEW E \in SUBSET Entries, NEW v,
           NEW outcome \in {"failed", "named", "synced"}, Change(E, v, outcome)
    PROVE  /\ outcome = "failed" => Now' = Now /\ kept'[Meeting] = kept[Meeting]
           /\ outcome = "named" => kept'[Meeting] = kept[Meeting] \union {Now'}
           /\ outcome = "synced" => kept'[Meeting] = {Now'}
           /\ outcome # "failed" => Now' = IF Meeting \in E THEN v ELSE Now
<1>1. Meeting \in Entries /\ Now = shown[Meeting] /\ Now' = shown'[Meeting]
  BY EntryFacts DEF Now, Meeting
<1>2. CASE outcome = "failed"
  <2>1. shown' = shown /\ kept' = kept
    BY <1>2 DEF Change
  <2> QED
    BY <1>1, <1>2, <2>1
<1>3. CASE outcome = "named"
  <2>1. /\ shown' = [e \in Entries |-> IF e \in E THEN v ELSE shown[e]]
        /\ kept' = [e \in Entries |-> kept[e] \union {shown'[e]}]
    BY <1>3 DEF Change
  <2> QED
    BY <1>1, <1>3, <2>1
<1>4. CASE outcome = "synced"
  <2>1. /\ shown' = [e \in Entries |-> IF e \in E THEN v ELSE shown[e]]
        /\ kept' = [e \in Entries |-> {shown'[e]}]
    BY <1>4 DEF Change
  <2> QED
    BY <1>1, <1>4, <2>1
<1> QED
  BY <1>2, <1>3, <1>4

LEMMA SameMinutes ==
    ASSUME IInv, Now'.revision = Now.revision,
           \A r \in Revisions : r <= Now.revision => Content(r)' = Content(r)
    PROVE  Minutes' = Minutes
<1>1. \A r \in 0..Now.revision : r \in Revisions /\ r <= Now.revision
  BY NowFacts, BoundsAssumption DEF IInv, Revisions
<1>2. Minutes = [r \in 0..Now.revision |-> Content(r)]
  BY DEF Minutes
<1>3. Minutes' = [r \in 0..Now.revision |-> Content(r)']
  BY DEF Minutes
<1> QED
  BY <1>1, <1>2, <1>3

(* A write that concerns neither the revision nor its status is not seen,  *)
(* but its fsync settles what came before.                                 *)
LEMMA SettlingStep ==
    ASSUME IInv, NEW E \in SUBSET Entries, NEW v,
           NEW outcome \in {"failed", "named", "synced"}, Change(E, v, outcome),
           Calm(E, v), Meeting \in E => Stage(v) = Stage(Now), UNCHANGED told
    PROVE  Contract!Next \/ UNCHANGED Contract!vars
<1>1. TypeOK /\ RecordInv /\ Now \in kept[Meeting]
  BY NowFacts DEF IInv
<1>2. Minutes' = Minutes
  BY <1>1, CalmRecord, SameMinutes
<1>3. /\ outcome = "failed" => Now' = Now /\ kept'[Meeting] = kept[Meeting]
      /\ outcome = "named" => kept'[Meeting] = kept[Meeting] \union {Now'}
      /\ outcome = "synced" => kept'[Meeting] = {Now'}
      /\ outcome # "failed" => Now' = IF Meeting \in E THEN v ELSE Now
  BY <1>1, ChangeOfMeeting
<1>4. Stage(Now') = Stage(Now)
  BY <1>3
<1>5. ShownState' = ShownState
  <2>1. ShownState' = Stage(Now')
    BY DEF ShownState, Stage
  <2> QED
    BY <1>4, <2>1 DEF ShownState
<1>6. PossibleStates' = { Stage(s) : s \in kept'[Meeting] }
  BY DEF PossibleStates, Stage, Meeting
<1>7. CASE outcome = "synced"
  <2>1. PossibleStates' = {ShownState}
    BY <1>3, <1>4, <1>6, <1>7 DEF ShownState
  <2>2. Contract!Settle
    BY <1>2, <1>5, <2>1 DEF Contract!Settle
  <2> QED
    BY <2>2 DEF Contract!Next
<1>8. CASE outcome # "synced"
  <2>1. PossibleStates' = PossibleStates
    BY <1>1, <1>3, <1>4, <1>6, <1>8 DEF PossibleStates
  <2> QED
    BY <1>2, <1>5, <2>1 DEF Contract!vars
<1> QED
  BY <1>7, <1>8

LEMMA UnseenStep ==
    ASSUME UNCHANGED <<shown, kept, told>>
    PROVE  UNCHANGED Contract!vars
BY DEF Contract!vars, ShownState, PossibleStates, Minutes, Stage, Now,
       Content, Snapshot, Meeting

(* One entry that is neither meeting.json nor a committed snapshot.        *)
LEMMA OtherEntryStep ==
    ASSUME IInv, NEW e \in Entries, e # Meeting,
           \A r \in Revisions : r <= Now.revision => Snapshot(r) # e,
           NEW v, NEW outcome \in Outcome, NEW next, NEW after,
           Write(e, v, outcome, next, after), UNCHANGED told
    PROVE  Contract!Next \/ UNCHANGED Contract!vars
<1>1. Change({e}, v, outcome) /\ outcome \in {"failed", "named", "synced"}
  BY DEF Write, Outcome
<1>2. Calm({e}, v) /\ {e} \in SUBSET Entries /\ Meeting \notin {e}
  BY DEF Calm
<1> QED
  BY <1>1, <1>2, SettlingStep

LEMMA CacheEntryStep ==
    ASSUME IInv, NEW e \in Entries, NEW r \in Revisions, e = PDF(r) \/ e = Marker(r),
           NEW v, NEW outcome \in Outcome, NEW next, NEW after,
           WriteOnce(e, v, outcome, next, after), UNCHANGED told
    PROVE  Contract!Next \/ UNCHANGED Contract!vars
<1>1. e # Meeting /\ \A q \in Revisions : Snapshot(q) # e
  BY EntryFacts
<1>2. CASE Write(e, v, outcome, next, after)
  BY <1>1, <1>2, OtherEntryStep
<1>3. CASE UNCHANGED <<shown, kept>>
  BY <1>3, UnseenStep
<1> QED
  BY <1>2, <1>3 DEF WriteOnce

LEMMA DropIsUnseen ==
    ASSUME IInv, NEW outcome \in Outcome \union {"half"}, NEW next,
           DropPDF(Now.revision, outcome, next), UNCHANGED told
    PROVE  Contract!Next \/ UNCHANGED Contract!vars
<1>1. PICK E, how : /\ Change(E, None, how) /\ how \in {"failed", "named", "synced"}
                    /\ E \subseteq {PDF(Now.revision), Marker(Now.revision)}
  <2>1. CASE outcome = "half"
    BY <2>1 DEF DropPDF
  <2>2. CASE outcome # "half"
    BY <2>2 DEF DropPDF, Outcome
  <2> QED
    BY <2>1, <2>2
<1>2. Now.revision \in Revisions
  BY NowFacts DEF IInv
<1>3. E \in SUBSET Entries /\ Meeting \notin E
  BY <1>1, <1>2, EntryFacts
<1>4. \A q \in Revisions : Snapshot(q) \notin E
  BY <1>1, <1>2, EntryFacts
<1>5. Calm(E, None)
  BY <1>3, <1>4 DEF Calm
<1> QED
  BY <1>1, <1>3, <1>5, SettlingStep

LEMMA SameStageStep ==
    ASSUME IInv, NEW v \in State, Stage(v) = Stage(Now),
           NEW outcome \in Outcome, NEW next, NEW after,
           Write(Meeting, v, outcome, next, after), UNCHANGED told
    PROVE  Contract!Next \/ UNCHANGED Contract!vars
<1>1. Change({Meeting}, v, outcome) /\ outcome \in {"failed", "named", "synced"}
  BY DEF Write, Outcome
<1>2. v.revision = Now.revision
  BY DEF Stage
<1>3. Calm({Meeting}, v) /\ {Meeting} \in SUBSET Entries
  BY <1>2, EntryFacts DEF Calm
<1> QED
  BY <1>1, <1>3, SettlingStep

(* The two writes that clients see.                                        *)
LEMMA PutCommitSaves ==
    ASSUME IInv, NEW outcome \in Outcome, PutCommit(outcome)
    PROVE  Contract!Next \/ UNCHANGED Contract!vars
<1>1. PICK r, m : r = Now.revision + 1
          /\ m = [revision |-> r, status |-> "review_required", exporting |-> FALSE]
  OBVIOUS
<1>2. /\ pc = "commit" /\ Change({Meeting}, m, outcome)
      /\ told' = IF outcome = "synced" THEN [told EXCEPT ![r] = data] ELSE told
  BY <1>1 DEF PutCommit, Write
<1>3. /\ TypeOK /\ data \in Edits /\ Now.revision < MaxRevision
      /\ kept[Snapshot(r)] = {data}
  BY <1>1, <1>2 DEF IInv, PutInv
<1>4. /\ Now.revision \in Nat /\ r \in Revisions /\ r # 0 /\ r <= MaxRevision
      /\ Now \in kept[Meeting]
  BY <1>1, <1>3, NowFacts, RevisionFacts, BoundsAssumption
<1>5. {Meeting} \in SUBSET Entries /\ outcome \in {"failed", "named", "synced"}
  BY EntryFacts DEF Outcome
<1>6. CASE outcome = "failed"
  <2>1. UNCHANGED <<shown, kept, told>>
    BY <1>2, <1>6 DEF Change
  <2> QED
    BY <2>1, UnseenStep
<1>7. CASE outcome # "failed"
  <2>1. /\ Now' = m
        /\ outcome = "synced" => kept'[Meeting] = {m}
        /\ outcome # "synced" => kept'[Meeting] = kept[Meeting] \union {m}
    BY <1>2, <1>3, <1>5, <1>7, ChangeOfMeeting
  <2>2. \A q \in Revisions : Content(q)' = Content(q)
    <3>1. Kept({Meeting}, m)
      BY <1>2, <1>3, <1>5, ChangeEffect
    <3>2. \A q \in Revisions : shown'[Snapshot(q)] = shown[Snapshot(q)]
      BY <3>1, EntryFacts DEF Kept
    <3>3. \A q : Snapshot(q)' = Snapshot(q)
      BY DEF Snapshot
    <3> QED
      BY <3>2, <3>3 DEF Content
  <2>3. Content(r) = data
    <3>1. shown[Snapshot(r)] \in kept[Snapshot(r)]
      BY <1>3, <1>4, EntryFacts DEF TypeOK
    <3> QED
      BY <1>3, <1>4, <3>1 DEF Content
  <2>4. Minutes' = [q \in 0..r |-> IF q = r THEN data ELSE Minutes[q]]
    <3>1. Minutes' = [q \in 0..Now'.revision |-> Content(q)']
      BY DEF Minutes
    <3>2. Now'.revision = r
      BY <1>1, <2>1
    <3>3. \A q \in 0..r : q \in Revisions
      BY <1>4, BoundsAssumption DEF Revisions
    <3>4. \A q \in 0..r : q # r => Minutes[q] = Content(q)
      BY <1>1, <1>4 DEF Minutes
    <3> QED
      BY <2>2, <2>3, <3>1, <3>2, <3>3, <3>4
  <2>5. PICK s : s = [revision |-> r, status |-> "review_required"]
    OBVIOUS
  <2>6. s = Stage(m) /\ s.revision = r
    BY <1>1, <2>5 DEF Stage
  <2>7. ShownState' = s
    <3>1. ShownState' = Stage(Now')
      BY DEF ShownState, Stage
    <3> QED
      BY <2>1, <2>6, <3>1
  <2>8. PossibleStates' = { Stage(x) : x \in kept'[Meeting] }
    BY DEF PossibleStates, Stage, Meeting
  <2>9. Minutes'[r] = data
    <3>1. r \in 0..r
      BY <1>1, <1>4
    <3> QED
      BY <2>4, <3>1
  <2>10. Contract!Become(s)
    <3>1. CASE outcome = "synced"
      <4>1. PossibleStates' = {s}
        BY <2>1, <2>6, <2>8, <3>1
      <4>2. told' = [told EXCEPT ![s.revision] = Minutes'[s.revision]]
        BY <1>2, <2>6, <2>9, <3>1
      <4> QED
        BY <2>7, <4>1, <4>2 DEF Contract!Become
    <3>2. CASE outcome # "synced"
      <4>1. PossibleStates' = PossibleStates \union {s}
        BY <2>1, <2>6, <2>8, <3>2 DEF PossibleStates
      <4>2. told' = told
        BY <1>2, <3>2
      <4> QED
        BY <2>7, <4>1, <4>2 DEF Contract!Become
    <3> QED
      BY <3>1, <3>2
  <2>11. ShownState.revision + 1 = r
    BY <1>1 DEF ShownState, Stage
  <2>12. Contract!Save(data)
    BY <1>4, <2>4, <2>5, <2>10, <2>11 DEF Contract!Save
  <2> QED
    BY <1>3, <2>12 DEF Contract!Next
<1> QED
  BY <1>6, <1>7

LEMMA ApproveApproves ==
    ASSUME IInv, NEW outcome \in Outcome, Approve(outcome)
    PROVE  Contract!Next \/ UNCHANGED Contract!vars
<1>1. PICK r, m : r = Now.revision /\ m = [Now EXCEPT !.status = "approved"]
  OBVIOUS
<1>2. /\ Change({Meeting}, m, outcome)
      /\ told' = IF outcome = "synced" THEN [told EXCEPT ![r] = Content(r)] ELSE told
      /\ Content(r) \in Reviewed /\ Now.status = "review_required"
  BY <1>1 DEF Approve, Write
<1>3. /\ TypeOK /\ RecordInv /\ r \in Revisions /\ r \in Nat /\ Now \in State
  BY <1>1, NowFacts DEF IInv
<1>4. m \in State /\ m.revision = r /\ m.status = "approved"
  BY <1>1, <1>3, StateUpdates DEF State
<1>5. {Meeting} \in SUBSET Entries /\ outcome \in {"failed", "named", "synced"}
  BY EntryFacts DEF Outcome
<1>6. CASE outcome = "failed"
  <2>1. UNCHANGED <<shown, kept, told>>
    BY <1>2, <1>6 DEF Change
  <2> QED
    BY <2>1, UnseenStep
<1>7. CASE outcome # "failed"
  <2>1. /\ Now' = m
        /\ outcome = "synced" => kept'[Meeting] = {m}
        /\ outcome # "synced" => kept'[Meeting] = kept[Meeting] \union {m}
    BY <1>2, <1>3, <1>5, <1>7, ChangeOfMeeting
  <2>2. Calm({Meeting}, m)
    BY <1>1, <1>4, EntryFacts DEF Calm
  <2>3. Minutes' = Minutes
    BY <1>2, <1>3, <1>5, <2>2, CalmRecord, SameMinutes
  <2>4. Minutes[r] = Content(r)
    BY <1>1, <1>3 DEF Minutes
  <2>5. PICK s : s = [revision |-> r, status |-> "approved"]
    OBVIOUS
  <2>6. s = Stage(m) /\ s.revision = r
    BY <1>4, <2>5 DEF Stage
  <2>7. ShownState' = s
    <3>1. ShownState' = Stage(Now')
      BY DEF ShownState, Stage
    <3> QED
      BY <2>1, <2>6, <3>1
  <2>8. PossibleStates' = { Stage(x) : x \in kept'[Meeting] }
    BY DEF PossibleStates, Stage, Meeting
  <2>9. Contract!Become(s)
    <3>1. CASE outcome = "synced"
      <4>1. PossibleStates' = {s}
        BY <2>1, <2>6, <2>8, <3>1
      <4>2. told' = [told EXCEPT ![s.revision] = Minutes'[s.revision]]
        BY <1>2, <2>3, <2>4, <2>6, <3>1
      <4> QED
        BY <2>7, <4>1, <4>2 DEF Contract!Become
    <3>2. CASE outcome # "synced"
      <4>1. PossibleStates' = PossibleStates \union {s}
        BY <2>1, <2>6, <2>8, <3>2 DEF PossibleStates
      <4>2. told' = told
        BY <1>2, <3>2
      <4> QED
        BY <2>7, <4>1, <4>2 DEF Contract!Become
    <3> QED
      BY <3>1, <3>2
  <2>10. ShownState.revision = r /\ ShownState.status = "review_required"
    BY <1>1, <1>2 DEF ShownState, Stage
  <2>11. Contract!Approve
    BY <1>2, <2>3, <2>4, <2>5, <2>9, <2>10 DEF Contract!Approve
  <2> QED
    BY <2>11 DEF Contract!Next
<1> QED
  BY <1>6, <1>7

LEMMA ExportSendSends ==
    ASSUME IInv, ExportSend
    PROVE  Contract!Next
<1>1. PICK r : r = Now.revision
  OBVIOUS
<1>2. /\ pc = "send" /\ UNCHANGED <<shown, kept>>
      /\ told' = [told EXCEPT ![r] = data]
  BY <1>1 DEF ExportSend
<1>3. Cached(r, data) /\ Now \in kept[Meeting] /\ r \in Nat
  BY <1>1, <1>2, NowFacts DEF IInv, ExportInv
<1>4. /\ ShownState' = ShownState /\ PossibleStates' = PossibleStates
      /\ Minutes' = Minutes
  BY <1>2 DEF ShownState, PossibleStates, Minutes, Stage, Now, Content, Snapshot,
             Meeting
<1>5. ShownState.status = "approved" /\ ShownState.revision = r
  BY <1>1, <1>3 DEF ShownState, Stage, Cached
<1>6. PossibleStates = {ShownState}
  <2>1. \A s \in kept[Meeting] : Stage(s) = Stage(Now)
    BY <1>3 DEF Cached, Stage
  <2> QED
    BY <1>3, <2>1 DEF PossibleStates, ShownState
<1>7. Minutes[r] = data
  BY <1>1, <1>3 DEF Minutes, Cached
<1>8. Contract!Send
  BY <1>2, <1>4, <1>5, <1>6, <1>7 DEF Contract!Send
<1> QED
  BY <1>8 DEF Contract!Next

LEMMA PowerLossFallsBack ==
    ASSUME IInv, PowerLoss
    PROVE  Contract!Next
<1>1. kept' = [e \in Entries |-> {shown'[e]}] /\ told' = told
  BY DEF PowerLoss
<1>2. TypeOK /\ RecordInv /\ Now.revision \in Nat
  BY NowFacts DEF IInv
<1>3. \A e \in Entries : shown'[e] \in kept[e] /\ kept'[e] = {shown'[e]}
  <2> DEFINE unsynced == { e \in Entries : kept[e] # {shown[e]} }
  <2>1. PICK left \in [unsynced -> UNION { kept[e] : e \in unsynced }] :
           /\ \A e \in unsynced : left[e] \in kept[e]
           /\ shown' = [e \in Entries |-> IF e \in unsynced THEN left[e]
                                          ELSE shown[e]]
    BY DEF PowerLoss
  <2> QED
    BY <1>1, <1>2, <2>1 DEF TypeOK
<1>4. /\ Now' \in kept[Meeting] /\ kept'[Meeting] = {Now'}
      /\ Now'.revision <= Now.revision /\ Now'.revision \in Nat
  <2>1. Now' \in kept[Meeting] /\ kept'[Meeting] = {Now'}
    BY <1>3, EntryFacts DEF Now, Meeting
  <2> QED
    BY <1>2, <2>1, StateFacts, RevisionFacts DEF TypeOK, RecordInv
<1>5. ShownState' = Stage(Now') /\ Stage(Now').revision = Now'.revision
  BY DEF ShownState, Stage
<1>6. PossibleStates' = {ShownState'}
  <2>1. PossibleStates' = { Stage(s) : s \in kept'[Meeting] }
    BY DEF PossibleStates, Stage, Meeting
  <2> QED
    BY <1>4, <1>5, <2>1
<1>7. ShownState' \in PossibleStates
  BY <1>4, <1>5 DEF PossibleStates
<1>8. \A r \in Revisions : r <= Now.revision => Content(r)' = Content(r)
  <2> SUFFICES ASSUME NEW r \in Revisions, r <= Now.revision
               PROVE  Content(r)' = Content(r)
    OBVIOUS
  <2>1. Snapshot(r) \in Entries
    BY EntryFacts
  <2>2. CASE r = 0
    BY <2>2 DEF Content
  <2>3. CASE r # 0
    BY <1>2, <1>3, <2>1, <2>3 DEF RecordInv, Content, KeptContent, Snapshot
  <2> QED
    BY <2>2, <2>3
<1>9. Minutes' = [r \in 0..ShownState'.revision |-> Minutes[r]]
  <2>1. Minutes' = [r \in 0..Now'.revision |-> Content(r)']
    BY DEF Minutes
  <2>2. ASSUME NEW r \in 0..Now'.revision
        PROVE  Content(r)' = Minutes[r]
    <3>1. r \in 0..Now.revision /\ r \in Revisions /\ r <= Now.revision
      BY <1>2, <1>4, NowFacts, BoundsAssumption DEF Revisions
    <3> QED
      BY <1>8, <3>1 DEF Minutes
  <2>3. ShownState'.revision = Now'.revision
    BY <1>5
  <2> QED
    BY <2>1, <2>2, <2>3
<1>10. Contract!PowerLoss
  BY <1>1, <1>6, <1>7, <1>9 DEF Contract!PowerLoss
<1> QED
  BY <1>10 DEF Contract!Next

LEMMA ContractInit == Init => Contract!Init
<1> SUFFICES ASSUME Init PROVE Contract!Init
  OBVIOUS
<1>1. /\ Meeting \in Entries
      /\ Now = [revision |-> 0, exporting |-> FALSE, status |-> "review_required"]
      /\ kept[Meeting] = {Now}
  BY EntryFacts DEF Init, Now
<1>2. ShownState = [revision |-> 0, status |-> "review_required"]
  BY <1>1 DEF ShownState, Stage
<1>3. PossibleStates = {ShownState}
  BY <1>1 DEF PossibleStates, ShownState
<1>4. Minutes = [r \in 0..0 |-> Original]
  <2>1. \A r \in 0..0 : r = 0
    OBVIOUS
  <2>2. Now.revision = 0
    BY <1>1
  <2> QED
    BY <2>1, <2>2 DEF Minutes, Content
<1>5. told = [r \in 0..MaxRevision |-> IF r = 0 THEN Original ELSE None]
  BY DEF Init, Revisions
<1> QED
  BY <1>2, <1>3, <1>4, <1>5 DEF Contract!Init

LEMMA ContractNext ==
    IInv /\ [Next]_vars => Contract!Next \/ UNCHANGED Contract!vars
<1> SUFFICES ASSUME IInv, [Next]_vars
             PROVE  Contract!Next \/ UNCHANGED Contract!vars
  OBVIOUS
<1>0. Now \in State /\ Now.revision \in Revisions /\ Now.revision \in Nat
  BY NowFacts DEF IInv
<1>1. CASE UNCHANGED vars
  BY <1>1, UnseenStep DEF vars
<1>2. CASE Export
  BY <1>2, UnseenStep DEF Export
<1>3. CASE RenderFails
  BY <1>3, UnseenStep DEF RenderFails
<1>4. CASE ExportSend
  BY <1>4, ExportSendSends
<1>5. CASE Crash
  BY <1>5, UnseenStep DEF Crash
<1>6. CASE PowerLoss
  BY <1>6, PowerLossFallsBack
<1>7. ASSUME NEW base \in Revisions, NEW edit \in Edits, Put(base, edit)
      PROVE  Contract!Next \/ UNCHANGED Contract!vars
  BY <1>7, UnseenStep DEF Put
<1>8. ASSUME NEW outcome \in Outcome, PutSnapshot(outcome)
      PROVE  Contract!Next \/ UNCHANGED Contract!vars
  <2>1. PICK e : e = Snapshot(Now.revision + 1)
    OBVIOUS
  <2>2. Write(e, data, outcome, "copy", "idle") /\ told' = told
    BY <1>8, <2>1 DEF PutSnapshot
  <2>3. Now.revision + 1 \in Revisions
    BY <1>0, <1>8, RevisionFacts DEF PutSnapshot, IInv, PutInv
  <2>4. e \in Entries /\ e # Meeting
    BY <2>1, <2>3, EntryFacts
  <2>5. \A r \in Revisions : r <= Now.revision => Snapshot(r) # e
    <3>1. \A r \in Revisions : r <= Now.revision => r # Now.revision + 1
      BY <1>0, RevisionFacts
    <3> QED
      BY <2>1, <2>3, <3>1, EntryFacts
  <2> QED
    BY <2>2, <2>4, <2>5, OtherEntryStep
<1>9. ASSUME NEW outcome \in Outcome, PutCopy(outcome)
      PROVE  Contract!Next \/ UNCHANGED Contract!vars
  <2>1. Change({}, None, outcome) /\ told' = told
        /\ outcome \in {"failed", "named", "synced"}
    BY <1>9 DEF PutCopy, Outcome
  <2>2. Calm({}, None) /\ {} \in SUBSET Entries /\ Meeting \notin {}
    BY DEF Calm
  <2> QED
    BY <2>1, <2>2, SettlingStep
<1>10. ASSUME NEW outcome \in Outcome \union {"half"}, PutDrop(outcome)
       PROVE  Contract!Next \/ UNCHANGED Contract!vars
  BY <1>10, DropIsUnseen DEF PutDrop
<1>11. ASSUME NEW outcome \in Outcome \union {"half"}, ExportPurge(outcome)
       PROVE  Contract!Next \/ UNCHANGED Contract!vars
  BY <1>11, DropIsUnseen DEF ExportPurge
<1>12. ASSUME NEW outcome \in Outcome, PutCommit(outcome)
       PROVE  Contract!Next \/ UNCHANGED Contract!vars
  BY <1>12, PutCommitSaves
<1>13. ASSUME NEW outcome \in Outcome, Approve(outcome)
       PROVE  Contract!Next \/ UNCHANGED Contract!vars
  BY <1>13, ApproveApproves
<1>14. ASSUME NEW outcome \in Outcome, ExportStage(outcome)
       PROVE  Contract!Next \/ UNCHANGED Contract!vars
  <2>1. PICK v : v = [Now EXCEPT !.exporting = TRUE]
    OBVIOUS
  <2>2. Write(Meeting, v, outcome, "render", "undo") /\ told' = told
    BY <1>14, <2>1 DEF ExportStage
  <2>3. Now.status = "approved"
    BY <1>14 DEF ExportStage, IInv, ExportInv
  <2>4. v \in State /\ Stage(v) = Stage(Now)
    BY <1>0, <2>1, <2>3, StateUpdates DEF Stage, State
  <2> QED
    BY <2>2, <2>4, SameStageStep
<1>15. ASSUME NEW outcome \in Outcome, ExportRender(outcome)
       PROVE  Contract!Next \/ UNCHANGED Contract!vars
  <2>1. PICK e, c : e = PDF(Now.revision) /\ c = Content(Now.revision)
    OBVIOUS
  <2>2. WriteOnce(e, c, outcome, "marker", "undo") /\ told' = told
    BY <1>15, <2>1 DEF ExportRender
  <2>3. e \in Entries
    BY <1>0, <2>1, EntryFacts
  <2> QED
    BY <1>0, <2>1, <2>2, <2>3, CacheEntryStep
<1>16. ASSUME NEW outcome \in Outcome, ExportMarker(outcome)
       PROVE  Contract!Next \/ UNCHANGED Contract!vars
  <2>1. PICK e : e = Marker(Now.revision)
    OBVIOUS
  <2>2. WriteOnce(e, data, outcome, "clear", "undo") /\ told' = told
    BY <1>16, <2>1 DEF ExportMarker
  <2>3. e \in Entries
    BY <1>0, <2>1, EntryFacts
  <2> QED
    BY <1>0, <2>1, <2>2, <2>3, CacheEntryStep
<1>17. ASSUME NEW outcome \in Outcome, ExportClear(outcome)
       PROVE  Contract!Next \/ UNCHANGED Contract!vars
  <2>1. CASE Now.exporting
    <3>1. PICK v, next : /\ v = [Now EXCEPT !.exporting = FALSE]
                         /\ next = IF pc = "clear" THEN "send" ELSE "idle"
      OBVIOUS
    <3>2. Write(Meeting, v, outcome, next, "idle") /\ told' = told
      BY <1>17, <2>1, <3>1 DEF ExportClear
    <3>3. v \in State /\ Stage(v) = Stage(Now)
      BY <1>0, <3>1, StateUpdates DEF Stage, State
    <3> QED
      BY <3>2, <3>3, SameStageStep
  <2>2. CASE ~Now.exporting
    BY <1>17, <2>2, UnseenStep DEF ExportClear
  <2> QED
    BY <2>1, <2>2
<1>18. ASSUME NEW outcome \in Outcome, Housekeeping(outcome)
       PROVE  Contract!Next \/ UNCHANGED Contract!vars
  BY <1>0, <1>18, SameStageStep DEF Housekeeping
<1> QED
  BY <1>1, <1>2, <1>3, <1>4, <1>5, <1>6, <1>7, <1>8, <1>9, <1>10, <1>11, <1>12,
     <1>13, <1>14, <1>15, <1>16, <1>17, <1>18 DEF Next

(* PUT, approve and export, with every failure, crash and power loss, do   *)
(* to the minutes only what ReviewContract permits.                        *)
THEOREM ImplementsContract == Spec => ContractSpec
BY ContractInit, ContractNext, Invariance, PTL
DEF Spec, ContractSpec, Contract!Spec

-----------------------------------------------------------------------------
(* What the contract says of answers and approvals *)

LEMMA PossibleFacts ==
    ASSUME IInv
    PROVE  /\ ShownState \in PossibleStates
           /\ ShownState.revision \in Nat /\ ShownState.revision <= MaxRevision
           /\ \A s \in PossibleStates :
                 s.revision \in 0..ShownState.revision
           /\ \A r \in 0..ShownState.revision : Minutes[r] = Content(r)
<1>1. /\ Now \in kept[Meeting] /\ Now.revision \in Nat /\ Now.revision \in Revisions
      /\ ShownState.revision = Now.revision
  BY NowFacts DEF IInv, ShownState, Stage
<1>2. ShownState \in PossibleStates
  BY <1>1 DEF ShownState, PossibleStates
<1>3. ASSUME NEW s \in PossibleStates
      PROVE  s.revision \in 0..ShownState.revision
  <2>1. PICK t \in kept[Meeting] : s.revision = t.revision
    BY DEF PossibleStates, Stage
  <2>2. t \in State /\ t.revision <= Now.revision
    BY DEF IInv, TypeOK, RecordInv
  <2>3. t.revision \in Nat
    BY <2>2, StateFacts, RevisionFacts
  <2> QED
    BY <1>1, <2>1, <2>2, <2>3
<1>4. \A r \in 0..ShownState.revision : Minutes[r] = Content(r)
  BY <1>1 DEF Minutes
<1>5. ShownState.revision <= MaxRevision
  BY <1>1, BoundsAssumption DEF Revisions
<1> QED
  BY <1>1, <1>2, <1>3, <1>4, <1>5

ApprovalsInv ==
    \A s \in PossibleStates :
       s.status = "approved" => Minutes[s.revision] \in Reviewed

LEMMA InitApprovals ==
    ASSUME Contract!Init
    PROVE  ApprovalsInv
BY DEF Contract!Init, ApprovalsInv

(* A state that may come back came in by an approval or is an older one,   *)
(* whose minutes are as they were.                                         *)
LEMMA NextApprovals ==
    ASSUME IInv, ApprovalsInv, Contract!Next \/ UNCHANGED Contract!vars
    PROVE  ApprovalsInv'
<1>1. /\ ShownState \in PossibleStates /\ ShownState.revision \in Nat
      /\ \A s \in PossibleStates : s.revision \in 0..ShownState.revision
  BY PossibleFacts
<1> SUFFICES ASSUME NEW s \in PossibleStates', s.status = "approved"
             PROVE  Minutes'[s.revision] \in Reviewed
  BY DEF ApprovalsInv
<1>2. ASSUME s \in PossibleStates
      PROVE  /\ s.revision \in 0..ShownState.revision
             /\ Minutes[s.revision] \in Reviewed
  BY <1>1, <1>2 DEF ApprovalsInv
<1>3. ASSUME NEW edit \in Edits, Contract!Save(edit)
      PROVE  Minutes'[s.revision] \in Reviewed
  <2>1. PICK r : r = ShownState.revision + 1
    OBVIOUS
  <2>2. Minutes' = [q \in 0..r |-> IF q = r THEN edit ELSE Minutes[q]]
    BY <1>3, <2>1 DEF Contract!Save
  <2>3. \A t \in PossibleStates' :
           t \in PossibleStates \/ t = [revision |-> r, status |-> "review_required"]
    BY <1>3, <2>1 DEF Contract!Save, Contract!Become
  <2>4. s \in PossibleStates
    BY <2>3
  <2>5. s.revision \in 0..r /\ s.revision # r
    BY <1>1, <1>2, <2>1, <2>4
  <2> QED
    BY <1>2, <2>2, <2>4, <2>5
<1>4. CASE Contract!Approve
  <2>1. /\ Minutes' = Minutes /\ Minutes[ShownState.revision] \in Reviewed
        /\ \A t \in PossibleStates' : t \in PossibleStates
              \/ t = [revision |-> ShownState.revision, status |-> "approved"]
    BY <1>4 DEF Contract!Approve, Contract!Become
  <2> QED
    BY <1>2, <2>1
<1>5. CASE Contract!Send
  BY <1>2, <1>5 DEF Contract!Send
<1>6. CASE Contract!Settle
  BY <1>1, <1>2, <1>6 DEF Contract!Settle
<1>7. CASE Contract!PowerLoss
  <2>1. /\ s = ShownState' /\ s \in PossibleStates
        /\ Minutes' = [r \in 0..ShownState'.revision |-> Minutes[r]]
    BY <1>7 DEF Contract!PowerLoss
  <2>2. s.revision \in 0..ShownState'.revision
    BY <1>2, <2>1
  <2> QED
    BY <1>2, <2>1, <2>2
<1>8. CASE UNCHANGED Contract!vars
  BY <1>2, <1>8 DEF Contract!vars
<1> QED
  BY <1>3, <1>4, <1>5, <1>6, <1>7, <1>8 DEF Contract!Next

(* Nothing is approved, now or after a power loss, in which approve_review *)
(* would have found a voice unreviewed, and what a client was told of a    *)
(* revision is what GET shows of it.                                       *)
THEOREM AnswersAreKept == Spec => []Contract!AnswersStand
<1>1. Init => ApprovalsInv
  BY ContractInit, InitApprovals
<1>2. IInv /\ ApprovalsInv /\ [Next]_vars => ApprovalsInv'
  BY ContractNext, NextApprovals
<1>3. IInv /\ ApprovalsInv => Contract!AnswersStand
  <2> SUFFICES ASSUME IInv, ApprovalsInv PROVE Contract!AnswersStand
    OBVIOUS
  <2>1. ASSUME NEW r \in 0..MaxRevision, told[r] # None, NEW s \in PossibleStates
        PROVE  r <= s.revision /\ Minutes[r] = told[r]
    <3>1. r \in Revisions /\ KeptContent(r) = {told[r]}
      BY <2>1 DEF IInv, ConfirmedRevisionStays, Revisions
    <3>2. PICK t \in kept[Meeting] : s.revision = t.revision
      BY DEF PossibleStates, Stage
    <3>3. t.revision >= r
      BY <2>1, <3>1 DEF IInv, ConfirmedRevisionStays
    <3>4. s.revision \in 0..ShownState.revision /\ ShownState.revision \in Nat
      BY PossibleFacts
    <3>5. r \in 0..ShownState.revision /\ r <= s.revision
      BY <3>2, <3>3, <3>4
    <3>6. r <= Now.revision /\ Now.revision = ShownState.revision
      BY <3>5 DEF ShownState, Stage
    <3>7. KeptContent(r) = {Content(r)}
      BY <3>1, <3>6 DEF IInv, RecordInv
    <3>8. Minutes[r] = Content(r)
      BY <3>5, PossibleFacts
    <3> QED
      BY <3>1, <3>5, <3>7, <3>8
  <2> QED
    BY <2>1 DEF Contract!AnswersStand, ApprovalsInv
<1> QED
  BY <1>1, <1>2, <1>3, InitInv, NextKeeps, PTL DEF Spec
=============================================================================
