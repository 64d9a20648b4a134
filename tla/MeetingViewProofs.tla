-------------------------- MODULE MeetingViewProofs --------------------------
(***************************************************************************)
(* Proofs about MeetingView, for any tabs, edits, saved revisions and      *)
(* faults: what two tabs save never overwrites what was saved before, and  *)
(* what is approved was on the screen.                                     *)
(***************************************************************************)
EXTENDS MeetingView, TLAPS

-----------------------------------------------------------------------------
(* The inductive invariant *)

AllEdits == SpeechEdits \union MinuteEdits

Statuses == {"processing", "failed", "review_required", "approved"}

(* The minutes of revision n, if there is one.                             *)
Saved(n) == versions[n + 1]

Exists(n) == n \in Nat /\ n < Len(versions)

ServerInv ==
    /\ versions \in Seq(SUBSET AllEdits) /\ versions # <<>>
    /\ status \in Statuses
    /\ SavedEditsStay
    /\ ApprovedWasSeen

(* What a tab was answered is of a revision that still exists.             *)
DataInv ==
    /\ data \in [Tabs -> [Queries -> {None} \union
                    [revision : Nat, status : Statuses \union {"results"}]]]
    /\ \A t \in Tabs, q \in Queries :
          data[t][q] # None => Exists(data[t][q].revision)

(* A draft is of one revision, and has all that was saved in it.           *)
DraftInv ==
    /\ draft \in [Tabs -> {None} \union [revision : Nat, minutes : SUBSET AllEdits]]
    /\ \A t \in Tabs :
          draft[t] # None => /\ Exists(draft[t].revision)
                             /\ Saved(draft[t].revision) \subseteq draft[t].minutes

(* So has a request that may still arrive, whenever it was sent; that to   *)
(* approve has exactly what was saved.                                     *)
RequestInv(r) ==
    /\ r.kind \in {"save", "approve", "retry"}
    /\ r.kind = "save" => /\ Exists(r.base) /\ r.minutes \subseteq AllEdits
                          /\ Saved(r.base) \subseteq r.minutes
    /\ r.kind = "approve" => Exists(r.base) /\ r.minutes = Saved(r.base)

SentInv == \A r \in sent : RequestInv(r)

IInv == ServerInv /\ DataInv /\ DraftInv /\ SentInv

-----------------------------------------------------------------------------
(* Lemmas about a tab *)

(* A tab that shows the minutes has all of them from one revision.         *)
LEMMA ShownIsWhole ==
    ASSUME IInv, NEW t \in Tabs, View(t) = "shown"
    PROVE  /\ Exists(Meeting(t).revision)
           /\ Displayed(t) \subseteq AllEdits
           /\ Saved(Meeting(t).revision) \subseteq Displayed(t)
           /\ ~Unsaved(t) => Displayed(t) = Saved(Meeting(t).revision)
<1> DEFINE m == Meeting(t)
<1>1. "meeting" \in Queries /\ "transcript" \in Queries /\ "insights" \in Queries
  BY DEF Queries, Results
<1>2. /\ m \in {None} \union [revision : Nat, status : Statuses \union {"results"}]
      /\ m # None => Exists(m.revision)
  BY <1>1 DEF IInv, DataInv, Meeting
<1>3. m # None
  BY DEF View
<1>4. m.status # "shown"
  BY <1>2, <1>3 DEF Statuses
<1>5. \A q \in Results : data[t][q] # None /\ data[t][q].revision = m.revision
  BY <1>4 DEF View
<1>6. Exists(m.revision)
  BY <1>2, <1>3
<1>7. Saved(m.revision) \in SUBSET AllEdits
  BY <1>6 DEF Exists, Saved, IInv, ServerInv
<1>8. CASE Unsaved(t)
  <2>1. draft[t] # None /\ draft[t].revision = m.revision
    BY <1>8 DEF Unsaved
  <2>2. /\ Saved(m.revision) \subseteq draft[t].minutes
        /\ draft[t].minutes \subseteq AllEdits
    BY <2>1 DEF IInv, DraftInv
  <2>3. Displayed(t) = draft[t].minutes
    BY <1>8 DEF Displayed
  <2>4. QED
    BY <1>6, <1>8, <2>2, <2>3
<1>9. CASE ~Unsaved(t)
  <2>1. /\ data[t]["transcript"].revision = m.revision
        /\ data[t]["insights"].revision = m.revision
    BY <1>5 DEF Results
  <2>2. Displayed(t) = (Saved(m.revision) \intersect SpeechEdits)
                       \union (Saved(m.revision) \intersect MinuteEdits)
    BY <1>9, <2>1 DEF Displayed, Saved
  <2>3. Displayed(t) = Saved(m.revision)
    BY <1>7, <2>2 DEF AllEdits
  <2>4. QED
    BY <1>6, <1>7, <2>3
<1>10. QED
  BY <1>8, <1>9

(* The list of revisions only grows, and those that exist stay.            *)
Grows ==
    \/ versions' = versions
    \/ \E minutes : versions' = Append(versions, minutes)

LEMMA RevisionsStay ==
    ASSUME IInv, Grows, NEW n, Exists(n)
    PROVE  n \in Nat /\ n < Len(versions') /\ versions'[n + 1] = Saved(n)
<1>1. n \in Nat /\ n < Len(versions) /\ versions \in Seq(SUBSET AllEdits)
  BY DEF Exists, IInv, ServerInv
<1>2. CASE versions' = versions
  BY <1>1, <1>2 DEF Saved
<1>3. ASSUME NEW minutes, versions' = Append(versions, minutes)
      PROVE  n < Len(versions') /\ versions'[n + 1] = Saved(n)
  <2>1. Len(versions') = Len(versions) + 1
    BY <1>1, <1>3
  <2>2. n + 1 \in 1..Len(versions)
    BY <1>1
  <2>3. versions'[n + 1] = versions[n + 1]
    BY <1>1, <1>3, <2>2
  <2>4. QED
    BY <1>1, <2>1, <2>3 DEF Saved
<1>4. QED
  BY <1>1, <1>2, <1>3 DEF Grows

(* Answers, drafts and requests stay true when a step keeps or drops them. *)
LEMMA KeepServer ==
    ASSUME IInv, UNCHANGED server
    PROVE  ServerInv'
BY DEF IInv, ServerInv, SavedEditsStay, ApprovedWasSeen, server

LEMMA KeepData ==
    ASSUME IInv, Grows, data' = data
    PROVE  DataInv'
<1>1. ASSUME NEW t \in Tabs, NEW q \in Queries, data[t][q] # None
      PROVE  data[t][q].revision \in Nat /\ data[t][q].revision < Len(versions')
  <2>1. Exists(data[t][q].revision)
    BY <1>1 DEF IInv, DataInv
  <2>2. QED
    BY <2>1, RevisionsStay
<1>2. QED
  BY <1>1 DEF IInv, DataInv, Exists

LEMMA KeepDrafts ==
    ASSUME IInv, Grows, draft' = [t \in Tabs |-> draft'[t]],
           \A t \in Tabs : draft'[t] = draft[t] \/ draft'[t] = None
    PROVE  DraftInv'
<1>1. draft' \in [Tabs -> {None} \union
                      [revision : Nat, minutes : SUBSET AllEdits]]
  BY DEF IInv, DraftInv
<1>2. ASSUME NEW t \in Tabs, draft'[t] # None
      PROVE  /\ draft'[t].revision \in Nat
             /\ draft'[t].revision < Len(versions')
             /\ versions'[draft'[t].revision + 1] \subseteq draft'[t].minutes
  <2>1. draft'[t] = draft[t]
    BY <1>2
  <2>2. /\ Exists(draft[t].revision)
        /\ Saved(draft[t].revision) \subseteq draft[t].minutes
    BY <1>2, <2>1 DEF IInv, DraftInv
  <2>3. QED
    BY <2>1, <2>2, RevisionsStay
<1>3. QED
  BY <1>1, <1>2 DEF DraftInv, Exists, Saved

LEMMA KeepSent ==
    ASSUME IInv, Grows, NEW r \in sent
    PROVE  RequestInv(r)'
<1>1. RequestInv(r)
  BY DEF IInv, SentInv
<1>2. Exists(r.base) => /\ r.base \in Nat /\ r.base < Len(versions')
                        /\ versions'[r.base + 1] = Saved(r.base)
  BY RevisionsStay
<1>3. QED
  BY <1>1, <1>2 DEF RequestInv, Exists, Saved

(* A step of a tab that neither asks the server nor learns from it.        *)
LEMMA LocalStep ==
    ASSUME IInv, UNCHANGED server, data' = data, sent' = sent,
           draft' = [t \in Tabs |-> draft'[t]],
           \A t \in Tabs : draft'[t] = draft[t] \/ draft'[t] = None
    PROVE  IInv'
<1>1. Grows
  BY DEF Grows, server
<1>2. SentInv'
  BY <1>1, KeepSent DEF SentInv
<1>3. QED
  BY <1>1, <1>2, KeepServer, KeepData, KeepDrafts DEF IInv

LEMMA DraftKept ==
    ASSUME IInv, NEW t \in Tabs,
           draft' = draft \/ draft' = [draft EXCEPT ![t] = None]
    PROVE  /\ draft' = [u \in Tabs |-> draft'[u]]
           /\ \A u \in Tabs : draft'[u] = draft[u] \/ draft'[u] = None
BY DEF IInv, DraftInv

-----------------------------------------------------------------------------
(* The steps *)

LEMMA AnswerKeeps ==
    ASSUME IInv, NEW t \in Tabs, NEW q \in Queries, Answer(t, q)
    PROVE  IInv'
<1> DEFINE a == [revision |-> Revision,
                 status |-> IF q = "meeting" THEN status ELSE "results"]
<1>1. /\ data' = [data EXCEPT ![t][q] = a]
      /\ draft' = draft \/ draft' = [draft EXCEPT ![t] = None]
      /\ UNCHANGED server /\ sent' = sent
  BY DEF Answer
<1>2. Grows
  BY <1>1 DEF Grows, server
<1>3. Revision \in Nat /\ Revision < Len(versions) /\ status \in Statuses
  BY DEF IInv, ServerInv, Revision
<1>4. /\ a \in [revision : Nat, status : Statuses \union {"results"}]
      /\ Exists(a.revision)
  BY <1>3 DEF Exists
<1> HIDE DEF a
<1>5. DataInv'
  <2>1. data \in [Tabs -> [Queries -> {None} \union
                     [revision : Nat, status : Statuses \union {"results"}]]]
    BY DEF IInv, DataInv
  <2>2. data' \in [Tabs -> [Queries -> {None} \union
                     [revision : Nat, status : Statuses \union {"results"}]]]
    BY <1>1, <1>4, <2>1
  <2>3. \A u \in Tabs, p \in Queries :
           data'[u][p] = IF u = t /\ p = q THEN a ELSE data[u][p]
    BY <1>1, <2>1
  <2>4. \A u \in Tabs, p \in Queries :
           data'[u][p] # None => Exists(data'[u][p].revision)
    BY <1>4, <2>3 DEF IInv, DataInv
  <2>5. versions' = versions
    BY <1>1 DEF server
  <2>6. QED
    BY <2>2, <2>4, <2>5 DEF DataInv, Exists
<1>6. DraftInv'
  BY <1>1, <1>2, DraftKept, KeepDrafts
<1>7. SentInv'
  BY <1>1, <1>2, KeepSent DEF SentInv
<1>8. QED
  BY <1>1, <1>5, <1>6, <1>7, KeepServer DEF IInv

LEMMA ReloadKeeps ==
    ASSUME IInv, NEW t \in Tabs, Reload(t)
    PROVE  IInv'
<1>1. /\ data' = [data EXCEPT ![t] = [q \in Queries |-> None]]
      /\ draft' = [draft EXCEPT ![t] = None]
      /\ UNCHANGED server /\ sent' = sent
  BY DEF Reload
<1>2. Grows /\ versions' = versions
  BY <1>1 DEF Grows, server
<1>3. DataInv'
  <2>1. data \in [Tabs -> [Queries -> {None} \union
                     [revision : Nat, status : Statuses \union {"results"}]]]
    BY DEF IInv, DataInv
  <2>2. \A u \in Tabs :
           data'[u] = IF u = t THEN [q \in Queries |-> None] ELSE data[u]
    BY <1>1, <2>1
  <2>3. [q \in Queries |-> None] \in [Queries -> {None} \union
                     [revision : Nat, status : Statuses \union {"results"}]]
    OBVIOUS
  <2>4. data' \in [Tabs -> [Queries -> {None} \union
                     [revision : Nat, status : Statuses \union {"results"}]]]
    BY <1>1, <2>1, <2>2, <2>3
  <2>5. \A u \in Tabs, p \in Queries :
           data'[u][p] # None => Exists(data'[u][p].revision)
    BY <2>2 DEF IInv, DataInv
  <2>6. QED
    BY <1>2, <2>4, <2>5 DEF DataInv, Exists
<1>4. DraftInv'
  BY <1>1, <1>2, DraftKept, KeepDrafts
<1>5. SentInv'
  BY <1>1, <1>2, KeepSent DEF SentInv
<1>6. QED
  BY <1>1, <1>3, <1>4, <1>5, KeepServer DEF IInv

LEMMA TypeKeeps ==
    ASSUME IInv, NEW t \in Tabs, NEW e \in AllEdits, Type(t, e)
    PROVE  IInv'
<1> DEFINE d == [revision |-> Meeting(t).revision,
                 minutes |-> Displayed(t) \union {e}]
<1>1. /\ View(t) = "shown" /\ draft' = [draft EXCEPT ![t] = d]
      /\ UNCHANGED server /\ data' = data /\ sent' = sent
  BY DEF Type, Editable, queries, calls
<1>2. Grows /\ versions' = versions
  BY <1>1 DEF Grows, server
<1>3. /\ d \in [revision : Nat, minutes : SUBSET AllEdits]
      /\ Exists(d.revision) /\ Saved(d.revision) \subseteq d.minutes
  BY <1>1, ShownIsWhole DEF Exists
<1> HIDE DEF d
<1>4. DraftInv'
  <2>1. draft \in [Tabs -> {None} \union
                      [revision : Nat, minutes : SUBSET AllEdits]]
    BY DEF IInv, DraftInv
  <2>2. /\ draft' \in [Tabs -> {None} \union
                         [revision : Nat, minutes : SUBSET AllEdits]]
        /\ \A u \in Tabs : draft'[u] = IF u = t THEN d ELSE draft[u]
    BY <1>1, <1>3, <2>1
  <2>3. \A u \in Tabs :
           draft'[u] # None => /\ Exists(draft'[u].revision)
                               /\ Saved(draft'[u].revision) \subseteq draft'[u].minutes
    BY <1>3, <2>2 DEF IInv, DraftInv
  <2>4. QED
    BY <1>2, <2>2, <2>3 DEF DraftInv, Exists, Saved
<1>5. SentInv'
  BY <1>1, <1>2, KeepSent DEF SentInv
<1>6. QED
  BY <1>1, <1>2, <1>4, <1>5, KeepServer, KeepData DEF IInv

(* A request is made of what is displayed.                                 *)
LEMMA SendKeeps ==
    ASSUME IInv, NEW t \in Tabs, NEW kind \in {"save", "approve", "retry"},
           Send(t, kind),
           kind # "retry" => View(t) = "shown",
           kind = "approve" => ~Unsaved(t)
    PROVE  IInv'
<1>1. UNCHANGED server /\ data' = data /\ draft' = draft
  BY DEF Send, queries, local
<1>2. Grows /\ versions' = versions
  BY <1>1 DEF Grows, server
<1>3. PICK r : /\ sent' = sent \union {r}
               /\ r.kind = kind /\ r.base = Meeting(t).revision
               /\ kind # "retry" => r.minutes = Displayed(t)
  <2> DEFINE q == [tab |-> t, kind |-> kind, base |-> Meeting(t).revision,
                   minutes |-> IF kind = "retry" THEN {} ELSE Displayed(t),
                   after |-> faults]
  <2>1. sent' = sent \union {q}
    BY DEF Send
  <2>2. /\ q.kind = kind /\ q.base = Meeting(t).revision
        /\ kind # "retry" => q.minutes = Displayed(t)
    OBVIOUS
  <2> HIDE DEF q
  <2>3. QED
    BY <2>1, <2>2
<1>4. RequestInv(r)
  BY <1>3, ShownIsWhole DEF RequestInv
<1>5. SentInv'
  <2>1. RequestInv(r)'
    BY <1>2, <1>4 DEF RequestInv, Exists, Saved
  <2>2. QED
    BY <1>2, <1>3, <2>1, KeepSent DEF SentInv
<1>6. DraftInv'
  BY <1>1, <1>2, DraftKept, KeepDrafts
<1>7. QED
  BY <1>1, <1>2, <1>5, <1>6, KeepServer, KeepData DEF IInv

LEMMA UserKeeps ==
    ASSUME IInv, NEW t \in Tabs, User(t)
    PROVE  IInv'
<1>1. ASSUME NEW e \in SpeechEdits \union MinuteEdits, Type(t, e)
      PROVE  IInv'
  BY <1>1, TypeKeeps DEF AllEdits
<1>2. CASE EditApproved(t) \/ Discard(t)
  <2>1. /\ UNCHANGED server /\ data' = data /\ sent' = sent
        /\ draft' = draft \/ draft' = [draft EXCEPT ![t] = None]
    BY <1>2 DEF EditApproved, Discard, queries, calls
  <2>2. QED
    BY <2>1, DraftKept, LocalStep
<1>3. CASE Save(t)
  BY <1>3, SendKeeps DEF Save, Editable
<1>4. CASE Approve(t)
  BY <1>4, SendKeeps DEF Approve, Editable
<1>5. CASE Retry(t)
  BY <1>5, SendKeeps DEF Retry
<1>6. CASE Reload(t)
  BY <1>6, ReloadKeeps
<1>7. ASSUME NEW Q \in SUBSET Queries, Reconnect(t, Q) \/ Return(t, Q)
      PROVE  IInv'
  <2>1. /\ UNCHANGED server /\ data' = data /\ sent' = sent
        /\ draft' = draft \/ draft' = [draft EXCEPT ![t] = None]
    BY <1>7 DEF Reconnect, Return, local, calls
  <2>2. QED
    BY <2>1, DraftKept, LocalStep
<1>8. QED
  BY <1>1, <1>2, <1>3, <1>4, <1>5, <1>6, <1>7 DEF User

(* Failures, polls and requests that are given up change nothing that is   *)
(* displayed.                                                              *)
LEMMA NetworkKeeps ==
    ASSUME IInv, NEW t \in Tabs, Network(t) \/ Poll(t)
    PROVE  IInv'
<1>1. /\ UNCHANGED server /\ data' = data /\ sent' = sent /\ draft' = draft
  BY DEF Network, Fail, GiveUp, Poll, queries, local, calls
<1>2. QED
  BY <1>1, DraftKept, LocalStep

LEMMA ComputeKeeps ==
    ASSUME IInv, Compute
    PROVE  IInv'
<1>1. /\ status' \in {"review_required", "failed"} /\ versions' = versions
      /\ data' = data /\ draft' = draft /\ sent' = sent
  BY DEF Compute, queries, local, calls
<1>2. ServerInv'
  BY <1>1 DEF IInv, ServerInv, SavedEditsStay, ApprovedWasSeen, Statuses
<1>3. Grows
  BY <1>1 DEF Grows
<1>4. SentInv'
  BY <1>1, <1>3, KeepSent DEF SentInv
<1>5. DraftInv'
  <2>1. draft' = [u \in Tabs |-> draft'[u]]
    BY <1>1 DEF IInv, DraftInv
  <2>2. QED
    BY <1>1, <1>3, <2>1, KeepDrafts
<1>6. QED
  BY <1>1, <1>2, <1>3, <1>4, <1>5, KeepData DEF IInv

(* The server carries out a request: one of the current revision only,     *)
(* whose minutes have all that was saved before.                           *)
LEMMA ServeKeeps ==
    ASSUME IInv, NEW r \in sent, Serve(r)
    PROVE  IInv'
<1>1. sent' \subseteq sent /\ data' = data /\ draft' = draft
  BY DEF Serve, local
<1>2. /\ RequestInv(r) /\ versions \in Seq(SUBSET AllEdits) /\ versions # <<>>
      /\ SavedEditsStay
  BY DEF IInv, SentInv, ServerInv
<1>3. /\ Len(versions) \in Nat \ {0} /\ Revision = Len(versions) - 1
      /\ Saved(Revision) = versions[Len(versions)]
  BY <1>2 DEF Revision, Saved
<1>4. Grows /\ ServerInv'
  <2>1. CASE UNCHANGED server
    BY <2>1, KeepServer DEF Grows, server
  <2>2. CASE Accepted(r) /\ r.kind = "save"
    <3>1. /\ versions' = Append(versions, r.minutes)
          /\ status' = "review_required" /\ r.base = Revision
      BY <2>2 DEF Serve, Accepted
    <3>2. r.minutes \in SUBSET AllEdits /\ versions[Len(versions)] \subseteq r.minutes
      BY <1>2, <1>3, <2>2, <3>1 DEF RequestInv
    <3>3. /\ versions' \in Seq(SUBSET AllEdits)
          /\ Len(versions') = Len(versions) + 1
          /\ versions'[Len(versions) + 1] = r.minutes
          /\ \A i \in 1..Len(versions) : versions'[i] = versions[i]
      BY <1>2, <3>1, <3>2
    <3>4. SavedEditsStay'
      <4> SUFFICES ASSUME NEW i \in 1..Len(versions'), NEW j \in 1..Len(versions'),
                          i < j
                   PROVE  versions'[i] \subseteq versions'[j]
        BY DEF SavedEditsStay
      <4>1. i \in 1..Len(versions)
        BY <1>3, <3>3
      <4>2. CASE j \in 1..Len(versions)
        BY <1>2, <3>3, <4>1, <4>2 DEF SavedEditsStay
      <4>3. CASE j = Len(versions) + 1
        <5>1. versions[i] \subseteq versions[Len(versions)]
          BY <1>2, <1>3, <4>1 DEF SavedEditsStay
        <5>2. QED
          BY <3>2, <3>3, <4>1, <4>3, <5>1
      <4>4. QED
        BY <1>3, <3>3, <4>2, <4>3
    <3>5. versions' # <<>>
      BY <1>3, <3>3
    <3>6. QED
      BY <3>1, <3>3, <3>4, <3>5 DEF Grows, ServerInv, ApprovedWasSeen, Statuses
  <2>3. CASE Accepted(r) /\ r.kind = "approve"
    <3>1. /\ versions' = versions /\ approved' = r.minutes /\ status' = "approved"
          /\ r.base = Revision
      BY <2>3 DEF Serve, Accepted
    <3>2. approved' = versions'[Len(versions')]
      BY <1>2, <1>3, <2>3, <3>1 DEF RequestInv
    <3>3. SavedEditsStay'
      BY <1>2, <3>1 DEF SavedEditsStay
    <3>4. QED
      BY <1>2, <3>1, <3>2, <3>3 DEF Grows, ServerInv, ApprovedWasSeen, Statuses
  <2>4. CASE Accepted(r) /\ r.kind = "retry"
    <3>1. versions' = versions /\ status' = "processing"
      BY <2>4 DEF Serve
    <3>2. SavedEditsStay'
      BY <1>2, <3>1 DEF SavedEditsStay
    <3>3. QED
      BY <1>2, <3>1, <3>2 DEF Grows, ServerInv, ApprovedWasSeen, Statuses
  <2>5. QED
    BY <1>2, <2>1, <2>2, <2>3, <2>4 DEF Serve, RequestInv
<1>5. SentInv'
  BY <1>1, <1>4, KeepSent DEF SentInv
<1>6. DraftInv'
  <2>1. draft' = [u \in Tabs |-> draft'[u]]
    BY <1>1 DEF IInv, DraftInv
  <2>2. QED
    BY <1>1, <1>4, <2>1, KeepDrafts
<1>7. QED
  BY <1>1, <1>4, <1>5, <1>6, KeepData DEF IInv

-----------------------------------------------------------------------------
(* Theorems *)

LEMMA InitInv == Init => IInv
<1> SUFFICES ASSUME Init PROVE IInv
  OBVIOUS
<1>1. /\ versions = <<{}>> /\ status = "processing" /\ sent = {}
      /\ data = [t \in Tabs |-> [q \in Queries |-> None]]
      /\ draft = [t \in Tabs |-> None]
  BY DEF Init
<1>2. ServerInv
  <2>1. versions \in Seq(SUBSET AllEdits) /\ versions # <<>> /\ Len(versions) = 1
    BY <1>1
  <2>2. SavedEditsStay
    BY <2>1 DEF SavedEditsStay
  <2>3. QED
    BY <1>1, <2>1, <2>2 DEF ServerInv, ApprovedWasSeen, Statuses
<1>3. DataInv
  BY <1>1 DEF DataInv
<1>4. DraftInv
  BY <1>1 DEF DraftInv
<1>5. SentInv
  BY <1>1 DEF SentInv
<1>6. QED
  BY <1>2, <1>3, <1>4, <1>5 DEF IInv

LEMMA NextKeeps == IInv /\ [Next]_vars => IInv'
<1> SUFFICES ASSUME IInv, [Next]_vars PROVE IInv'
  OBVIOUS
<1>1. CASE UNCHANGED vars
  <2>1. UNCHANGED server /\ data' = data /\ draft' = draft /\ sent' = sent
    BY <1>1 DEF vars, queries, local, calls
  <2>2. draft' = [u \in Tabs |-> draft'[u]]
    BY <2>1 DEF IInv, DraftInv
  <2>3. QED
    BY <2>1, <2>2, LocalStep
<1>2. ASSUME NEW t \in Tabs, User(t) \/ Network(t) \/ Poll(t)
      PROVE  IInv'
  BY <1>2, UserKeeps, NetworkKeeps
<1>3. ASSUME NEW t \in Tabs, NEW q \in Queries, Answer(t, q)
      PROVE  IInv'
  BY <1>3, AnswerKeeps
<1>4. ASSUME NEW r \in sent, Serve(r)
      PROVE  IInv'
  BY <1>4, ServeKeeps
<1>5. CASE Compute
  BY <1>5, ComputeKeeps
<1>6. QED
  BY <1>1, <1>2, <1>3, <1>4, <1>5 DEF Next

(* The inductive invariant holds in every reachable state.                 *)
THEOREM Invariance == Spec => []IInv
  BY InitInv, NextKeeps, PTL DEF Spec

(* Whatever any number of tabs load, edit, send and give up, in any order, *)
(* each saved revision has all edits of those before it.                   *)
THEOREM NoEditIsOverwritten == Spec => []SavedEditsStay
<1>1. IInv => SavedEditsStay
  BY DEF IInv, ServerInv
<1>2. QED
  BY <1>1, Invariance, PTL

(* approve_review approves what the button's tab displayed, also when the  *)
(* request arrives after its tab has given it up.                          *)
THEOREM ApprovedIsSeen == Spec => []ApprovedWasSeen
<1>1. IInv => ApprovedWasSeen
  BY DEF IInv, ServerInv
<1>2. QED
  BY <1>1, Invariance, PTL
=============================================================================
