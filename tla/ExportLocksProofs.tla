------------------------- MODULE ExportLocksProofs --------------------------
(***************************************************************************)
(* Proofs about ExportLocks, for any requests and any number of threads.   *)
(***************************************************************************)
EXTENDS ExportLocks, FiniteSetTheorems, SequenceTheorems, TLAPS

-----------------------------------------------------------------------------
(* The inductive invariant *)

Holding == {"working", "ready", "sending", "unlock"}

(* The flock is held from the call's work to the unlock, by one request.   *)
LockInv ==
    \A r \in Requests : at[r] \in Holding <=> owner = r

(* A request has a job in the queue exactly while its place says so, and   *)
(* never two.                                                              *)
QueueInv ==
    /\ \A i \in 1..Len(queue) :
          at[queue[i][2]] = IF queue[i][1] = "call" THEN "queued" ELSE "unlock"
    /\ \A i, j \in 1..Len(queue) : queue[i][2] = queue[j][2] => i = j

(* An export waits for its unlock in the queue.                            *)
UnlockInv ==
    \A r \in Requests :
       at[r] = "unlock" => \E i \in 1..Len(queue) : queue[i] = <<"unlock", r>>

(* Only a finished PUT has raised the revision.                            *)
Finished == { r \in Puts : at[r] = "done" }

CountInv == revision <= Cardinality(Finished)

(* Only exports give their thread back and keep the lock.                  *)
ExportInv ==
    \A r \in Requests : at[r] \in {"ready", "sending", "unlock"} => r \in Exports

(* A revision that has no PDF and may still get one has been rendered once *)
(* for each call that lost it; any other at most once more.                *)
BuildInv ==
    \A v \in Revisions :
       renders[v] <= Cardinality(Lost)
                        + (IF v \in cache \/ v < revision THEN 1 ELSE 0)

IInv ==
    /\ TypeOK
    /\ LockInv
    /\ QueueInv
    /\ UnlockInv
    /\ CountInv
    /\ ExportInv
    /\ BytesAreCurrent
    /\ BuildInv

-----------------------------------------------------------------------------
(* Lemmas about sets of requests and about the queue *)

(* Sets of requests are finite, and their sizes are numbers.               *)
LEMMA SetsAreFinite ==
    ASSUME NEW S \in SUBSET Requests
    PROVE  IsFiniteSet(S) /\ Cardinality(S) \in Nat
BY RequestsAssumption, FS_Subset, FS_CardinalityType

(* A set of requests inside another one is not larger.                     *)
LEMMA SmallerSet ==
    ASSUME NEW S \in SUBSET Requests, NEW T \in SUBSET S
    PROVE  Cardinality(T) <= Cardinality(S)
BY SetsAreFinite, FS_Subset

(* One more request makes a set larger by one.                             *)
LEMMA OneMore ==
    ASSUME NEW S \in SUBSET Requests, NEW r \in Requests \ S
    PROVE  Cardinality(S \union {r}) = Cardinality(S) + 1
BY SetsAreFinite, FS_AddElement

(* Appending a job keeps the queue consistent, when the request had none.  *)
LEMMA AppendedJob ==
    ASSUME queue \in Seq(Jobs), NEW r \in Requests, NEW k \in {"call", "unlock"},
           queue' = Append(queue, <<k, r>>)
    PROVE  /\ queue' \in Seq(Jobs)
           /\ Len(queue) \in Nat /\ Len(queue') = Len(queue) + 1
           /\ \A i \in 1..Len(queue) : queue'[i] = queue[i] /\ queue[i] \in Jobs
           /\ queue'[Len(queue')] = <<k, r>>
<1>1. <<k, r>> \in Jobs
  BY DEF Jobs
<1>2. QED
  BY <1>1, AppendProperties, ElementOfSeq, LenProperties

(* Taking the head shifts the others.                                      *)
LEMMA TakenJob ==
    ASSUME queue \in Seq(Jobs), queue # << >>, queue' = Tail(queue)
    PROVE  /\ queue' \in Seq(Jobs)
           /\ Len(queue) \in Nat \ {0} /\ Len(queue') = Len(queue) - 1
           /\ \A i \in 1..Len(queue') : queue'[i] = queue[i + 1]
           /\ \A i \in 1..Len(queue) : queue[i] \in Jobs
           /\ Head(queue) = queue[1]
<1>1. Len(queue) \in Nat \ {0}
  BY LenProperties, EmptySeq
<1>2. QED
  BY <1>1, HeadTailProperties, ElementOfSeq

-----------------------------------------------------------------------------
(* Init and each action preserve the invariant *)

(* What the server starts with satisfies the invariant.                    *)
LEMMA InitIInv == Init => IInv
<1> SUFFICES ASSUME Init PROVE IInv
  OBVIOUS
<1> USE DEF Init
<1>1. Cardinality(Puts) \in Nat /\ Cardinality(Finished) \in Nat
  BY SetsAreFinite DEF Requests, Finished
<1>2. Busy = {} /\ Cardinality(Busy) = 0
  BY FS_EmptySet DEF Busy
<1>3. TypeOK
  BY <1>1, <1>2, WorkersAssumption, RequestsAssumption, EmptySeq
     DEF TypeOK, Places, Revisions
<1>4. LockInv /\ ExportInv /\ UnlockInv /\ BytesAreCurrent
  BY RequestsAssumption
     DEF LockInv, ExportInv, UnlockInv, Holding, BytesAreCurrent, Requests
<1>5. QueueInv /\ BuildInv
  <2>1. Cardinality(Lost) \in Nat
    BY SetsAreFinite DEF Lost
  <2>2. QED
    BY <2>1, EmptySeq DEF QueueInv, BuildInv
<1>6. CountInv
  BY <1>1 DEF CountInv
<1>7. QED
  BY <1>3, <1>4, <1>5, <1>6 DEF IInv

(* A request whose job is in the queue has the place that goes with it; so *)
(* one in another place has none.                                          *)
LEMMA NotInQueue ==
    ASSUME IInv, NEW r \in Requests, at[r] \notin {"queued", "unlock"}
    PROVE  \A i \in 1..Len(queue) : queue[i][2] # r
BY DEF IInv, QueueInv

(* The places of the other requests stay when one moves.                   *)
LEMMA Moved ==
    ASSUME TypeOK, NEW r \in Requests, NEW place \in Places, Go(r, place)
    PROVE  /\ at' \in [Requests -> Places]
           /\ at'[r] = place
           /\ \A q \in Requests : q # r => at'[q] = at[q]
BY DEF TypeOK, Go

(* A request that submits a job: the queue stays consistent.               *)
LEMMA SubmitQueue ==
    ASSUME IInv, NEW r \in Requests, at[r] \notin {"queued", "unlock"},
           NEW k \in {"call", "unlock"}, Submit(k, r),
           Go(r, IF k = "call" THEN "queued" ELSE "unlock")
    PROVE  queue' \in Seq(Jobs) /\ QueueInv' /\ UnlockInv'
<1>1. TypeOK /\ QueueInv /\ UnlockInv /\ queue \in Seq(Jobs)
  BY DEF IInv, TypeOK
<1>2. /\ queue' \in Seq(Jobs)
      /\ Len(queue) \in Nat /\ Len(queue') = Len(queue) + 1
      /\ \A i \in 1..Len(queue) : queue'[i] = queue[i] /\ queue[i] \in Jobs
      /\ queue'[Len(queue')] = <<k, r>>
  BY <1>1, AppendedJob DEF Submit
<1>3. /\ at'[r] = IF k = "call" THEN "queued" ELSE "unlock"
      /\ \A q \in Requests : q # r => at'[q] = at[q]
  BY <1>1 DEF Go, TypeOK
<1>4. \A i \in 1..Len(queue) : queue[i][2] # r /\ queue[i][2] \in Requests
  BY <1>2, NotInQueue DEF Jobs
<1>5. QueueInv'
  <2>1. ASSUME NEW i \in 1..Len(queue')
        PROVE  at'[queue'[i][2]] = IF queue'[i][1] = "call" THEN "queued"
                                                          ELSE "unlock"
    <3>1. CASE i = Len(queue')
      BY <3>1, <1>2, <1>3
    <3>2. CASE i \in 1..Len(queue)
      BY <3>2, <1>1, <1>2, <1>3, <1>4 DEF QueueInv
    <3>3. QED
      BY <3>1, <3>2, <1>2
  <2>2. ASSUME NEW i \in 1..Len(queue'), NEW j \in 1..Len(queue'),
               queue'[i][2] = queue'[j][2]
        PROVE  i = j
    BY <2>2, <1>1, <1>2, <1>4 DEF QueueInv
  <2>3. QED
    BY <2>1, <2>2 DEF QueueInv
<1>6. UnlockInv'
  <2>1. SUFFICES ASSUME NEW q \in Requests, at'[q] = "unlock"
                 PROVE  \E i \in 1..Len(queue') : queue'[i] = <<"unlock", q>>
    BY DEF UnlockInv
  <2>2. CASE q = r
    <3>1. k = "unlock"
      BY <2>1, <2>2, <1>3
    <3>2. QED
      BY <3>1, <2>2, <1>2
  <2>3. CASE q # r
    <3>1. PICK i \in 1..Len(queue) : queue[i] = <<"unlock", q>>
      BY <2>1, <2>3, <1>1, <1>3 DEF UnlockInv
    <3>2. i \in 1..Len(queue') /\ queue'[i] = queue[i]
      BY <1>2
    <3>3. QED
      BY <3>1, <3>2
  <2>4. QED
    BY <2>2, <2>3
<1>7. QED
  BY <1>2, <1>5, <1>6

(* A request whose job a thread takes.                                     *)
LEMMA TakeQueue ==
    ASSUME IInv, NEW r \in Requests, NEW k \in {"call", "unlock"},
           queue # << >>, Head(queue) = <<k, r>>, queue' = Tail(queue),
           NEW place \in {"blocked", "done"}, Go(r, place)
    PROVE  /\ queue' \in Seq(Jobs) /\ QueueInv' /\ UnlockInv'
           /\ at[r] = IF k = "call" THEN "queued" ELSE "unlock"
<1>1. TypeOK /\ QueueInv /\ UnlockInv /\ queue \in Seq(Jobs)
  BY DEF IInv, TypeOK
<1>2. /\ queue' \in Seq(Jobs)
      /\ Len(queue) \in Nat \ {0} /\ Len(queue') = Len(queue) - 1
      /\ \A i \in 1..Len(queue') : queue'[i] = queue[i + 1]
      /\ \A i \in 1..Len(queue) : queue[i] \in Jobs
      /\ queue[1] = <<k, r>>
  BY <1>1, TakenJob
<1>3. /\ at'[r] = place
      /\ \A q \in Requests : q # r => at'[q] = at[q]
  BY <1>1 DEF Go, TypeOK
<1>4. at[r] = IF k = "call" THEN "queued" ELSE "unlock"
  BY <1>1, <1>2 DEF QueueInv
<1>5. \A i \in 2..Len(queue) : queue[i][2] # r /\ queue[i][2] \in Requests
  BY <1>1, <1>2 DEF QueueInv, Jobs
<1>6. QueueInv'
  <2>1. ASSUME NEW i \in 1..Len(queue')
        PROVE  /\ i + 1 \in 2..Len(queue) /\ queue'[i] = queue[i + 1]
               /\ at'[queue'[i][2]] = at[queue[i + 1][2]]
    BY <1>2, <1>3, <1>5
  <2>2. \A i \in 1..Len(queue') :
           at'[queue'[i][2]] = IF queue'[i][1] = "call" THEN "queued" ELSE "unlock"
    BY <2>1, <1>1, <1>2 DEF QueueInv
  <2>3. \A i, j \in 1..Len(queue') : queue'[i][2] = queue'[j][2] => i = j
    BY <2>1, <1>1, <1>2 DEF QueueInv
  <2>4. QED
    BY <2>2, <2>3 DEF QueueInv
<1>7. UnlockInv'
  <2>1. SUFFICES ASSUME NEW q \in Requests, at'[q] = "unlock"
                 PROVE  \E i \in 1..Len(queue') : queue'[i] = <<"unlock", q>>
    BY DEF UnlockInv
  <2>2. q # r /\ at[q] = "unlock"
    BY <2>1, <1>3
  <2>3. PICK i \in 1..Len(queue) : queue[i] = <<"unlock", q>>
    BY <2>2, <1>1 DEF UnlockInv
  <2>4. i # 1
    BY <2>2, <2>3, <1>2
  <2>5. i - 1 \in 1..Len(queue') /\ queue'[i - 1] = queue[i]
    BY <2>4, <1>2
  <2>6. QED
    BY <2>3, <2>5
<1>8. QED
  BY <1>2, <1>4, <1>6, <1>7

(* A request that moves without touching the queue.                        *)
LEMMA SameQueue ==
    ASSUME IInv, NEW r \in Requests, at[r] \notin {"queued", "unlock"},
           NEW place \in Places \ {"unlock"}, Go(r, place), queue' = queue
    PROVE  queue' \in Seq(Jobs) /\ QueueInv' /\ UnlockInv'
<1>1. TypeOK /\ QueueInv /\ UnlockInv /\ queue \in Seq(Jobs)
  BY DEF IInv, TypeOK
<1>2. /\ at'[r] = place
      /\ \A q \in Requests : q # r => at'[q] = at[q]
  BY <1>1 DEF Go, TypeOK
<1>3. \A i \in 1..Len(queue) : queue[i][2] # r /\ queue[i][2] \in Requests
  BY <1>1, NotInQueue, ElementOfSeq, LenProperties DEF Jobs
<1>4. QueueInv'
  BY <1>1, <1>2, <1>3 DEF QueueInv
<1>5. UnlockInv'
  BY <1>1, <1>2 DEF UnlockInv
<1>6. QED
  BY <1>1, <1>4, <1>5

(* The thread count after one request moves.                               *)
LEMMA BusyBound ==
    ASSUME TypeOK, NEW r \in Requests, NEW place \in Places, Go(r, place),
           place \in {"blocked", "working"} =>
              Free \/ at[r] \in {"blocked", "working"}
    PROVE  Cardinality(Busy') <= Workers
<1>1. Busy \in SUBSET Requests /\ Busy' \in SUBSET Requests
  BY DEF Busy
<1>2. Busy' \subseteq Busy \union {r}
  BY DEF TypeOK, Go, Busy
<1>3. /\ Cardinality(Busy) \in Nat /\ Cardinality(Busy') \in Nat
      /\ Cardinality(Busy) <= Workers
  BY <1>1, SetsAreFinite DEF TypeOK
<1>4. CASE Busy' \subseteq Busy
  <2>1. Cardinality(Busy') <= Cardinality(Busy)
    BY <1>1, <1>4, SmallerSet
  <2>2. QED
    BY <1>3, <2>1, WorkersAssumption
<1>5. CASE ~(Busy' \subseteq Busy)
  <2>1. r \notin Busy /\ r \in Busy'
    BY <1>2, <1>5
  <2>2. Free
    BY <2>1 DEF Busy, TypeOK, Go
  <2>3. Cardinality(Busy \union {r}) = Cardinality(Busy) + 1
    BY <1>1, <2>1, OneMore
  <2>4. Cardinality(Busy') <= Cardinality(Busy \union {r})
    BY <1>1, <1>2, SmallerSet
  <2>5. QED
    BY <1>3, <2>2, <2>3, <2>4, WorkersAssumption DEF Free
<1>6. QED
  BY <1>4, <1>5

(* The count of finished PUTs never falls, and grows when one finishes.    *)
LEMMA FinishedCount ==
    ASSUME TypeOK, NEW r \in Requests, NEW place \in Places, Go(r, place),
           at[r] # "done"
    PROVE  /\ Cardinality(Finished) \in Nat /\ Cardinality(Finished') \in Nat
           /\ Cardinality(Finished) <= Cardinality(Finished')
           /\ Cardinality(Finished') <= Cardinality(Puts)
           /\ r \in Puts /\ place = "done" =>
                 Cardinality(Finished') = Cardinality(Finished) + 1
<1>1. /\ Puts \in SUBSET Requests
      /\ Finished \in SUBSET Requests /\ Finished' \in SUBSET Requests
      /\ Finished' \in SUBSET Puts
  BY DEF Finished, Requests
<1>2. Finished \in SUBSET Finished'
  BY DEF TypeOK, Go, Finished
<1>3. Cardinality(Finished) \in Nat /\ Cardinality(Finished') \in Nat
  BY <1>1, SetsAreFinite
<1>4. /\ Cardinality(Finished) <= Cardinality(Finished')
      /\ Cardinality(Finished') <= Cardinality(Puts)
  BY <1>1, <1>2, SmallerSet
<1>5. ASSUME r \in Puts, place = "done"
      PROVE  Cardinality(Finished') = Cardinality(Finished) + 1
  <2>1. Finished' = Finished \union {r} /\ r \notin Finished
    BY <1>5 DEF TypeOK, Go, Finished
  <2>2. QED
    BY <2>1, <1>1, OneMore
<1>6. QED
  BY <1>3, <1>4, <1>5

(* A lost PDF stays counted, and one more call that loses it counts too.   *)
LEMMA LostCount ==
    ASSUME TypeOK, NEW r \in Requests, NEW place \in Places, Go(r, place),
           at[r] # "lost"
    PROVE  /\ Cardinality(Lost) \in Nat /\ Cardinality(Lost') \in Nat
           /\ Cardinality(Lost) <= Cardinality(Lost')
           /\ place = "lost" => Cardinality(Lost') = Cardinality(Lost) + 1
<1>1. Lost \in SUBSET Requests /\ Lost' \in SUBSET Requests
  BY DEF Lost
<1>2. Lost \in SUBSET Lost'
  BY DEF TypeOK, Go, Lost
<1>3. Cardinality(Lost) \in Nat /\ Cardinality(Lost') \in Nat
  BY <1>1, SetsAreFinite
<1>4. Cardinality(Lost) <= Cardinality(Lost')
  BY <1>1, <1>2, SmallerSet
<1>5. ASSUME place = "lost"
      PROVE  Cardinality(Lost') = Cardinality(Lost) + 1
  <2>1. Lost' = Lost \union {r} /\ r \in Requests \ Lost
    BY <1>5 DEF TypeOK, Go, Lost
  <2>2. QED
    BY <2>1, <1>1, OneMore
<1>6. QED
  BY <1>3, <1>4, <1>5

(* A step that renders nothing and drops nothing.                          *)
LEMMA SameBuilds ==
    ASSUME IInv, NEW r \in Requests, NEW place \in Places, Go(r, place),
           at[r] # "lost", UNCHANGED <<cache, renders, revision>>
    PROVE  BuildInv'
<1>1. /\ Cardinality(Lost) \in Nat /\ Cardinality(Lost') \in Nat
      /\ Cardinality(Lost) <= Cardinality(Lost')
  BY LostCount DEF IInv
<1>2. /\ \A v \in Revisions : renders[v] \in Nat
      /\ Revisions' = Revisions
  BY DEF IInv, TypeOK, Revisions
<1>3. QED
  BY <1>1, <1>2 DEF IInv, BuildInv

(* A request arrives.                                                      *)
LEMMA ArriveStep ==
    ASSUME IInv, NEW r \in Requests, Arrive(r)
    PROVE  IInv'
<1> USE DEF Arrive, pdfs
<1>1. TypeOK /\ at[r] = "new" /\ Go(r, "queued")
  BY DEF IInv
<1>2. /\ at' \in [Requests -> Places] /\ at'[r] = "queued"
      /\ \A q \in Requests : q # r => at'[q] = at[q]
  BY <1>1, Moved DEF Places
<1>3. /\ Cardinality(Finished) \in Nat /\ Cardinality(Finished') \in Nat
      /\ Cardinality(Finished) <= Cardinality(Finished')
      /\ Cardinality(Finished') <= Cardinality(Puts)
  BY <1>1, FinishedCount DEF Places
<1>4. Cardinality(Busy') <= Workers
  BY <1>1, BusyBound DEF Places
<1>5. queue' \in Seq(Jobs) /\ QueueInv' /\ UnlockInv'
  BY <1>1, SubmitQueue
<1>6. TypeOK'
  BY <1>1, <1>2, <1>4, <1>5, RequestsAssumption DEF TypeOK
<1>7. LockInv'
  BY <1>1, <1>2, RequestsAssumption DEF IInv, LockInv, Holding
<1>8. CountInv'
  BY <1>2, <1>3 DEF IInv, CountInv, TypeOK, Revisions
<1>9. ExportInv'
  BY <1>1, <1>2 DEF IInv, ExportInv
<1>10. BytesAreCurrent'
  BY <1>1, <1>2 DEF IInv, BytesAreCurrent, Requests
<1>11. BuildInv'
  BY <1>1, SameBuilds DEF Places
<1>12. QED
  BY <1>5, <1>6, <1>7, <1>8, <1>9, <1>10, <1>11 DEF IInv

(* A thread takes a call.                                                  *)
LEMMA TakeCallStep ==
    ASSUME IInv, NEW r \in Requests, TakeCall(r)
    PROVE  IInv'
<1> USE DEF TakeCall, pdfs
<1>1. TypeOK /\ at[r] = "queued" /\ Go(r, "blocked")
  BY TakeQueue DEF IInv
<1>2. /\ at' \in [Requests -> Places] /\ at'[r] = "blocked"
      /\ \A q \in Requests : q # r => at'[q] = at[q]
  BY <1>1, Moved DEF Places
<1>3. /\ Cardinality(Finished) \in Nat /\ Cardinality(Finished') \in Nat
      /\ Cardinality(Finished) <= Cardinality(Finished')
      /\ Cardinality(Finished') <= Cardinality(Puts)
  BY <1>1, FinishedCount DEF Places
<1>4. Cardinality(Busy') <= Workers
  BY <1>1, BusyBound DEF Places
<1>5. queue' \in Seq(Jobs) /\ QueueInv' /\ UnlockInv'
  BY <1>1, TakeQueue
<1>6. TypeOK'
  BY <1>1, <1>2, <1>4, <1>5, RequestsAssumption DEF TypeOK
<1>7. LockInv'
  BY <1>1, <1>2, RequestsAssumption DEF IInv, LockInv, Holding
<1>8. CountInv'
  BY <1>2, <1>3 DEF IInv, CountInv, TypeOK, Revisions
<1>9. ExportInv'
  BY <1>1, <1>2 DEF IInv, ExportInv
<1>10. BytesAreCurrent'
  BY <1>1, <1>2 DEF IInv, BytesAreCurrent, Requests
<1>11. BuildInv'
  BY <1>1, SameBuilds DEF Places
<1>12. QED
  BY <1>5, <1>6, <1>7, <1>8, <1>9, <1>10, <1>11 DEF IInv

(* The response starts.                                                    *)
LEMMA RespondStep ==
    ASSUME IInv, NEW r \in Requests, Respond(r)
    PROVE  IInv'
<1> USE DEF Respond, pdfs
<1>1. TypeOK /\ at[r] = "ready" /\ Go(r, "sending")
  BY DEF IInv
<1>2. /\ at' \in [Requests -> Places] /\ at'[r] = "sending"
      /\ \A q \in Requests : q # r => at'[q] = at[q]
  BY <1>1, Moved DEF Places
<1>3. /\ Cardinality(Finished) \in Nat /\ Cardinality(Finished') \in Nat
      /\ Cardinality(Finished) <= Cardinality(Finished')
      /\ Cardinality(Finished') <= Cardinality(Puts)
  BY <1>1, FinishedCount DEF Places
<1>4. Cardinality(Busy') <= Workers
  BY <1>1, BusyBound DEF Places
<1>5. queue' \in Seq(Jobs) /\ QueueInv' /\ UnlockInv'
  BY <1>1, SameQueue DEF Places
<1>6. TypeOK'
  BY <1>1, <1>2, <1>4, <1>5, RequestsAssumption DEF TypeOK
<1>7. LockInv'
  BY <1>1, <1>2, RequestsAssumption DEF IInv, LockInv, Holding
<1>8. CountInv'
  BY <1>2, <1>3 DEF IInv, CountInv, TypeOK, Revisions
<1>9. ExportInv'
  BY <1>1, <1>2 DEF IInv, ExportInv
<1>10. BytesAreCurrent'
  BY <1>1, <1>2 DEF IInv, BytesAreCurrent, Requests
<1>11. BuildInv'
  BY <1>1, SameBuilds DEF Places
<1>12. QED
  BY <1>5, <1>6, <1>7, <1>8, <1>9, <1>10, <1>11 DEF IInv

(* A cancelled export submits its unlock.                                  *)
LEMMA ReleaseAbandonedStep ==
    ASSUME IInv, NEW r \in Requests, ReleaseAbandoned(r)
    PROVE  IInv'
<1> USE DEF ReleaseAbandoned, pdfs
<1>1. TypeOK /\ at[r] = "ready" /\ Go(r, "unlock")
  BY DEF IInv
<1>2. /\ at' \in [Requests -> Places] /\ at'[r] = "unlock"
      /\ \A q \in Requests : q # r => at'[q] = at[q]
  BY <1>1, Moved DEF Places
<1>3. /\ Cardinality(Finished) \in Nat /\ Cardinality(Finished') \in Nat
      /\ Cardinality(Finished) <= Cardinality(Finished')
      /\ Cardinality(Finished') <= Cardinality(Puts)
  BY <1>1, FinishedCount DEF Places
<1>4. Cardinality(Busy') <= Workers
  BY <1>1, BusyBound DEF Places
<1>5. queue' \in Seq(Jobs) /\ QueueInv' /\ UnlockInv'
  BY <1>1, SubmitQueue
<1>6. TypeOK'
  BY <1>1, <1>2, <1>4, <1>5, RequestsAssumption DEF TypeOK
<1>7. LockInv'
  BY <1>1, <1>2, RequestsAssumption DEF IInv, LockInv, Holding
<1>8. CountInv'
  BY <1>2, <1>3 DEF IInv, CountInv, TypeOK, Revisions
<1>9. ExportInv'
  BY <1>1, <1>2 DEF IInv, ExportInv
<1>10. BytesAreCurrent'
  BY <1>1, <1>2 DEF IInv, BytesAreCurrent, Requests
<1>11. BuildInv'
  BY <1>1, SameBuilds DEF Places
<1>12. QED
  BY <1>5, <1>6, <1>7, <1>8, <1>9, <1>10, <1>11 DEF IInv

(* The bytes are sent, the unlock is submitted.                            *)
LEMMA SendStep ==
    ASSUME IInv, NEW r \in Requests, Send(r)
    PROVE  IInv'
<1> USE DEF Send, pdfs
<1>1. TypeOK /\ at[r] = "sending" /\ Go(r, "unlock")
  BY DEF IInv
<1>2. /\ at' \in [Requests -> Places] /\ at'[r] = "unlock"
      /\ \A q \in Requests : q # r => at'[q] = at[q]
  BY <1>1, Moved DEF Places
<1>3. /\ Cardinality(Finished) \in Nat /\ Cardinality(Finished') \in Nat
      /\ Cardinality(Finished) <= Cardinality(Finished')
      /\ Cardinality(Finished') <= Cardinality(Puts)
  BY <1>1, FinishedCount DEF Places
<1>4. Cardinality(Busy') <= Workers
  BY <1>1, BusyBound DEF Places
<1>5. queue' \in Seq(Jobs) /\ QueueInv' /\ UnlockInv'
  BY <1>1, SubmitQueue
<1>6. TypeOK'
  BY <1>1, <1>2, <1>4, <1>5, RequestsAssumption DEF TypeOK
<1>7. LockInv'
  BY <1>1, <1>2, RequestsAssumption DEF IInv, LockInv, Holding
<1>8. CountInv'
  BY <1>2, <1>3 DEF IInv, CountInv, TypeOK, Revisions
<1>9. ExportInv'
  BY <1>1, <1>2 DEF IInv, ExportInv
<1>10. BytesAreCurrent'
  BY <1>1, <1>2 DEF IInv, BytesAreCurrent, Requests
<1>11. BuildInv'
  BY <1>1, SameBuilds DEF Places
<1>12. QED
  BY <1>5, <1>6, <1>7, <1>8, <1>9, <1>10, <1>11 DEF IInv

(* A call gets the flock: nobody else is under it.                         *)
LEMMA LockStep ==
    ASSUME IInv, NEW r \in Requests, Lock(r)
    PROVE  IInv'
<1> USE DEF Lock, pdfs
<1>1. TypeOK /\ at[r] = "blocked" /\ Go(r, "working")
  BY DEF IInv
<1>2. /\ at' \in [Requests -> Places] /\ at'[r] = "working"
      /\ \A q \in Requests : q # r => at'[q] = at[q]
  BY <1>1, Moved DEF Places
<1>3. /\ Cardinality(Finished) \in Nat /\ Cardinality(Finished') \in Nat
      /\ Cardinality(Finished) <= Cardinality(Finished')
      /\ Cardinality(Finished') <= Cardinality(Puts)
  BY <1>1, FinishedCount DEF Places
<1>4. Cardinality(Busy') <= Workers
  BY <1>1, BusyBound DEF Places
<1>5. queue' \in Seq(Jobs) /\ QueueInv' /\ UnlockInv'
  BY <1>1, SameQueue DEF Places
<1>6. TypeOK'
  BY <1>1, <1>2, <1>4, <1>5, RequestsAssumption DEF TypeOK
<1>7. LockInv'
  BY <1>1, <1>2, RequestsAssumption DEF IInv, LockInv, Holding
<1>8. CountInv'
  BY <1>2, <1>3 DEF IInv, CountInv, TypeOK, Revisions
<1>9. ExportInv'
  BY <1>1, <1>2 DEF IInv, ExportInv
<1>10. BytesAreCurrent'
  BY <1>1, <1>2 DEF IInv, BytesAreCurrent, Requests
<1>11. BuildInv'
  BY <1>1, SameBuilds DEF Places
<1>12. QED
  BY <1>5, <1>6, <1>7, <1>8, <1>9, <1>10, <1>11 DEF IInv

(* A rendering is owed to a lost PDF, or is the first, and is stored; one  *)
(* that is not stored is lost itself.                                      *)
LEMMA Rendered ==
    ASSUME IInv, NEW r \in Requests, NEW place \in Places, Go(r, place),
           at[r] # "lost", revision' = revision,
           \/ revision \in cache /\ UNCHANGED renders
           \/ revision \notin cache /\ Render,
           cache' = cache \union {revision} \/ (place = "lost" /\ cache' = cache)
    PROVE  BuildInv' /\ cache' \subseteq Revisions /\ renders' \in [Revisions -> Nat]
<1>1. /\ Cardinality(Lost) \in Nat /\ Cardinality(Lost') \in Nat
      /\ Cardinality(Lost) <= Cardinality(Lost')
      /\ place = "lost" => Cardinality(Lost') = Cardinality(Lost) + 1
  BY LostCount DEF IInv
<1>2. /\ revision \in Revisions /\ revision \in Nat /\ Revisions' = Revisions
      /\ cache \subseteq Revisions /\ renders \in [Revisions -> Nat]
  BY DEF IInv, TypeOK, Revisions
<1>3. cache' \subseteq Revisions /\ renders' \in [Revisions -> Nat]
  <2>1. renders[revision] + 1 \in Nat
    BY <1>2
  <2>2. renders' \in [Revisions -> Nat]
    BY <1>2, <2>1 DEF Render
  <2>3. QED
    BY <1>2, <2>2
<1>4. ASSUME NEW v \in Revisions
      PROVE  renders'[v] <= Cardinality(Lost')
                + (IF v \in cache' \/ v < revision THEN 1 ELSE 0)
  <2>1. /\ renders[v] \in Nat
        /\ renders[v] <= Cardinality(Lost)
                + (IF v \in cache \/ v < revision THEN 1 ELSE 0)
    BY <1>2 DEF IInv, BuildInv
  <2>2. CASE v # revision
    BY <2>1, <2>2, <1>1, <1>2 DEF Render
  <2>3. CASE v = revision
    <3>1. CASE revision \in cache /\ UNCHANGED renders
      BY <3>1, <2>1, <2>3, <1>1, <1>2
    <3>2. CASE revision \notin cache /\ Render
      <4>1. renders'[v] = renders[v] + 1 /\ renders[v] <= Cardinality(Lost)
        BY <3>2, <2>1, <2>3, <1>1, <1>2 DEF Render
      <4>2. QED
        BY <4>1, <2>1, <2>3, <1>1
    <3>3. QED
      BY <3>1, <3>2
  <2>4. QED
    BY <2>2, <2>3
<1>5. QED
  BY <1>2, <1>3, <1>4 DEF BuildInv

(* The PDF is there, of the current revision of an approved meeting.       *)
LEMMA PrepareStep ==
    ASSUME IInv, NEW r \in Requests, Prepare(r)
    PROVE  IInv'
<1> USE DEF Prepare
<1>1. TypeOK /\ at[r] = "working" /\ Go(r, "ready")
  BY DEF IInv
<1>2. /\ at' \in [Requests -> Places] /\ at'[r] = "ready"
      /\ \A q \in Requests : q # r => at'[q] = at[q]
  BY <1>1, Moved DEF Places
<1>3. /\ Cardinality(Finished) \in Nat /\ Cardinality(Finished') \in Nat
      /\ Cardinality(Finished) <= Cardinality(Finished')
      /\ Cardinality(Finished') <= Cardinality(Puts)
  BY <1>1, FinishedCount DEF Places
<1>4. Cardinality(Busy') <= Workers
  BY <1>1, BusyBound DEF Places
<1>5. queue' \in Seq(Jobs) /\ QueueInv' /\ UnlockInv'
  BY <1>1, SameQueue DEF Places
<1>6. BuildInv' /\ cache' \subseteq Revisions /\ renders' \in [Revisions -> Nat]
  BY <1>1, Rendered DEF Places
<1>7. TypeOK'
  BY <1>1, <1>2, <1>4, <1>5, <1>6, RequestsAssumption DEF TypeOK
<1>8. LockInv'
  BY <1>1, <1>2, RequestsAssumption DEF IInv, LockInv, Holding
<1>9. CountInv'
  BY <1>2, <1>3 DEF IInv, CountInv, TypeOK, Revisions
<1>10. ExportInv'
  BY <1>1, <1>2 DEF IInv, ExportInv
<1>11. BytesAreCurrent'
  <2>1. payload'[r] = revision /\ \A q \in Exports : q # r => payload'[q] = payload[q]
    BY <1>1 DEF TypeOK
  <2>2. QED
    BY <1>2, <2>1 DEF IInv, BytesAreCurrent, Requests
<1>12. QED
  BY <1>5, <1>6, <1>7, <1>8, <1>9, <1>10, <1>11 DEF IInv

(* A call ends in its thread, alone under the flock.                       *)
LEMMA LeaveStep ==
    ASSUME IInv, NEW r \in Requests, NEW place \in {"done", "lost"},
           Leave(r, place), UNCHANGED payload, approved' \in BOOLEAN,
           \/ revision' = revision
           \/ r \in Puts /\ place = "done" /\ revision' = revision + 1,
           cache' \subseteq Revisions, renders' \in [Revisions -> Nat], BuildInv'
    PROVE  IInv'
<1> USE DEF Leave
<1>1. TypeOK /\ at[r] = "working" /\ Go(r, place) /\ queue' = queue /\ owner' = None
  BY DEF IInv
<1>2. /\ at' \in [Requests -> Places] /\ at'[r] = place
      /\ \A q \in Requests : q # r => at'[q] = at[q]
  BY <1>1, Moved DEF Places
<1>3. /\ Cardinality(Finished) \in Nat /\ Cardinality(Finished') \in Nat
      /\ Cardinality(Finished) <= Cardinality(Finished')
      /\ Cardinality(Finished') <= Cardinality(Puts)
      /\ r \in Puts /\ place = "done" =>
            Cardinality(Finished') = Cardinality(Finished) + 1
  BY <1>1, FinishedCount DEF Places
<1>4. Cardinality(Busy') <= Workers
  BY <1>1, BusyBound DEF Places
<1>5. queue' \in Seq(Jobs) /\ QueueInv' /\ UnlockInv'
  BY <1>1, SameQueue DEF Places
<1>6. owner = r /\ \A q \in Requests : at'[q] \notin Holding
  BY <1>1, <1>2 DEF IInv, LockInv, Holding
<1>7. LockInv' /\ ExportInv' /\ BytesAreCurrent'
  BY <1>1, <1>6, RequestsAssumption
     DEF LockInv, ExportInv, BytesAreCurrent, Holding, Requests
<1>8. revision' \in Nat /\ CountInv'
  BY <1>1, <1>3 DEF IInv, CountInv, TypeOK, Revisions
<1>9. TypeOK'
  <2>1. revision' \in Revisions
    BY <1>3, <1>8, SetsAreFinite DEF CountInv, Revisions, Requests
  <2>2. QED
    BY <1>1, <1>2, <1>4, <1>5, <2>1 DEF TypeOK
<1>10. QED
  BY <1>5, <1>7, <1>8, <1>9 DEF IInv

(* A call is refused, or fails and leaves all as it was.                   *)
LEMMA RefuseStep ==
    ASSUME IInv, NEW r \in Requests, Refuse(r)
    PROVE  IInv'
<1>1. BuildInv'
  BY SameBuilds DEF Refuse, Leave, pdfs, Places
<1>2. QED
  BY <1>1, LeaveStep DEF Refuse, pdfs, IInv, TypeOK

(* A PUT commits: the revision whose PDF it drops is never rendered again. *)
LEMMA PutReviewStep ==
    ASSUME IInv, NEW r \in Requests, PutReview(r)
    PROVE  IInv'
<1>1. /\ Cardinality(Lost) \in Nat /\ Cardinality(Lost') \in Nat
      /\ Cardinality(Lost) <= Cardinality(Lost')
  BY LostCount DEF PutReview, Leave, IInv, Places
<1>2. /\ revision \in Nat /\ Revisions' = Revisions /\ Revisions \subseteq Nat
      /\ cache \subseteq Revisions /\ renders \in [Revisions -> Nat]
  BY DEF IInv, TypeOK, Revisions
<1>3. ASSUME NEW v \in Revisions
      PROVE  v \in cache \/ v < revision => v \in cache' \/ v < revision'
  BY <1>2 DEF PutReview
<1>4. BuildInv'
  BY <1>1, <1>2, <1>3 DEF IInv, BuildInv, PutReview
<1>5. QED
  BY <1>2, <1>4, LeaveStep DEF PutReview

(* A PUT drops the PDF and fails: it counts among those that lost one.     *)
LEMMA PutFailsStep ==
    ASSUME IInv, NEW r \in Requests, PutFails(r)
    PROVE  IInv'
<1>1. /\ Cardinality(Lost) \in Nat
      /\ Cardinality(Lost') = Cardinality(Lost) + 1
  BY LostCount DEF PutFails, Leave, IInv, Places
<1>2. /\ Revisions' = Revisions
      /\ cache \subseteq Revisions /\ renders \in [Revisions -> Nat]
  BY DEF IInv, TypeOK, Revisions
<1>3. BuildInv'
  BY <1>1, <1>2 DEF IInv, BuildInv, PutFails
<1>4. QED
  BY <1>2, <1>3, LeaveStep DEF PutFails, IInv, TypeOK

(* An approval ends.                                                       *)
LEMMA ApproveStep ==
    ASSUME IInv, NEW r \in Requests, Approve(r)
    PROVE  IInv'
<1>1. BuildInv'
  BY SameBuilds DEF Approve, Leave, pdfs, Places
<1>2. QED
  BY <1>1, LeaveStep DEF Approve, pdfs, IInv, TypeOK

(* An export fails after it has rendered the PDF: the PDF is stored, or    *)
(* the export counts among those that lost one.                            *)
LEMMA PrepareFailsStep ==
    ASSUME IInv, NEW r \in Requests, PrepareFails(r)
    PROVE  IInv'
<1>1. PICK place \in {"done", "lost"} :
         /\ Leave(r, place)
         /\ cache' = cache \union {revision} \/ (place = "lost" /\ cache' = cache)
  BY DEF PrepareFails
<1>2. BuildInv' /\ cache' \subseteq Revisions /\ renders' \in [Revisions -> Nat]
  BY <1>1, Rendered DEF PrepareFails, Leave, Places
<1>3. QED
  BY <1>1, <1>2, LeaveStep DEF PrepareFails, IInv, TypeOK

(* The unlock runs: its request held the flock, so nobody else did.        *)
LEMMA TakeUnlockStep ==
    ASSUME IInv, NEW r \in Requests, TakeUnlock(r)
    PROVE  IInv'
<1> USE DEF TakeUnlock, pdfs
<1>1. TypeOK /\ at[r] = "unlock" /\ Go(r, "done")
  BY TakeQueue DEF IInv
<1>2. /\ at' \in [Requests -> Places] /\ at'[r] = "done"
      /\ \A q \in Requests : q # r => at'[q] = at[q]
  BY <1>1, Moved DEF Places
<1>3. r \notin Puts
  BY <1>1, RequestsAssumption DEF IInv, ExportInv
<1>4. Cardinality(Finished) \in Nat /\ Cardinality(Finished') \in Nat
      /\ Cardinality(Finished) <= Cardinality(Finished')
      /\ Cardinality(Finished') <= Cardinality(Puts)
  BY <1>1, FinishedCount DEF Places
<1>5. Cardinality(Busy') <= Workers
  BY <1>1, BusyBound DEF Places
<1>6. queue' \in Seq(Jobs) /\ QueueInv' /\ UnlockInv'
  BY <1>1, TakeQueue
<1>7. \A q \in Requests : at'[q] \notin Holding
  BY <1>1, <1>2 DEF IInv, LockInv, Holding
<1>8. LockInv' /\ ExportInv' /\ BytesAreCurrent'
  BY <1>7, RequestsAssumption
     DEF LockInv, ExportInv, BytesAreCurrent, Holding, Requests
<1>9. TypeOK'
  BY <1>1, <1>2, <1>5, <1>6 DEF TypeOK
<1>10. CountInv'
  BY <1>1, <1>4 DEF IInv, CountInv, TypeOK, Revisions
<1>11. BuildInv'
  BY <1>1, SameBuilds DEF Places
<1>12. QED
  BY <1>6, <1>8, <1>9, <1>10, <1>11 DEF IInv

(* A client goes away: only that is recorded.                              *)
LEMMA CancelStep ==
    ASSUME IInv, NEW r \in Requests, Cancel(r)
    PROVE  IInv'
<1> USE DEF Cancel, pdfs
<1>1. Busy' = Busy /\ Finished' = Finished /\ Lost' = Lost
  BY DEF Busy, Finished, Lost
<1>2. TypeOK'
  BY <1>1 DEF IInv, TypeOK
<1>3. LockInv' /\ QueueInv' /\ UnlockInv' /\ ExportInv'
  BY DEF IInv, LockInv, QueueInv, UnlockInv, ExportInv
<1>4. CountInv' /\ BytesAreCurrent' /\ BuildInv'
  BY <1>1 DEF IInv, CountInv, BytesAreCurrent, BuildInv
<1>5. QED
  BY <1>2, <1>3, <1>4 DEF IInv

(* Every step preserves the invariant.                                     *)
LEMMA NextIInv == IInv /\ [Next]_vars => IInv'
<1> SUFFICES ASSUME IInv, [Next]_vars PROVE IInv'
  OBVIOUS
<1>1. CASE UNCHANGED vars
  <2>1. Busy' = Busy /\ Finished' = Finished /\ Lost' = Lost
    BY <1>1 DEF vars, Busy, Finished, Lost
  <2>2. TypeOK' /\ CountInv'
    BY <1>1, <2>1 DEF vars, IInv, TypeOK, CountInv
  <2>3. LockInv' /\ QueueInv' /\ UnlockInv' /\ ExportInv'
    BY <1>1 DEF vars, IInv, LockInv, QueueInv, UnlockInv, ExportInv
  <2>4. BytesAreCurrent' /\ BuildInv'
    BY <1>1, <2>1 DEF vars, IInv, BytesAreCurrent, BuildInv
  <2>5. QED
    BY <2>2, <2>3, <2>4 DEF IInv
<1>2. ASSUME NEW r \in Requests, Arrive(r) \/ Cancel(r) PROVE IInv'
  BY <1>2, ArriveStep, CancelStep
<1>3. ASSUME NEW r \in Requests, Serve(r) PROVE IInv'
  BY <1>3, TakeCallStep, TakeUnlockStep, LockStep, RefuseStep, PutReviewStep,
     PutFailsStep, ApproveStep, PrepareStep, PrepareFailsStep, RespondStep, ReleaseAbandonedStep, SendStep
     DEF Serve
<1>4. QED
  BY <1>1, <1>2, <1>3 DEF Next

(* The inductive invariant holds in every reachable state.                 *)
THEOREM Invariance == Spec => []IInv
BY InitIInv, NextIInv, PTL DEF Spec

-----------------------------------------------------------------------------
(* The theorems *)

(* Type correctness: whatever arrives, a PUT commits at most once and no   *)
(* more calls run than there are threads.                                  *)
THEOREM Typing == Spec => []TypeOK
<1>1. IInv => TypeOK
  BY DEF IInv
<1>2. QED
  BY <1>1, Invariance, PTL

(* From the moment an export's PDF is ready until it is sent, no PUT and   *)
(* no approval changes the meeting: the client gets the current, approved  *)
(* revision, however many requests and threads there are.                  *)
THEOREM SentIsCurrent == Spec => []BytesAreCurrent
<1>1. IInv => BytesAreCurrent
  BY DEF IInv
<1>2. QED
  BY <1>1, Invariance, PTL

(* The PDF of a revision is created once, and once more only for each call *)
(* that failed and left the approved revision without it.                  *)
THEOREM BuiltOnce == Spec => []PDFBuiltOnce
<1>1. IInv => PDFBuiltOnce
  <2>1. SUFFICES ASSUME IInv, NEW v \in Revisions
                 PROVE  renders[v] <= 1 + Cardinality(Lost)
    BY DEF PDFBuiltOnce
  <2>2. Cardinality(Lost) \in Nat /\ renders[v] \in Nat
    BY <2>1, SetsAreFinite DEF Lost, IInv, TypeOK
  <2>3. QED
    BY <2>1, <2>2 DEF IInv, BuildInv
<1>2. QED
  BY <1>1, Invariance, PTL

(* The flock is never left without an owner that will release it: what     *)
(* keeps everyone waiting when the threads run out is the unlock that      *)
(* waits in the queue, not a lost lock.                                    *)
THEOREM LockIsOwned == Spec => []LockHasAnOwner
<1>1. IInv => LockHasAnOwner
  <2>1. SUFFICES ASSUME IInv, owner # None PROVE LockHasAnOwner
    BY DEF LockHasAnOwner
  <2>2. owner \in Requests /\ at[owner] \in Holding /\ queue \in Seq(Jobs)
    BY <2>1 DEF IInv, TypeOK, LockInv
  <2>3. DOMAIN queue = 1..Len(queue)
    BY <2>2, LenProperties
  <2>4. QED
    BY <2>1, <2>2, <2>3 DEF IInv, UnlockInv, LockHasAnOwner, Holding
<1>2. QED
  BY <1>1, Invariance, PTL
=============================================================================
