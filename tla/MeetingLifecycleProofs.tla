----------------------- MODULE MeetingLifecycleProofs -----------------------
(***************************************************************************)
(* Proofs about MeetingLifecycle, for any meetings, any number of attempts *)
(* and faults: type correctness, the truth of cleanup_status, one run per  *)
(* attempt, and that what GET shows follows MeetingContract.               *)
(***************************************************************************)
EXTENDS MeetingLifecycle, TLAPS

-----------------------------------------------------------------------------
(* The inductive invariant: what is true of each meeting, said of its      *)
(* record r, its manifest, its jobs g at the GPU service with their runs,  *)
(* its place p, and so on                                                  *)

Last(r) == Len(r.jobs)

(* An attempt was sent only after submit_started was saved, is known only  *)
(* when it has a job, and is called clean only when the job is, or when    *)
(* nothing was sent before the deadline and so nothing ever will be.       *)
AttemptInv(j, g, passed) ==
    /\ ~j.started => ~j.bound /\ g.status = "none"
    /\ j.bound => g.status \in Known \union {"forgotten"}
    /\ j.cleanup # "pending" =>
          \/ j.bound /\ g.clean # "pending"
          \/ ~j.started /\ passed

(* The GPU service runs a key once, and forgets it only after the deadline. *)
JobInv(g, run, passed) ==
    /\ run <= 1
    /\ g.status \in {"none", "sent", "reserved"} => run = 0
    /\ g.status = "running" => g.clean = "pending"
    /\ g.status = "forgotten" => g.clean # "pending" /\ passed

GPUInv(r, gs, rs, passed) ==
    \A a \in Attempts :
       /\ JobInv(gs[a], rs[a], passed)
       /\ a \in 1..Last(r) => AttemptInv(r.jobs[a], gs[a], passed)
       /\ a > Last(r) => gs[a].status = "none"

(* What the record claims to be clean is; results are of a job that is     *)
(* known, and a record that says ready too early still owes an ACK.        *)
RecordInv(r, published, file) ==
    /\ r.local # "pending" => ~file
    /\ r.cleanup # "pending" =>
          /\ r.local # "pending"
          /\ \A a \in 1..Last(r) : r.jobs[a].cleanup # "pending"
    /\ published <= Last(r)
    /\ published = Last(r) => r.jobs[Last(r)].bound
    /\ r.status \in Ready /\ published # Last(r) => r.jobs[Last(r)].ack

(* What the steps before each place of a step have saved.                  *)
PlaceInv(r, published, gs, p) ==
    /\ p \in {"lookup", "source", "submit", "fetch", "record"} =>
          r.status = "processing"
    /\ p = "submit" => /\ r.jobs[Last(r)].started
                       /\ gs[Last(r)].status # "forgotten"
    /\ p \in {"fetch", "record", "manifest"} => r.jobs[Last(r)].bound
    /\ p = "manifest" => r.status = "review_required"
    /\ p \in {"cleanup", "ack"} => published = Last(r)

MeetingInv(m) ==
    /\ GPUInv(record[m], gpu[m], runs[m], deadline[m])
    /\ RecordInv(record[m], manifest[m], upload[m])
    /\ PlaceInv(record[m], manifest[m], gpu[m], pc[m])
    /\ life[m] = "absent" => record[m] = NewRecord

(* Only meetings that are there are swept or processed, and a DELETE that  *)
(* waits for the tick keeps its meeting as it was when it was checked.     *)
BusyInv(m) ==
    /\ m \in todo \/ pc[m] # "idle" => life[m] # "absent"
    /\ m \in deleting => /\ life[m] = "stored" /\ pc[m] = "idle"
                         /\ Shown(m) \in Ready \union {"failed"}

IInv ==
    /\ TypeOK
    /\ \A m \in Meetings : MeetingInv(m) /\ BusyInv(m)
-----------------------------------------------------------------------------
(* Records *)

Statuses == {"queued", "processing", "failed"} \union Ready

LEMMA RecordIntro ==
    ASSUME NEW s \in Statuses, NEW l \in CleanupStatus, NEW c \in CleanupStatus,
           NEW n \in Attempts, NEW js \in [1..n -> Job]
    PROVE  /\ [status |-> s, local |-> l, cleanup |-> c, jobs |-> js] \in Record
           /\ Len(js) = n
<1>1. Len(js) = n
  BY DEF Attempts
<1>2. js \in UNION { [1..k -> Job] : k \in Attempts }
  OBVIOUS
<1>3. QED
  BY <1>1, <1>2 DEF Record, Statuses

LEMMA RecordFacts ==
    ASSUME NEW r \in Record
    PROVE  /\ r.status \in Statuses
           /\ r.local \in CleanupStatus /\ r.cleanup \in CleanupStatus
           /\ Last(r) \in Attempts
           /\ r.jobs \in [1..Last(r) -> Job]
           /\ Last(r) \in 1..Last(r) /\ r.jobs[Last(r)] \in Job
           /\ r = [status |-> r.status, local |-> r.local,
                   cleanup |-> r.cleanup, jobs |-> r.jobs]
<1>1. PICK n \in Attempts : r.jobs \in [1..n -> Job]
  BY DEF Record
<1>2. Len(r.jobs) = n
  BY <1>1 DEF Attempts
<1>3. Last(r) \in 1..Last(r)
  BY <1>2 DEF Attempts, Last
<1>4. QED
  BY <1>1, <1>2, <1>3 DEF Record, Statuses, Last

(* q is r with the status s and the current job j.                         *)
Edits(q, r, s, j) ==
    /\ q \in Record
    /\ q.status = s /\ q.local = r.local /\ q.cleanup = r.cleanup
    /\ Last(q) = Last(r)
    /\ q.jobs[Last(r)] = j
    /\ \A a \in 1..Last(r) : a # Last(r) => q.jobs[a] = r.jobs[a]

LEMMA EditFacts ==
    ASSUME NEW r \in Record, NEW s \in Statuses, NEW j \in Job
    PROVE  Edits([status |-> s, local |-> r.local, cleanup |-> r.cleanup,
                  jobs |-> [r.jobs EXCEPT ![Last(r)] = j]], r, s, j)
<1> DEFINE js == [r.jobs EXCEPT ![Last(r)] = j]
<1>1. Last(r) \in Attempts /\ r.jobs \in [1..Last(r) -> Job]
      /\ Last(r) \in 1..Last(r)
      /\ r.local \in CleanupStatus /\ r.cleanup \in CleanupStatus
  BY RecordFacts
<1>2. js \in [1..Last(r) -> Job]
  BY <1>1
<1>3. /\ js[Last(r)] = j
      /\ \A a \in 1..Last(r) : a # Last(r) => js[a] = r.jobs[a]
  BY <1>1
<1> HIDE DEF js
<1>4. /\ [status |-> s, local |-> r.local, cleanup |-> r.cleanup, jobs |-> js]
             \in Record
      /\ Len(js) = Last(r)
  BY <1>1, <1>2, RecordIntro
<1>5. Edits([status |-> s, local |-> r.local, cleanup |-> r.cleanup, jobs |-> js],
            r, s, j)
  BY <1>3, <1>4 DEF Edits, Last
<1>6. QED
  BY <1>5 DEF js

LEMMA EditStatus ==
    ASSUME NEW r \in Record, NEW s \in Statuses
    PROVE  Edits([r EXCEPT !.status = s], r, s, r.jobs[Last(r)])
BY RecordFacts DEF Edits, Last, Record, Statuses

LEMMA EditJobs ==
    ASSUME NEW r \in Record, NEW js
    PROVE  [r EXCEPT !.jobs = js] =
              [status |-> r.status, local |-> r.local, cleanup |-> r.cleanup,
               jobs |-> js]
BY DEF Record

LEMMA EditJob ==
    ASSUME NEW r \in Record, NEW j \in Job
    PROVE  Edits([r EXCEPT !.jobs[Last(r)] = j], r, r.status, j)
<1> DEFINE js == [r.jobs EXCEPT ![Last(r)] = j]
<1>1. Edits([status |-> r.status, local |-> r.local, cleanup |-> r.cleanup,
             jobs |-> js], r, r.status, j)
  BY EditFacts, RecordFacts
<1>2. [r EXCEPT !.jobs = js] =
         [status |-> r.status, local |-> r.local, cleanup |-> r.cleanup,
          jobs |-> js]
  BY EditJobs
<1>3. [r EXCEPT !.jobs[Last(r)] = j] = [r EXCEPT !.jobs = js]
  OBVIOUS
<1>4. QED
  BY <1>1, <1>2, <1>3

LEMMA EditStarted ==
    ASSUME NEW r \in Record
    PROVE  Edits([r EXCEPT !.jobs[Last(r)].started = TRUE], r, r.status,
                 [r.jobs[Last(r)] EXCEPT !.started = TRUE])
<1> DEFINE j == [r.jobs[Last(r)] EXCEPT !.started = TRUE]
<1>1. j \in Job
  BY RecordFacts DEF Job
<1>2. [r EXCEPT !.jobs[Last(r)].started = TRUE] = [r EXCEPT !.jobs[Last(r)] = j]
  OBVIOUS
<1> HIDE DEF j
<1>3. Edits([r EXCEPT !.jobs[Last(r)] = j], r, r.status, j)
  BY <1>1, EditJob
<1>4. QED
  BY <1>2, <1>3 DEF j

LEMMA EditAgain ==
    ASSUME NEW r \in Record, NEW q, NEW s \in Statuses, NEW t \in Statuses,
           NEW j \in Job, Edits(q, r, s, j)
    PROVE  /\ \A k \in Job : Edits([q EXCEPT !.jobs[Last(r)] = k], r, s, k)
           /\ Edits([q EXCEPT !.status = t], r, t, j)
<1>1. q \in Record /\ Last(q) = Last(r)
  BY DEF Edits
<1>2. ASSUME NEW k \in Job
      PROVE  Edits([q EXCEPT !.jobs[Last(r)] = k], r, s, k)
  <2> DEFINE x == [q EXCEPT !.jobs[Last(q)] = k]
  <2>1. Edits(x, q, q.status, k)
    BY <1>1, EditJob
  <2>2. [q EXCEPT !.jobs[Last(r)] = k] = x
    BY <1>1
  <2> HIDE DEF x
  <2>3. Edits(x, r, s, k)
    BY <2>1 DEF Edits
  <2>4. QED
    BY <2>2, <2>3
<1>3. Edits([q EXCEPT !.status = t], r, t, j)
  <2> DEFINE x == [q EXCEPT !.status = t]
  <2>1. Edits(x, q, t, q.jobs[Last(q)])
    BY <1>1, EditStatus
  <2> HIDE DEF x
  <2>2. Edits(x, r, t, j)
    BY <2>1 DEF Edits
  <2>3. QED
    BY <2>2 DEF x
<1>4. QED
  BY <1>2, <1>3

LEMMA EditLearned ==
    ASSUME NEW r \in Record, NEW s \in Statuses, NEW c \in CleanupStatus
    PROVE  Edits([r EXCEPT !.jobs[Last(r)].bound = TRUE,
                           !.jobs[Last(r)].cleanup = c, !.status = s], r, s,
                 [r.jobs[Last(r)] EXCEPT !.bound = TRUE, !.cleanup = c])
<1> DEFINE j == [r.jobs[Last(r)] EXCEPT !.bound = TRUE]
           q == [r EXCEPT !.jobs[Last(r)] = j]
           k == [q.jobs[Last(r)] EXCEPT !.cleanup = c]
           x == [q EXCEPT !.jobs[Last(r)] = k]
<1>1. j \in Job /\ r.status \in Statuses
  BY RecordFacts DEF Job
<1>2. [r EXCEPT !.jobs[Last(r)].bound = TRUE,
                !.jobs[Last(r)].cleanup = c, !.status = s]
        = [x EXCEPT !.status = s]
  OBVIOUS
<1>3. [r.jobs[Last(r)] EXCEPT !.bound = TRUE, !.cleanup = c]
        = [j EXCEPT !.cleanup = c]
  OBVIOUS
<1> HIDE DEF j
<1>4. Edits(q, r, r.status, j)
  BY <1>1, EditJob
<1> HIDE DEF q
<1>5. q.jobs[Last(r)] = j
  BY <1>4 DEF Edits
<1>6. k = [j EXCEPT !.cleanup = c] /\ k \in Job
  BY <1>1, <1>5 DEF Job
<1> HIDE DEF k
<1>7. Edits(x, r, r.status, k)
  BY <1>1, <1>4, <1>6, EditAgain
<1> HIDE DEF x
<1>8. Edits([x EXCEPT !.status = s], r, s, k)
  BY <1>1, <1>6, <1>7, EditAgain
<1>9. QED
  BY <1>2, <1>3, <1>6, <1>8

LEMMA EditPublished ==
    ASSUME NEW r \in Record
    PROVE  Edits([r EXCEPT !.status = "review_required",
                           !.jobs[Last(r)].ack = TRUE], r, "review_required",
                 [r.jobs[Last(r)] EXCEPT !.ack = TRUE])
<1> DEFINE q == [r EXCEPT !.status = "review_required"]
           j == [q.jobs[Last(r)] EXCEPT !.ack = TRUE]
<1>1. "review_required" \in Statuses /\ r.jobs[Last(r)] \in Job
  BY RecordFacts DEF Statuses, Ready
<1>2. [r EXCEPT !.status = "review_required", !.jobs[Last(r)].ack = TRUE]
        = [q EXCEPT !.jobs[Last(r)] = j]
  OBVIOUS
<1>3. Edits(q, r, "review_required", r.jobs[Last(r)])
  BY <1>1, EditStatus
<1> HIDE DEF q
<1>4. j = [r.jobs[Last(r)] EXCEPT !.ack = TRUE] /\ j \in Job
  BY <1>1, <1>3 DEF Edits, Job
<1> HIDE DEF j
<1>5. Edits([q EXCEPT !.jobs[Last(r)] = j], r, "review_required", j)
  BY <1>1, <1>3, <1>4, EditAgain
<1>6. QED
  BY <1>2, <1>4, <1>5

LEMMA EditAcknowledged ==
    ASSUME NEW r \in Record, NEW c \in CleanupStatus
    PROVE  Edits([r EXCEPT !.jobs[Last(r)].cleanup = c,
                           !.jobs[Last(r)].ack = FALSE], r, r.status,
                 [r.jobs[Last(r)] EXCEPT !.cleanup = c, !.ack = FALSE])
<1> DEFINE j == [r.jobs[Last(r)] EXCEPT !.cleanup = c]
           q == [r EXCEPT !.jobs[Last(r)] = j]
           k == [q.jobs[Last(r)] EXCEPT !.ack = FALSE]
           x == [q EXCEPT !.jobs[Last(r)] = k]
<1>1. j \in Job /\ r.status \in Statuses
  BY RecordFacts DEF Job
<1>2. [r EXCEPT !.jobs[Last(r)].cleanup = c, !.jobs[Last(r)].ack = FALSE] = x
  OBVIOUS
<1>3. [r.jobs[Last(r)] EXCEPT !.cleanup = c, !.ack = FALSE]
        = [j EXCEPT !.ack = FALSE]
  OBVIOUS
<1> HIDE DEF j
<1>4. Edits(q, r, r.status, j)
  BY <1>1, EditJob
<1> HIDE DEF q
<1>5. q.jobs[Last(r)] = j
  BY <1>4 DEF Edits
<1>6. k = [j EXCEPT !.ack = FALSE] /\ k \in Job
  BY <1>1, <1>5 DEF Job
<1> HIDE DEF k
<1>7. Edits(x, r, r.status, k)
  BY <1>1, <1>4, <1>6, EditAgain
<1>8. QED
  BY <1>2, <1>3, <1>6, <1>7

(* cleanup_status is over only when every part of it is.                   *)
LEMMA CleanupOfFacts ==
    ASSUME NEW r \in Record
    PROVE  /\ CleanupOf(r) \in CleanupStatus
           /\ CleanupOf(r) # "pending" =>
                /\ r.local # "pending"
                /\ \A a \in 1..Last(r) : r.jobs[a].cleanup # "pending"
<1>1. DOMAIN r.jobs = 1..Last(r)
  BY RecordFacts
<1>2. QED
  BY <1>1 DEF CleanupOf, CleanupStatus

LEMMA WithCleanupFacts ==
    ASSUME NEW r \in Record
    PROVE  /\ WithCleanup(r) \in Record
           /\ WithCleanup(r).status = r.status
           /\ WithCleanup(r).local = r.local
           /\ WithCleanup(r).jobs = r.jobs
           /\ Last(WithCleanup(r)) = Last(r)
           /\ WithCleanup(r).cleanup # "pending" =>
                /\ r.local # "pending"
                /\ \A a \in 1..Last(r) : r.jobs[a].cleanup # "pending"
<1> DEFINE c == CleanupOf(r)
<1>1. c \in CleanupStatus /\ (c # "pending" =>
          /\ r.local # "pending"
          /\ \A a \in 1..Last(r) : r.jobs[a].cleanup # "pending")
  BY CleanupOfFacts
<1> HIDE DEF c
<1>2. /\ [r EXCEPT !.cleanup = c] \in Record
      /\ [r EXCEPT !.cleanup = c].status = r.status
      /\ [r EXCEPT !.cleanup = c].local = r.local
      /\ [r EXCEPT !.cleanup = c].jobs = r.jobs
      /\ [r EXCEPT !.cleanup = c].cleanup = c
  BY <1>1 DEF Record
<1>3. QED
  BY <1>1, <1>2 DEF WithCleanup, Last, c

(* A retry: one more attempt, about which nothing is known.                *)
Retried(r) == [r EXCEPT !.status = "queued", !.cleanup = "pending",
                        !.jobs = Append(@, NewJob)]

LEMMA RetriedFacts ==
    ASSUME NEW r \in Record, Last(r) < MaxAttempts
    PROVE  /\ Retried(r) \in Record
           /\ Retried(r).status = "queued" /\ Retried(r).cleanup = "pending"
           /\ Retried(r).local = r.local
           /\ Last(Retried(r)) = Last(r) + 1
           /\ Retried(r).jobs[Last(r) + 1] = NewJob
           /\ \A a \in 1..Last(r) : Retried(r).jobs[a] = r.jobs[a]
<1> DEFINE js == Append(r.jobs, NewJob)
           n == Last(r)
<1>1. /\ n \in Attempts /\ r.jobs \in [1..n -> Job] /\ n \in Nat
      /\ r.local \in CleanupStatus
  BY RecordFacts DEF Attempts
<1>2. NewJob \in Job
  BY DEF NewJob, Job, CleanupStatus
<1>3. r.jobs \in Seq(Job) /\ Len(r.jobs) = n
  BY <1>1 DEF Last
<1>4. js \in Seq(Job) /\ Len(js) = n + 1
  BY <1>2, <1>3
<1>5. js \in [1..(n + 1) -> Job]
  <2>1. \A t \in Seq(Job) : t \in [1..Len(t) -> Job]
    OBVIOUS
  <2> HIDE DEF js, n
  <2>2. js \in [1..Len(js) -> Job]
    BY <1>4, <2>1
  <2>3. QED
    BY <1>4, <2>2
<1>6. js[n + 1] = NewJob /\ \A a \in 1..n : js[a] = r.jobs[a]
  BY <1>1, <1>2, <1>3
<1>7. n + 1 \in Attempts
  BY <1>1, MaxAttemptsAssumption DEF Attempts
<1>8. "queued" \in Statuses /\ "pending" \in CleanupStatus
  BY DEF Statuses, CleanupStatus
<1> HIDE DEF js, n
<1>9. Retried(r) = [status |-> "queued", local |-> r.local,
                    cleanup |-> "pending", jobs |-> js]
  <2>1. Retried(r) = [[[r EXCEPT !.status = "queued"]
                         EXCEPT !.cleanup = "pending"] EXCEPT !.jobs = js]
    BY DEF Retried, js
  <2>2. QED
    BY <2>1 DEF Record
<1>10. Retried(r) \in Record /\ Len(js) = n + 1
  BY <1>1, <1>5, <1>7, <1>8, <1>9, RecordIntro
<1>11. QED
  BY <1>6, <1>9, <1>10 DEF Last, n

(* A job that was never started when its meeting's upload expired.         *)
Unsent(j) == ~j.bound /\ ~j.started /\ j.cleanup = "pending"

LEMMA ExpiredFacts ==
    ASSUME NEW r \in Record
    PROVE  /\ Expired(r) \in Record
           /\ Expired(r).status = r.status /\ Expired(r).local = "expired"
           /\ Last(Expired(r)) = Last(r)
           /\ \A a \in 1..Last(r) : Expired(r).jobs[a] =
                IF Unsent(r.jobs[a]) THEN [r.jobs[a] EXCEPT !.cleanup = "expired"]
                                     ELSE r.jobs[a]
           /\ Expired(r).cleanup # "pending" =>
                \A a \in 1..Last(r) : Expired(r).jobs[a].cleanup # "pending"
<1> DEFINE js == [a \in DOMAIN r.jobs |->
                    IF ~r.jobs[a].bound /\ ~r.jobs[a].started
                         /\ r.jobs[a].cleanup = "pending"
                    THEN [r.jobs[a] EXCEPT !.cleanup = "expired"] ELSE r.jobs[a]]
           q == [status |-> r.status, local |-> "expired",
                 cleanup |-> r.cleanup, jobs |-> js]
<1>1. r.jobs \in [1..Last(r) -> Job] /\ "expired" \in CleanupStatus
  BY RecordFacts DEF CleanupStatus
<1>2. js \in [1..Last(r) -> Job]
  <2>1. ASSUME NEW a \in 1..Last(r)
        PROVE  [r.jobs[a] EXCEPT !.cleanup = "expired"] \in Job
    BY <1>1 DEF Job
  <2>2. DOMAIN r.jobs = 1..Last(r) /\ \A a \in 1..Last(r) : r.jobs[a] \in Job
    BY <1>1
  <2>3. QED
    BY <2>1, <2>2
<1>3. \A a \in 1..Last(r) : js[a] =
         IF Unsent(r.jobs[a]) THEN [r.jobs[a] EXCEPT !.cleanup = "expired"]
                              ELSE r.jobs[a]
  BY <1>1 DEF Unsent
<1>4. Expired(r) = WithCleanup([[r EXCEPT !.local = "expired"] EXCEPT !.jobs = js])
  BY DEF Expired
<1> HIDE DEF js
<1>5. [[r EXCEPT !.local = "expired"] EXCEPT !.jobs = js] = q
  <2> DEFINE x == [r EXCEPT !.local = "expired"]
  <2>1. /\ x \in Record
        /\ x.status = r.status /\ x.local = "expired" /\ x.cleanup = r.cleanup
    BY <1>1 DEF Record
  <2> HIDE DEF x
  <2>2. [x EXCEPT !.jobs = js] = [status |-> x.status, local |-> x.local,
                                  cleanup |-> x.cleanup, jobs |-> js]
    BY <2>1, EditJobs
  <2>3. QED
    BY <2>1, <2>2 DEF x
<1>6. /\ WithCleanup(q) \in Record
      /\ WithCleanup(q).status = r.status /\ WithCleanup(q).local = "expired"
      /\ WithCleanup(q).jobs = js
      /\ Last(WithCleanup(q)) = Last(r)
      /\ WithCleanup(q).cleanup # "pending" =>
            \A a \in 1..Last(r) : js[a].cleanup # "pending"
  <2>1. /\ r.status \in Statuses /\ r.cleanup \in CleanupStatus
        /\ Last(r) \in Attempts
    BY RecordFacts
  <2>2. q \in Record /\ Len(js) = Last(r)
    BY <1>1, <1>2, <2>1, RecordIntro
  <2>3. q.status = r.status /\ q.local = "expired" /\ q.jobs = js
    OBVIOUS
  <2> HIDE DEF q
  <2>4. Last(q) = Last(r)
    BY <2>2, <2>3 DEF Last
  <2>5. QED
    BY <2>2, <2>3, <2>4, WithCleanupFacts
<1>7. Expired(r) = WithCleanup(q)
  BY <1>4, <1>5
<1> HIDE DEF q
<1>8. QED
  BY <1>3, <1>6, <1>7

LEMMA ReconciledFacts ==
    ASSUME TypeOK, NEW m \in Meetings, NEW asked \in SUBSET Attempts
    PROVE  LET r == record[m]
               w == Reconciled(m, asked)
           IN /\ w \in Record
              /\ w.status = r.status /\ w.local = r.local
              /\ Last(w) = Last(r)
              /\ \A a \in 1..Last(r) : w.jobs[a] =
                    IF a \in Confirmed(m, asked)
                    THEN [r.jobs[a] EXCEPT !.cleanup = gpu[m][a].clean,
                                           !.ack = FALSE]
                    ELSE r.jobs[a]
              /\ w.cleanup # "pending" =>
                    /\ r.local # "pending"
                    /\ \A a \in 1..Last(r) : w.jobs[a].cleanup # "pending"
<1> DEFINE r == record[m]
           js == [a \in DOMAIN r.jobs |->
                    IF a \in Confirmed(m, asked)
                    THEN [r.jobs[a] EXCEPT !.cleanup = gpu[m][a].clean,
                                           !.ack = FALSE]
                    ELSE r.jobs[a]]
           q == [status |-> r.status, local |-> r.local,
                 cleanup |-> r.cleanup, jobs |-> js]
<1>1. r \in Record
  BY DEF TypeOK
<1>2. /\ r.jobs \in [1..Last(r) -> Job] /\ r.local \in CleanupStatus
      /\ Last(r) \in Attempts
  BY <1>1, RecordFacts
<1>3. js \in [1..Last(r) -> Job]
  <2>1. ASSUME NEW a \in 1..Last(r), a \in Confirmed(m, asked)
        PROVE  [r.jobs[a] EXCEPT !.cleanup = gpu[m][a].clean, !.ack = FALSE]
                  \in Job
    <3> HIDE DEF js, q
    <3>1. a \in Attempts
      <4> DEFINE n == Last(r)
      <4>1. n \in Attempts /\ a \in 1..n
        BY <1>2
      <4> HIDE DEF n, r
      <4>2. QED
        BY <4>1, MaxAttemptsAssumption DEF Attempts
    <3>2. gpu[m][a].clean \in CleanupStatus
      BY <3>1 DEF TypeOK
    <3>3. r.jobs[a] \in Job
      BY <1>2
    <3> HIDE DEF r
    <3>4. QED
      BY <3>2, <3>3 DEF Job
  <2>2. DOMAIN r.jobs = 1..Last(r) /\ \A a \in 1..Last(r) : r.jobs[a] \in Job
    BY <1>2
  <2> HIDE DEF r
  <2>3. QED
    BY <2>1, <2>2
<1>4. \A a \in 1..Last(r) : js[a] =
         IF a \in Confirmed(m, asked)
         THEN [r.jobs[a] EXCEPT !.cleanup = gpu[m][a].clean, !.ack = FALSE]
         ELSE r.jobs[a]
  <2>1. DOMAIN r.jobs = 1..Last(r)
    BY <1>2
  <2> HIDE DEF r
  <2>2. QED
    BY <2>1
<1>5. Reconciled(m, asked) = WithCleanup([r EXCEPT !.jobs = js])
  BY DEF Reconciled
<1> HIDE DEF js, r
<1>6. [r EXCEPT !.jobs = js] = q
  BY <1>1, EditJobs
<1>7. /\ WithCleanup(q) \in Record
      /\ WithCleanup(q).status = r.status /\ WithCleanup(q).local = r.local
      /\ WithCleanup(q).jobs = js
      /\ Last(WithCleanup(q)) = Last(r)
      /\ WithCleanup(q).cleanup # "pending" =>
            /\ r.local # "pending"
            /\ \A a \in 1..Last(r) : js[a].cleanup # "pending"
  <2>1. r.status \in Statuses /\ r.cleanup \in CleanupStatus
    BY <1>1, RecordFacts
  <2>2. q \in Record /\ Len(js) = Last(r)
    BY <1>2, <1>3, <2>1, RecordIntro
  <2>3. q.status = r.status /\ q.local = r.local /\ q.jobs = js
    OBVIOUS
  <2> HIDE DEF q
  <2>4. Last(q) = Last(r)
    BY <2>2, <2>3 DEF Last
  <2>5. QED
    BY <2>2, <2>3, <2>4, WithCleanupFacts
<1>8. Reconciled(m, asked) = WithCleanup(q)
  BY <1>5, <1>6
<1> HIDE DEF q
<1>9. QED
  BY <1>4, <1>7, <1>8 DEF r

-----------------------------------------------------------------------------
(* Type correctness *)

LEMMA NewRecordFacts ==
    /\ NewRecord \in Record /\ Last(NewRecord) = 1
    /\ NewRecord.jobs[1] = NewJob
    /\ 1 \in Attempts
<1>1. 1 \in Attempts
  BY MaxAttemptsAssumption DEF Attempts
<1>2. NewJob \in Job
  BY DEF NewJob, Job, CleanupStatus
<1> HIDE DEF NewJob
<1>3. <<NewJob>> \in [1..1 -> Job] /\ <<NewJob>>[1] = NewJob
  BY <1>2
<1>4. "queued" \in Statuses /\ "pending" \in CleanupStatus
  BY DEF Statuses, CleanupStatus
<1>5. NewRecord \in Record /\ Len(<<NewJob>>) = 1
  BY <1>1, <1>3, <1>4, RecordIntro DEF NewRecord
<1>6. QED
  BY <1>1, <1>3, <1>5 DEF NewRecord, Last

LEMMA ChargeType ==
    ASSUME TypeOK, NEW n \in Nat, Charge(n)
    PROVE  faults' \in 0..MaxFaults
BY MaxFaultsAssumption DEF Charge, TypeOK

LEMMA CostType ==
    ASSUME NEW outcome, NEW removal
    PROVE  /\ Faulty(outcome) \in Nat /\ Unremoved(removal) \in Nat
           /\ Unremoved(removal) + Faulty(outcome) \in Nat
           /\ 1 + Faulty(outcome) \in Nat /\ 0 + Faulty(outcome) \in Nat
BY DEF Faulty, Unremoved

LEMMA WriteType ==
    ASSUME TypeOK, NEW m \in Meetings, NEW r \in Record,
           NEW outcome, Write(m, r, outcome)
    PROVE  record' \in [Meetings -> Record]
BY DEF Write, TypeOK

LEMMA GotoType ==
    ASSUME TypeOK, NEW m \in Meetings, NEW place \in Places, Goto(m, place)
    PROVE  pc' \in [Meetings -> Places]
BY DEF Goto, TypeOK

LEMMA ContinueType ==
    ASSUME TypeOK, NEW m \in Meetings, NEW place \in Places, NEW outcome,
           Continue(m, outcome, place)
    PROVE  pc' \in [Meetings -> Places]
BY GotoType DEF Continue, Places

LEMMA SaveType ==
    ASSUME TypeOK, NEW m \in Meetings, NEW r \in Record, NEW outcome,
           NEW place \in Places, Save(m, r, outcome, place)
    PROVE  /\ record' \in [Meetings -> Record]
           /\ pc' \in [Meetings -> Places]
           /\ faults' \in 0..MaxFaults
BY WriteType, ContinueType, ChargeType, CostType DEF Save

LEMMA SetGPUType ==
    ASSUME TypeOK, NEW m \in Meetings, NEW a \in Attempts,
           NEW status \in GPUStatus, NEW clean \in CleanupStatus,
           SetGPU(m, a, status, clean)
    PROVE  gpu' \in [Meetings -> [Attempts -> [status : GPUStatus,
                                               clean : CleanupStatus]]]
BY DEF SetGPU, TypeOK

LEMMA RunType ==
    ASSUME TypeOK, NEW m \in Meetings, NEW a \in Attempts, Run(m, a)
    PROVE  runs' \in [Meetings -> [Attempts -> Nat]]
BY DEF Run, TypeOK

LEMMA RecordOf ==
    ASSUME TypeOK, NEW m \in Meetings
    PROVE  /\ record[m] \in Record
           /\ Attempt(m) = Last(record[m]) /\ Attempt(m) \in Attempts
           /\ CurrentJob(m) = record[m].jobs[Last(record[m])]
           /\ CurrentJob(m) \in Job
           /\ RemoteJob(m) = gpu[m][Last(record[m])]
           /\ RemoteJob(m) \in [status : GPUStatus, clean : CleanupStatus]
<1>1. record[m] \in Record
  BY DEF TypeOK
<1>2. Attempt(m) = Last(record[m]) /\ Attempt(m) \in Attempts
  BY <1>1, RecordFacts DEF Attempt, Last
<1>3. QED
  BY <1>1, <1>2, RecordFacts DEF CurrentJob, RemoteJob, TypeOK

(* What a step writes is a record.                                         *)
LEMMA WritesAreRecords ==
    ASSUME TypeOK, NEW m \in Meetings
    PROVE  LET r == record[m]
               n == Attempt(m)
           IN /\ \A s \in Statuses : [r EXCEPT !.status = s] \in Record
              /\ [r EXCEPT !.jobs[n].started = TRUE] \in Record
              /\ \A s \in Statuses, c \in CleanupStatus :
                    [r EXCEPT !.jobs[n].bound = TRUE, !.jobs[n].cleanup = c,
                              !.status = s] \in Record
              /\ [r EXCEPT !.status = "review_required", !.jobs[n].ack = TRUE]
                    \in Record
              /\ \A c \in CleanupStatus :
                    [r EXCEPT !.jobs[n].cleanup = c, !.jobs[n].ack = FALSE]
                       \in Record
              /\ WithCleanup(r) \in Record
              /\ \A c \in CleanupStatus : [r EXCEPT !.local = c] \in Record
<1>1. record[m] \in Record /\ Attempt(m) = Last(record[m])
  BY RecordOf
<1> DEFINE r == record[m]
<1>2. \A s \in Statuses : [r EXCEPT !.status = s] \in Record
  BY <1>1, EditStatus DEF Edits
<1>3. [r EXCEPT !.jobs[Last(r)].started = TRUE] \in Record
  BY <1>1, EditStarted DEF Edits
<1>4. \A s \in Statuses, c \in CleanupStatus :
         [r EXCEPT !.jobs[Last(r)].bound = TRUE, !.jobs[Last(r)].cleanup = c,
                   !.status = s] \in Record
  BY <1>1, EditLearned DEF Edits
<1>5. [r EXCEPT !.status = "review_required", !.jobs[Last(r)].ack = TRUE]
         \in Record
  BY <1>1, EditPublished DEF Edits
<1>6. \A c \in CleanupStatus :
         [r EXCEPT !.jobs[Last(r)].cleanup = c, !.jobs[Last(r)].ack = FALSE]
            \in Record
  BY <1>1, EditAcknowledged DEF Edits
<1>7. WithCleanup(r) \in Record
  BY <1>1, WithCleanupFacts
<1>8. \A c \in CleanupStatus : [r EXCEPT !.local = c] \in Record
  BY <1>1 DEF Record
<1>9. QED
  BY <1>1, <1>2, <1>3, <1>4, <1>5, <1>6, <1>7, <1>8

LEMMA TypeInit == Init => TypeOK
<1> SUFFICES ASSUME Init
             PROVE  TypeOK
  OBVIOUS
<1>1. record \in [Meetings -> Record]
  BY NewRecordFacts DEF Init
<1>2. 0 \in 0..MaxAttempts /\ 0 \in 0..MaxFaults
  BY MaxAttemptsAssumption, MaxFaultsAssumption
<1>3. gpu \in [Meetings -> [Attempts -> [status : GPUStatus,
                                         clean : CleanupStatus]]]
  BY DEF Init, GPUStatus, CleanupStatus
<1>4. pc \in [Meetings -> Places]
  BY DEF Init, Places
<1>5. QED
  BY <1>1, <1>2, <1>3, <1>4 DEF Init, TypeOK

LEMMA CallTypes ==
    ASSUME TypeOK, NEW m \in Meetings, Calls(m)
    PROVE  TypeOK'
<1>1. CASE Create(m)
  BY <1>1 DEF Create, TypeOK, remote, schedule
<1>2. ASSUME NEW outcome \in Outcome, Retry(m, outcome)
      PROVE  TypeOK'
  <2>1. Retried(record[m]) \in Record
    BY <1>2, RecordOf, RetriedFacts DEF Retry
  <2>2. record' \in [Meetings -> Record]
    BY <1>2, <2>1, WriteType DEF Retry, Retried
  <2>3. faults' \in 0..MaxFaults
    BY <1>2, ChargeType, CostType DEF Retry
  <2>4. QED
    BY <1>2, <2>2, <2>3 DEF Retry, TypeOK, api, remote, schedule
<1>3. ASSUME NEW outcome \in Outcome, NEW status \in Ready,
             Review(m, status, outcome)
      PROVE  TypeOK'
  <2>1. [record[m] EXCEPT !.status = status] \in Record
    BY WritesAreRecords DEF Statuses
  <2>2. record' \in [Meetings -> Record]
    BY <1>3, <2>1, WriteType DEF Review
  <2>3. faults' \in 0..MaxFaults
    BY <1>3, ChargeType, CostType DEF Review
  <2>4. QED
    BY <1>3, <2>2, <2>3 DEF Review, TypeOK, api, remote, schedule
<1>4. CASE DeleteBegins(m)
  BY <1>4 DEF DeleteBegins, TypeOK, remote, schedule
<1>5. QED
  BY <1>1, <1>2, <1>3, <1>4 DEF Calls

LEMMA DeleteType ==
    ASSUME TypeOK, NEW m \in Meetings, NEW ok \in BOOLEAN, DeleteEnds(m, ok)
    PROVE  TypeOK'
<1>1. faults' \in 0..MaxFaults
  BY ChargeType DEF DeleteEnds
<1>2. QED
  BY <1>1 DEF DeleteEnds, TypeOK, remote, schedule

LEMMA TickTypes ==
    ASSUME TypeOK, Tick
    PROVE  TypeOK'
<1>1. CASE TickBegins
  BY <1>1 DEF TickBegins, TypeOK, api, remote, Stored
<1>2. CASE ScanBegins
  BY <1>2 DEF ScanBegins, TypeOK, api, remote, Stored
<1>3. CASE TickEnds
  BY <1>3 DEF TickEnds, TypeOK, api, remote
<1>4. ASSUME NEW m \in Meetings, SweepSkips(m)
      PROVE  TypeOK'
  BY <1>4 DEF SweepSkips, TypeOK, api, remote
<1>5. ASSUME NEW m \in Meetings, ScanSkips(m)
      PROVE  TypeOK'
  BY <1>5 DEF ScanSkips, TypeOK, api, remote
<1>6. ASSUME NEW m \in Meetings, StepBegins(m)
      PROVE  TypeOK'
  <2>1. pc' \in [Meetings -> Places]
    BY <1>6, GotoType DEF StepBegins, Places
  <2>2. QED
    BY <1>6, <2>1 DEF StepBegins, TypeOK, api, remote
<1>7. ASSUME NEW m \in Meetings, NEW removal \in Removal, SweepAborts(m, removal)
      PROVE  TypeOK'
  <2>1. faults' \in 0..MaxFaults
    BY <1>7, ChargeType, CostType DEF SweepAborts
  <2>2. QED
    BY <1>7, <2>1 DEF SweepAborts, Remove, TypeOK, api, remote
<1>8. ASSUME NEW m \in Meetings, NEW removal \in Removal,
             NEW outcome \in Outcome, SweepExpires(m, removal, outcome)
      PROVE  TypeOK'
  <2>1. faults' \in 0..MaxFaults
    BY <1>8, ChargeType, CostType DEF SweepExpires
  <2>2. record[m] \in Record /\ Expired(record[m]) \in Record
    BY RecordOf, ExpiredFacts
  <2>3. record' \in [Meetings -> Record]
    BY <1>8, <2>2, WriteType DEF SweepExpires
  <2>4. QED
    BY <1>8, <2>1, <2>3 DEF SweepExpires, Remove, TypeOK, api, remote
<1>9. QED
  BY <1>1, <1>2, <1>3, <1>4, <1>5, <1>6, <1>7, <1>8 DEF Tick

LEMMA FailType ==
    ASSUME TypeOK, NEW m \in Meetings, NEW outcome, NEW cost \in {0, 1},
           Fail(m, outcome, cost)
    PROVE  /\ record' \in [Meetings -> Record]
           /\ pc' \in [Meetings -> Places]
           /\ faults' \in 0..MaxFaults
<1>1. [record[m] EXCEPT !.status = "failed"] \in Record
  BY WritesAreRecords DEF Statuses
<1>2. "idle" \in Places
  BY DEF Places
<1>3. QED
  BY <1>1, <1>2, WriteType, GotoType, ChargeType, CostType DEF Fail

LEMMA LearnType ==
    ASSUME TypeOK, NEW m \in Meetings, NEW outcome,
           NEW job \in [status : GPUStatus, clean : CleanupStatus],
           Learn(m, job, outcome)
    PROVE  /\ record' \in [Meetings -> Record]
           /\ pc' \in [Meetings -> Places]
           /\ faults' \in 0..MaxFaults
<1> DEFINE s == IF job.status \in {"failed", "expired"} THEN "failed"
                                                       ELSE "processing"
           place == IF job.status = "completed" THEN "fetch" ELSE "idle"
           q == [record[m] EXCEPT !.jobs[Attempt(m)].bound = TRUE,
                                  !.jobs[Attempt(m)].cleanup = job.clean,
                                  !.status = s]
<1>1. s \in Statuses /\ place \in Places /\ job.clean \in CleanupStatus
  BY DEF Statuses, Places
<1>2. Save(m, q, outcome, place)
  BY DEF Learn
<1> HIDE DEF s, place
<1>3. q \in Record
  BY <1>1, WritesAreRecords
<1>4. QED
  BY <1>1, <1>2, <1>3, SaveType

LEMMA ReconcileType ==
    ASSUME TypeOK, NEW m \in Meetings, NEW outcome,
           NEW asked \in SUBSET Attempts, Reconcile(m, asked, outcome)
    PROVE  TypeOK'
<1> DEFINE unanswered == IF asked = Open(m) THEN 0 ELSE 1
<1>1. unanswered \in Nat /\ unanswered + Faulty(outcome) \in Nat
  BY CostType
<1>2. "idle" \in Places /\ "advance" \in Places
  BY DEF Places
<1>3. CASE Confirmed(m, asked) # {} /\ Writable(m, record[m])
  <2>1. /\ Write(m, Reconciled(m, asked), outcome)
        /\ Continue(m, outcome, "advance")
        /\ Charge(unanswered + Faulty(outcome))
    BY <1>3 DEF Reconcile
  <2> HIDE DEF unanswered
  <2>2. Reconciled(m, asked) \in Record
    BY ReconciledFacts
  <2>3. /\ record' \in [Meetings -> Record] /\ pc' \in [Meetings -> Places]
        /\ faults' \in 0..MaxFaults
    BY <1>1, <1>2, <2>1, <2>2, WriteType, ContinueType, ChargeType
  <2>4. QED
    BY <2>3 DEF Reconcile, TypeOK, api, remote, schedule
<1>4. CASE ~(Confirmed(m, asked) # {} /\ Writable(m, record[m]))
  <2>1. /\ UNCHANGED record
        /\ Goto(m, IF Confirmed(m, asked) = {} THEN "advance" ELSE "idle")
        /\ Charge(unanswered)
    BY <1>4 DEF Reconcile
  <2> HIDE DEF unanswered
  <2>2. pc' \in [Meetings -> Places] /\ faults' \in 0..MaxFaults
    BY <1>1, <1>2, <2>1, GotoType, ChargeType
  <2>3. QED
    BY <2>1, <2>2 DEF Reconcile, TypeOK, api, remote, schedule
<1>5. QED
  BY <1>3, <1>4

(* What the ACK leaves of the cleanup of the GPU copy of job g.            *)
Erased(g) == IF g.status = "completed" /\ g.clean = "pending" THEN "deleted"
                                                            ELSE g.clean

LEMMA AcknowledgeErases ==
    ASSUME TypeOK, NEW m \in Meetings, NEW outcome, NEW arrives, NEW answered,
           Acknowledge(m, arrives, answered, outcome)
    PROVE  IF arrives
           THEN SetGPU(m, Attempt(m), RemoteJob(m).status, Erased(RemoteJob(m)))
           ELSE gpu' = gpu
<1> DEFINE a == Attempt(m)
           c == Erased(RemoteJob(m))
           g == [gpu[m][a] EXCEPT !.clean = c]
<1>1. gpu[m][a] \in [status : GPUStatus, clean : CleanupStatus]
      /\ RemoteJob(m) = gpu[m][a]
  BY RecordOf DEF RemoteJob
<1>2. gpu' = IF arrives THEN [gpu EXCEPT ![m][a].clean = c] ELSE gpu
  BY DEF Acknowledge, Erased
<1> HIDE DEF a, c
<1>3. g = [status |-> gpu[m][a].status, clean |-> c]
  BY <1>1
<1>4. [gpu EXCEPT ![m][a].clean = c] = [gpu EXCEPT ![m][a] = g]
  OBVIOUS
<1>5. QED
  BY <1>1, <1>2, <1>3, <1>4 DEF SetGPU, a, c

LEMMA AcknowledgeType ==
    ASSUME TypeOK, NEW m \in Meetings, NEW outcome, NEW arrives \in BOOLEAN,
           NEW answered \in BOOLEAN, Acknowledge(m, arrives, answered, outcome)
    PROVE  TypeOK'
<1> DEFINE a == Attempt(m)
           erased == Erased(RemoteJob(m))
           done == [record[m] EXCEPT !.jobs[a].cleanup = erased,
                                     !.jobs[a].ack = FALSE]
           cost == IF answered \/ (arrives /\ ~( RemoteJob(m).status \in
                        {"completed", "expired"} /\ erased # "pending"))
                   THEN 0 ELSE 1
<1>1. erased \in CleanupStatus /\ a \in Attempts
  BY RecordOf DEF CleanupStatus, Erased
<1>2. done \in Record /\ record[m] \in Record
  BY <1>1, WritesAreRecords, RecordOf
<1>3. /\ Write(m, WithCleanup(IF answered THEN done ELSE record[m]), outcome)
      /\ Charge(cost + Faulty(outcome))
      /\ Goto(m, "idle")
  BY DEF Acknowledge, Erased
<1>4. cost + Faulty(outcome) \in Nat
  BY CostType
<1> HIDE DEF erased, done, a, cost
<1>5. WithCleanup(IF answered THEN done ELSE record[m]) \in Record
  BY <1>2, WithCleanupFacts
<1>6. gpu' \in [Meetings -> [Attempts -> [status : GPUStatus,
                                          clean : CleanupStatus]]]
  <2>1. RemoteJob(m).status \in GPUStatus
    BY RecordOf
  <2>2. gpu' = gpu \/ SetGPU(m, a, RemoteJob(m).status, erased)
    BY AcknowledgeErases DEF a, erased
  <2>3. QED
    BY <1>1, <2>1, <2>2, SetGPUType DEF TypeOK
<1>7. "idle" \in Places
  BY DEF Places
<1>8. /\ record' \in [Meetings -> Record] /\ pc' \in [Meetings -> Places]
      /\ faults' \in 0..MaxFaults
  BY <1>3, <1>4, <1>5, <1>7, WriteType, GotoType, ChargeType
<1>9. QED
  BY <1>6, <1>8 DEF Acknowledge, TypeOK, api, schedule

LEMMA RemoveUploadType ==
    ASSUME TypeOK, NEW m \in Meetings, NEW outcome, NEW removal,
           RemoveUpload(m, removal, outcome)
    PROVE  TypeOK'
<1>1. /\ record[m] \in Record /\ [record[m] EXCEPT !.local = "deleted"] \in Record
      /\ "ack" \in Places
  BY RecordOf, WritesAreRecords DEF CleanupStatus, Places
<1>2. /\ record' \in [Meetings -> Record] /\ pc' \in [Meetings -> Places]
      /\ faults' \in 0..MaxFaults
  BY <1>1, WriteType, ContinueType, ChargeType, CostType DEF RemoveUpload
<1>3. upload' \in [Meetings -> BOOLEAN]
  BY DEF RemoveUpload, Remove, TypeOK
<1>4. QED
  BY <1>2, <1>3 DEF RemoveUpload, TypeOK, api, remote, schedule

LEMMA SubmitAnsweredType ==
    ASSUME TypeOK, NEW m \in Meetings, NEW outcome, SubmitAnswered(m, outcome)
    PROVE  TypeOK'
<1> DEFINE a == Attempt(m)
<1>1. a \in Attempts /\ "running" \in GPUStatus /\ "pending" \in CleanupStatus
  BY RecordOf DEF GPUStatus, CleanupStatus
<1>2. /\ \/ SetGPU(m, a, "running", "pending") /\ Run(m, a)
         \/ UNCHANGED remote
      /\ Learn(m, gpu'[m][a], outcome)
  BY DEF SubmitAnswered
<1> HIDE DEF a
<1>3. /\ gpu' \in [Meetings -> [Attempts -> [status : GPUStatus,
                                             clean : CleanupStatus]]]
      /\ runs' \in [Meetings -> [Attempts -> Nat]]
  BY <1>1, <1>2, SetGPUType, RunType DEF TypeOK, remote
<1>4. gpu'[m][a] \in [status : GPUStatus, clean : CleanupStatus]
  BY <1>1, <1>3
<1>5. /\ record' \in [Meetings -> Record] /\ pc' \in [Meetings -> Places]
      /\ faults' \in 0..MaxFaults
  <2>1. PICK job \in [status : GPUStatus, clean : CleanupStatus] :
           job = gpu'[m][a]
    BY <1>4
  <2>2. Learn(m, job, outcome)
    BY <1>2, <2>1
  <2>3. QED
    BY <2>2, LearnType
<1>6. QED
  BY <1>3, <1>5 DEF SubmitAnswered, TypeOK, api, schedule

LEMMA StepTypes ==
    ASSUME TypeOK, NEW m \in Meetings, Step(m)
    PROVE  TypeOK'
<1>0. \A p \in Places : Goto(m, p) => pc' \in [Meetings -> Places]
  BY GotoType
<1>1. CASE LeaveFailed(m) \/ LookupMisses(m) \/ Wait(m) \/ Fetch(m)
           \/ UploadGone(m)
  <2>1. pc' \in [Meetings -> Places]
    BY <1>0, <1>1 DEF LeaveFailed, LookupMisses, Wait, Fetch, UploadGone, Places
  <2>2. UNCHANGED <<api, record, manifest, upload, deadline, remote, schedule,
                    faults>>
    BY <1>1 DEF LeaveFailed, LookupMisses, Wait, Fetch, UploadGone
  <2>3. QED
    BY <2>1, <2>2 DEF TypeOK, api, remote, schedule
<1>2. CASE Unavailable(m) \/ \E ok \in BOOLEAN : Republish(m, ok)
  <2>1. pc' \in [Meetings -> Places]
    BY <1>0, <1>2 DEF Unavailable, Republish, Places
  <2>2. faults' \in 0..MaxFaults
    BY <1>2, ChargeType DEF Unavailable, Republish
  <2>3. UNCHANGED <<api, record, manifest, upload, deadline, remote, schedule>>
    BY <1>2 DEF Unavailable, Republish
  <2>4. QED
    BY <2>1, <2>2, <2>3 DEF TypeOK, api, remote, schedule
<1>3. CASE SubmitLost(m)
  <2>1. Attempt(m) \in Attempts /\ "sent" \in GPUStatus
        /\ "pending" \in CleanupStatus
    BY RecordOf DEF GPUStatus, CleanupStatus
  <2>2. gpu' \in [Meetings -> [Attempts -> [status : GPUStatus,
                                            clean : CleanupStatus]]]
    BY <1>3, <2>1, SetGPUType DEF SubmitLost, TypeOK
  <2>3. pc' \in [Meetings -> Places] /\ faults' \in 0..MaxFaults
    BY <1>0, <1>3, ChargeType DEF SubmitLost, Places
  <2>4. QED
    BY <1>3, <2>2, <2>3 DEF SubmitLost, TypeOK, api, schedule
<1>4. ASSUME NEW outcome \in Outcome,
             \/ Start(m, outcome) \/ Source(m, outcome)
             \/ PublishRecord(m, outcome) \/ Close(m, outcome)
      PROVE  TypeOK'
  <2>1. PICK r \in Record, place \in Places : \/ Save(m, r, outcome, place)
                                             \/ Fail(m, outcome, 0)
    <3>1. CASE Start(m, outcome)
      BY <1>4, <3>1, WritesAreRecords DEF Start, Statuses, Places
    <3>2. CASE Source(m, outcome)
      BY <1>4, <3>2, WritesAreRecords DEF Source, Places
    <3>3. CASE PublishRecord(m, outcome)
      BY <1>4, <3>3, WritesAreRecords DEF PublishRecord, Places
    <3>4. CASE Close(m, outcome)
      BY <1>4, <3>4, WritesAreRecords DEF Close, Places
    <3>5. QED
      BY <1>4, <3>1, <3>2, <3>3, <3>4
  <2>2. /\ record' \in [Meetings -> Record] /\ pc' \in [Meetings -> Places]
        /\ faults' \in 0..MaxFaults
    BY <2>1, SaveType, FailType
  <2>3. UNCHANGED <<api, manifest, upload, deadline, remote, schedule>>
    BY <1>4 DEF Start, Source, PublishRecord, Close
  <2>4. QED
    BY <2>2, <2>3 DEF TypeOK, api, remote, schedule
<1>5. ASSUME NEW outcome \in Outcome,
             \/ Poll(m, outcome) \/ LookupFinds(m, outcome)
             \/ QueryFails(m, outcome) \/ SubmitFails(m, outcome)
             \/ FetchFails(m, outcome)
      PROVE  TypeOK'
  <2>1. PICK cost \in {0, 1} : Learn(m, RemoteJob(m), outcome)
                               \/ Fail(m, outcome, cost)
    BY <1>5 DEF Poll, LookupFinds, QueryFails, SubmitFails, FetchFails
  <2>2. /\ record' \in [Meetings -> Record] /\ pc' \in [Meetings -> Places]
        /\ faults' \in 0..MaxFaults
    BY <2>1, LearnType, FailType, RecordOf
  <2>3. UNCHANGED <<api, manifest, upload, deadline, remote, schedule>>
    BY <1>5 DEF Poll, LookupFinds, QueryFails, SubmitFails, FetchFails
  <2>4. QED
    BY <2>2, <2>3 DEF TypeOK, api, remote, schedule
<1>6. ASSUME NEW outcome \in Outcome, SubmitAnswered(m, outcome)
      PROVE  TypeOK'
  BY <1>6, SubmitAnsweredType
<1>7. ASSUME NEW outcome \in Outcome, PublishManifest(m, outcome)
      PROVE  TypeOK'
  <2>1. pc' \in [Meetings -> Places] /\ faults' \in 0..MaxFaults
    BY <1>7, ContinueType, ChargeType, CostType DEF PublishManifest, Places
  <2>2. Attempt(m) \in 0..MaxAttempts
    BY RecordOf, MaxAttemptsAssumption DEF Attempts
  <2>3. manifest' \in [Meetings -> 0..MaxAttempts]
    BY <1>7, <2>2 DEF PublishManifest, TypeOK
  <2>4. QED
    BY <1>7, <2>1, <2>3 DEF PublishManifest, TypeOK, api, remote, schedule
<1>8. ASSUME NEW outcome \in Outcome, NEW asked \in SUBSET Attempts,
             Reconcile(m, asked, outcome)
      PROVE  TypeOK'
  BY <1>8, ReconcileType
<1>9. ASSUME NEW outcome \in Outcome, NEW removal \in Removal,
             RemoveUpload(m, removal, outcome)
      PROVE  TypeOK'
  BY <1>9, RemoveUploadType
<1>10. ASSUME NEW outcome \in Outcome, NEW arrives \in BOOLEAN,
              NEW answered \in BOOLEAN,
              Acknowledge(m, arrives, answered, outcome)
       PROVE  TypeOK'
  BY <1>10, AcknowledgeType
<1>11. QED
  BY <1>1, <1>2, <1>3, <1>4, <1>5, <1>6, <1>7, <1>8, <1>9, <1>10 DEF Step

LEMMA GPUTypes ==
    ASSUME TypeOK, NEW m \in Meetings, NEW a \in Attempts, GPU(m, a)
    PROVE  TypeOK'
<1>1. UNCHANGED <<api, record, manifest, upload, deadline, schedule, pc, faults>>
  BY DEF GPU, Deliver, Accept, Finish, Erase, Expire, Forget
<1>2. runs' \in [Meetings -> [Attempts -> Nat]]
  BY RunType DEF GPU, Deliver, Accept, Finish, Erase, Expire, Forget, TypeOK
<1>3. PICK status \in GPUStatus, clean \in CleanupStatus :
         SetGPU(m, a, status, clean)
  <2>1. gpu[m][a].clean \in CleanupStatus
    BY DEF TypeOK
  <2>2. QED
    BY <2>1 DEF GPU, Deliver, Accept, Finish, Erase, Expire, Forget, GPUStatus,
                CleanupStatus
<1>4. QED
  BY <1>1, <1>2, <1>3, SetGPUType DEF TypeOK, api, schedule

LEMMA TypeStep == TypeOK /\ [Next]_vars => TypeOK'
<1> SUFFICES ASSUME TypeOK, [Next]_vars
             PROVE  TypeOK'
  OBVIOUS
<1>1. CASE Tick
  BY <1>1, TickTypes
<1>2. ASSUME NEW m \in Meetings, Calls(m) \/ Step(m)
      PROVE  TypeOK'
  BY <1>2, CallTypes, StepTypes
<1>3. ASSUME NEW m \in Meetings, DeadlinePasses(m)
      PROVE  TypeOK'
  BY <1>3 DEF DeadlinePasses, TypeOK, api, remote, schedule
<1>4. ASSUME NEW m \in Meetings, NEW ok \in BOOLEAN, DeleteEnds(m, ok)
      PROVE  TypeOK'
  BY <1>4, DeleteType
<1>5. ASSUME NEW m \in Meetings, NEW a \in Attempts, GPU(m, a)
      PROVE  TypeOK'
  BY <1>5, GPUTypes
<1>6. CASE Crash
  BY <1>6, ChargeType DEF Crash, TypeOK, remote, Places
<1>7. CASE UNCHANGED vars
  BY <1>7 DEF vars, api, remote, schedule, TypeOK
<1>8. QED
  BY <1>1, <1>2, <1>3, <1>4, <1>5, <1>6, <1>7 DEF Next

(* Type correctness, for any meetings, attempts and faults.                *)
THEOREM Typing == Spec => []TypeOK
BY TypeInit, TypeStep, PTL DEF Spec

-----------------------------------------------------------------------------
(* Frames: what a step leaves alone stays as it is                         *)

GPUJob == [status : GPUStatus, clean : CleanupStatus]

(* The invariant speaks of every other meeting as before.                  *)
OthersStay(m) ==
    /\ \A n \in Meetings \ {m} :
          /\ life'[n] = life[n] /\ record'[n] = record[n]
          /\ manifest'[n] = manifest[n] /\ upload'[n] = upload[n]
          /\ deadline'[n] = deadline[n] /\ gpu'[n] = gpu[n]
          /\ runs'[n] = runs[n] /\ pc'[n] = pc[n]
    /\ todo' \subseteq todo \union Stored
    /\ deleting' \subseteq deleting \union {m}

LEMMA Frame ==
    ASSUME IInv, TypeOK', NEW m \in Meetings, OthersStay(m),
           MeetingInv(m)', BusyInv(m)'
    PROVE  IInv'
<1>1. ASSUME NEW n \in Meetings, n # m
      PROVE  MeetingInv(n)' /\ BusyInv(n)'
  <2>1. /\ life'[n] = life[n] /\ record'[n] = record[n]
        /\ manifest'[n] = manifest[n] /\ upload'[n] = upload[n]
        /\ deadline'[n] = deadline[n] /\ gpu'[n] = gpu[n]
        /\ runs'[n] = runs[n] /\ pc'[n] = pc[n]
    BY <1>1 DEF OthersStay
  <2>2. MeetingInv(n) /\ BusyInv(n)
    BY DEF IInv
  <2>3. MeetingInv(n)'
    BY <2>1, <2>2 DEF MeetingInv
  <2>4. Shown(n)' = Shown(n)
    BY <2>1 DEF Shown, Published, Attempt
  <2>5. /\ n \in todo' => n \in todo \/ life[n] = "stored"
        /\ n \in deleting' => n \in deleting
    BY <1>1 DEF OthersStay, Stored
  <2>6. BusyInv(n)'
    BY <2>1, <2>2, <2>4, <2>5 DEF BusyInv
  <2>7. QED
    BY <2>3, <2>6
<1>2. QED
  BY <1>1 DEF IInv

(* Nothing is saved at these places that others could rely on.             *)
LEMMA FreePlaces ==
    ASSUME NEW r, NEW published, NEW gs, NEW p \in {"idle", "reconcile", "advance"}
    PROVE  PlaceInv(r, published, gs, p)
BY DEF PlaceInv

(* Steps that change no meeting, but may end some steps.                   *)
LEMMA StillKeeps ==
    ASSUME IInv, TypeOK',
           UNCHANGED <<life, record, manifest, upload, deadline, gpu, runs>>,
           \A n \in Meetings : pc'[n] \in {pc[n], "idle"},
           todo' \subseteq todo \union Stored, deleting' \subseteq deleting
    PROVE  IInv'
<1>1. ASSUME NEW n \in Meetings
      PROVE  MeetingInv(n)' /\ BusyInv(n)'
  <2>1. MeetingInv(n) /\ BusyInv(n)
    BY DEF IInv
  <2>2. PlaceInv(record[n], manifest[n], gpu[n], pc[n])
        /\ PlaceInv(record[n], manifest[n], gpu[n], "idle")
    BY <2>1, FreePlaces DEF MeetingInv
  <2>3. PlaceInv(record[n], manifest[n], gpu[n], pc'[n])
    BY <2>2
  <2>4. MeetingInv(n)'
    BY <2>1, <2>3 DEF MeetingInv
  <2>5. Shown(n)' = Shown(n)
    BY DEF Shown, Published, Attempt
  <2>6. /\ n \in todo' => n \in todo \/ life[n] = "stored"
        /\ n \in deleting' => n \in deleting
    BY DEF Stored
  <2>7. BusyInv(n)'
    BY <2>1, <2>5, <2>6 DEF BusyInv
  <2>8. QED
    BY <2>4, <2>7
<1>2. QED
  BY <1>1 DEF IInv

(* A step of the coordinator on m.                                         *)
LEMMA StepKeeps ==
    ASSUME IInv, TypeOK', NEW m \in Meetings, pc[m] # "idle",
           UNCHANGED <<api, deadline, schedule>>, OthersStay(m),
           GPUInv(record[m], gpu[m], runs[m], deadline[m])',
           RecordInv(record[m], manifest[m], upload[m])',
           PlaceInv(record[m], manifest[m], gpu[m], pc[m])'
    PROVE  IInv'
<1>1. MeetingInv(m) /\ BusyInv(m)
  BY DEF IInv
<1>2. life[m] # "absent" /\ m \notin deleting /\ life' = life
      /\ deleting' = deleting
  BY <1>1 DEF BusyInv, api
<1>3. MeetingInv(m)'
  BY <1>2 DEF MeetingInv
<1>4. BusyInv(m)'
  BY <1>2 DEF BusyInv
<1>5. QED
  BY <1>3, <1>4, Frame

(* Saving a record q that is as good as the old one.                       *)
LEMMA SaveKeeps ==
    ASSUME IInv, TypeOK', NEW m \in Meetings, pc[m] # "idle",
           NEW q \in Record, NEW outcome \in Outcome, NEW place \in Places,
           Write(m, q, outcome), Continue(m, outcome, place),
           UNCHANGED <<api, manifest, upload, deadline, schedule>>,
           \A n \in Meetings \ {m} : gpu'[n] = gpu[n] /\ runs'[n] = runs[n],
           GPUInv(record[m], gpu'[m], runs'[m], deadline[m]),
           GPUInv(q, gpu'[m], runs'[m], deadline[m]),
           RecordInv(q, manifest[m], upload[m]),
           PlaceInv(q, manifest[m], gpu'[m], place)
    PROVE  IInv'
<1>1. TypeOK /\ RecordInv(record[m], manifest[m], upload[m])
  BY DEF IInv, MeetingInv
<1>2. /\ record'[m] = record[m] \/ record'[m] = q
      /\ pc'[m] = "idle" \/ (record'[m] = q /\ pc'[m] = place)
      /\ \A n \in Meetings \ {m} : record'[n] = record[n] /\ pc'[n] = pc[n]
  BY <1>1 DEF Write, Continue, Goto, TypeOK, Outcome
<1>3. OthersStay(m)
  BY <1>2 DEF OthersStay, api, schedule
<1>4. /\ GPUInv(record'[m], gpu'[m], runs'[m], deadline[m])
      /\ RecordInv(record'[m], manifest[m], upload[m])
  BY <1>1, <1>2
<1>5. PlaceInv(record'[m], manifest[m], gpu'[m], pc'[m])
  BY <1>2, FreePlaces
<1>6. QED
  BY <1>3, <1>4, <1>5, StepKeeps

-----------------------------------------------------------------------------
(* The invariant of one meeting, under the changes of its record and jobs  *)

(* A new state g and number n of runs of one job of the GPU service.       *)
LEMMA JobKeeps ==
    ASSUME NEW r \in Record, NEW gs, NEW hs, NEW rs, NEW us,
           NEW passed \in BOOLEAN, NEW a \in Attempts, GPUInv(r, gs, rs, passed),
           \A b \in Attempts \ {a} : hs[b] = gs[b] /\ us[b] = rs[b],
           JobInv(hs[a], us[a], passed),
           a \in 1..Last(r) => AttemptInv(r.jobs[a], hs[a], passed),
           a > Last(r) => hs[a].status = "none"
    PROVE  GPUInv(r, hs, us, passed)
BY DEF GPUInv

LEMMA SetGPUEffect ==
    ASSUME TypeOK, NEW m \in Meetings, NEW a \in Attempts, NEW status, NEW clean,
           SetGPU(m, a, status, clean)
    PROVE  /\ \A n \in Meetings \ {m} : gpu'[n] = gpu[n]
           /\ \A b \in Attempts \ {a} : gpu'[m][b] = gpu[m][b]
           /\ gpu'[m][a] = [status |-> status, clean |-> clean]
BY DEF SetGPU, TypeOK

LEMMA RunEffect ==
    ASSUME TypeOK, NEW m \in Meetings, NEW a \in Attempts, Run(m, a)
    PROVE  /\ \A n \in Meetings \ {m} : runs'[n] = runs[n]
           /\ \A b \in Attempts \ {a} : runs'[m][b] = runs[m][b]
           /\ runs'[m][a] = runs[m][a] + 1
BY DEF Run, TypeOK

(* What the invariant says of the current attempt of m.                    *)
LEMMA CurrentFacts ==
    ASSUME IInv, NEW m \in Meetings
    PROVE  /\ record[m] \in Record
           /\ Last(record[m]) \in Attempts /\ Attempt(m) = Last(record[m])
           /\ CurrentJob(m) = record[m].jobs[Last(record[m])]
           /\ CurrentJob(m) \in Job
           /\ RemoteJob(m) = gpu[m][Last(record[m])]
           /\ RemoteJob(m) \in GPUJob
           /\ deadline[m] \in BOOLEAN /\ upload[m] \in BOOLEAN
           /\ manifest[m] \in 0..MaxAttempts
           /\ gpu[m] \in [Attempts -> GPUJob]
           /\ runs[m] \in [Attempts -> Nat]
           /\ GPUInv(record[m], gpu[m], runs[m], deadline[m])
           /\ RecordInv(record[m], manifest[m], upload[m])
           /\ PlaceInv(record[m], manifest[m], gpu[m], pc[m])
           /\ JobInv(RemoteJob(m), runs[m][Last(record[m])], deadline[m])
           /\ AttemptInv(CurrentJob(m), RemoteJob(m), deadline[m])
           /\ record[m].cleanup # "pending" => CurrentJob(m).cleanup # "pending"
<1>1. TypeOK /\ MeetingInv(m)
  BY DEF IInv
<1>2. /\ record[m] \in Record
      /\ Last(record[m]) \in Attempts /\ Attempt(m) = Last(record[m])
      /\ CurrentJob(m) = record[m].jobs[Last(record[m])]
      /\ CurrentJob(m) \in Job
      /\ RemoteJob(m) = gpu[m][Last(record[m])]
      /\ RemoteJob(m) \in GPUJob
  BY <1>1, RecordOf DEF GPUJob
<1>3. Last(record[m]) \in 1..Last(record[m])
  BY <1>2, RecordFacts
<1>4. /\ deadline[m] \in BOOLEAN /\ upload[m] \in BOOLEAN
      /\ manifest[m] \in 0..MaxAttempts
      /\ gpu[m] \in [Attempts -> GPUJob]
      /\ runs[m] \in [Attempts -> Nat]
  BY <1>1 DEF TypeOK, GPUJob
<1>5. /\ GPUInv(record[m], gpu[m], runs[m], deadline[m])
      /\ RecordInv(record[m], manifest[m], upload[m])
      /\ PlaceInv(record[m], manifest[m], gpu[m], pc[m])
  BY <1>1 DEF MeetingInv
<1>6. /\ JobInv(RemoteJob(m), runs[m][Last(record[m])], deadline[m])
      /\ AttemptInv(CurrentJob(m), RemoteJob(m), deadline[m])
  BY <1>2, <1>3, <1>5 DEF GPUInv
<1>7. record[m].cleanup # "pending" => CurrentJob(m).cleanup # "pending"
  BY <1>2, <1>3, <1>5 DEF RecordInv
<1>8. QED
  BY <1>2, <1>4, <1>5, <1>6, <1>7

(* Saving a record whose current job is as true as before.                 *)
LEMMA EditKeeps ==
    ASSUME IInv, TypeOK', NEW m \in Meetings, pc[m] # "idle",
           NEW q, NEW s \in Statuses, NEW j \in Job, Edits(q, record[m], s, j),
           NEW outcome \in Outcome, NEW place \in Places,
           Write(m, q, outcome), Continue(m, outcome, place),
           UNCHANGED <<api, manifest, upload, deadline, schedule>>,
           \A n \in Meetings \ {m} : gpu'[n] = gpu[n] /\ runs'[n] = runs[n],
           GPUInv(record[m], gpu'[m], runs'[m], deadline[m]),
           AttemptInv(j, gpu'[m][Last(record[m])], deadline[m]),
           CurrentJob(m).cleanup # "pending" => j.cleanup # "pending",
           manifest[m] = Last(record[m]) => j.bound,
           s \in Ready /\ manifest[m] # Last(record[m]) => j.ack,
           PlaceInv(q, manifest[m], gpu'[m], place)
    PROVE  IInv'
<1>0. PICK r, hs, us : r = record[m] /\ hs = gpu'[m] /\ us = runs'[m]
  OBVIOUS
<1>1. /\ r \in Record /\ deadline[m] \in BOOLEAN
      /\ manifest[m] \in 0..MaxAttempts /\ upload[m] \in BOOLEAN
      /\ RecordInv(r, manifest[m], upload[m])
      /\ r.cleanup # "pending" => j.cleanup # "pending"
  BY <1>0, CurrentFacts
<1>2. /\ Edits(q, r, s, j) /\ AttemptInv(j, hs[Last(r)], deadline[m])
      /\ GPUInv(r, hs, us, deadline[m])
      /\ manifest[m] = Last(r) => j.bound
      /\ s \in Ready /\ manifest[m] # Last(r) => j.ack
  BY <1>0
<1>3. /\ GPUInv(q, hs, us, deadline[m])
      /\ RecordInv(q, manifest[m], upload[m])
  <2>1. /\ q.local = r.local /\ q.cleanup = r.cleanup /\ q.status = s
        /\ Last(q) = Last(r) /\ q.jobs[Last(r)] = j
        /\ \A a \in 1..Last(r) : a # Last(r) => q.jobs[a] = r.jobs[a]
    BY <1>2 DEF Edits
  <2>2. GPUInv(q, hs, us, deadline[m])
    BY <1>2, <2>1 DEF GPUInv
  <2>3. \A a \in 1..Last(r) :
           q.cleanup # "pending" => q.jobs[a].cleanup # "pending"
    BY <1>1, <2>1 DEF RecordInv
  <2>4. RecordInv(q, manifest[m], upload[m])
    BY <1>1, <1>2, <2>1, <2>3 DEF RecordInv
  <2>5. QED
    BY <2>2, <2>4
<1>4. q \in Record
  BY <1>2 DEF Edits
<1>5. QED
  BY <1>0, <1>3, <1>4, SaveKeeps

LEMMA SaveEditKeeps ==
    ASSUME IInv, TypeOK', NEW m \in Meetings, pc[m] # "idle",
           NEW q, NEW s \in Statuses, NEW j \in Job, Edits(q, record[m], s, j),
           NEW outcome \in Outcome, NEW place \in Places,
           Save(m, q, outcome, place),
           UNCHANGED <<api, manifest, upload, deadline, schedule>>,
           \A n \in Meetings \ {m} : gpu'[n] = gpu[n] /\ runs'[n] = runs[n],
           GPUInv(record[m], gpu'[m], runs'[m], deadline[m]),
           AttemptInv(j, gpu'[m][Last(record[m])], deadline[m]),
           CurrentJob(m).cleanup # "pending" => j.cleanup # "pending",
           manifest[m] = Last(record[m]) => j.bound,
           s \in Ready /\ manifest[m] # Last(record[m]) => j.ack,
           PlaceInv(q, manifest[m], gpu'[m], place)
    PROVE  IInv'
BY EditKeeps DEF Save

(* A failing meeting keeps what is true of it.                             *)
LEMMA FailKeeps ==
    ASSUME IInv, TypeOK', NEW m \in Meetings, pc[m] # "idle",
           NEW outcome \in Outcome, NEW cost, Fail(m, outcome, cost),
           UNCHANGED <<api, manifest, upload, deadline, remote, schedule>>
    PROVE  IInv'
<1> DEFINE q == [record[m] EXCEPT !.status = "failed"]
<1>1. "failed" \in Statuses /\ "failed" \notin Ready /\ "idle" \in Places
  BY DEF Statuses, Ready, Places
<1>2. Edits(q, record[m], "failed", CurrentJob(m))
  BY <1>1, EditStatus, CurrentFacts
<1>3. /\ Write(m, q, outcome) /\ Continue(m, outcome, "idle")
      /\ gpu' = gpu /\ runs' = runs
  BY DEF Fail, Continue, remote
<1> HIDE DEF q
<1>4. PlaceInv(q, manifest[m], gpu[m], "idle")
  BY FreePlaces
<1>5. /\ CurrentJob(m) \in Job
      /\ GPUInv(record[m], gpu[m], runs[m], deadline[m])
      /\ AttemptInv(CurrentJob(m), gpu[m][Last(record[m])], deadline[m])
  BY CurrentFacts
<1>6. manifest[m] = Last(record[m]) => CurrentJob(m).bound
  BY CurrentFacts DEF RecordInv
<1>7. QED
  BY <1>1, <1>2, <1>3, <1>4, <1>5, <1>6, EditKeeps

(* What the GPU service says of the current job is true of it.             *)
LEMMA LearnKeeps ==
    ASSUME IInv, TypeOK', NEW m \in Meetings, pc[m] # "idle",
           NEW outcome \in Outcome, NEW g \in GPUJob, g.status \in Known,
           Learn(m, g, outcome),
           UNCHANGED <<api, manifest, upload, deadline, schedule>>,
           \A n \in Meetings \ {m} : gpu'[n] = gpu[n] /\ runs'[n] = runs[n],
           GPUInv(record[m], gpu'[m], runs'[m], deadline[m]),
           gpu'[m][Last(record[m])] = g
    PROVE  IInv'
<1> DEFINE over == g.status \in {"failed", "expired"}
           s == IF over THEN "failed" ELSE "processing"
           place == IF g.status = "completed" THEN "fetch" ELSE "idle"
           j == [CurrentJob(m) EXCEPT !.bound = TRUE, !.cleanup = g.clean]
           r == record[m]
           q == [r EXCEPT !.jobs[Last(r)].bound = TRUE,
                          !.jobs[Last(r)].cleanup = g.clean, !.status = s]
<1>1. /\ s \in Statuses /\ s \notin Ready /\ place \in Places
      /\ place = "fetch" => s = "processing"
      /\ place = "fetch" \/ place = "idle"
  BY DEF Statuses, Ready, Places
<1>2. /\ r \in Record /\ Attempt(m) = Last(r)
      /\ Last(r) \in 1..Last(r)
      /\ CurrentJob(m) = r.jobs[Last(r)] /\ CurrentJob(m) \in Job
      /\ g.clean \in CleanupStatus
  BY CurrentFacts, RecordFacts DEF GPUJob
<1>3. Save(m, q, outcome, place)
  BY <1>2 DEF Learn
<1> HIDE DEF s, place
<1>4. Edits(q, r, s, j)
  BY <1>1, <1>2, EditLearned
<1>5. /\ j \in Job /\ j.bound /\ j.started = CurrentJob(m).started
      /\ j.cleanup = g.clean
  BY <1>2 DEF Job
<1> HIDE DEF q, j
<1>6. AttemptInv(CurrentJob(m), g, deadline[m])
  <2>1. AttemptInv(r.jobs[Last(r)], gpu'[m][Last(r)], deadline[m])
    BY <1>2, CurrentFacts DEF GPUInv
  <2>2. QED
    BY <1>2, <2>1
<1>7. CurrentJob(m).started
  BY <1>6 DEF AttemptInv, Known
<1>8. AttemptInv(j, g, deadline[m])
  BY <1>5, <1>7 DEF AttemptInv
<1>9. CurrentJob(m).cleanup # "pending" => j.cleanup # "pending"
  BY <1>5, <1>6, <1>7 DEF AttemptInv
<1>10. PlaceInv(q, manifest[m], gpu'[m], place)
  BY <1>1, <1>4, <1>5 DEF PlaceInv, Edits
<1>11. QED
  BY <1>1, <1>3, <1>4, <1>5, <1>8, <1>9, <1>10, SaveEditKeeps

-----------------------------------------------------------------------------
(* The coordinator's step *)

(* Steps that only move on, or end.                                        *)
LEMMA MoveKeeps ==
    ASSUME IInv, TypeOK', NEW m \in Meetings, pc[m] # "idle",
           NEW place \in Places, Goto(m, place),
           UNCHANGED <<api, record, manifest, upload, deadline, remote, schedule>>,
           PlaceInv(record[m], manifest[m], gpu[m], place)
    PROVE  IInv'
<1>1. pc'[m] = place /\ \A n \in Meetings \ {m} : pc'[n] = pc[n]
  BY DEF Goto, IInv, TypeOK
<1>2. OthersStay(m)
  BY <1>1 DEF OthersStay, api, remote, schedule
<1>3. /\ GPUInv(record[m], gpu[m], runs[m], deadline[m])
      /\ RecordInv(record[m], manifest[m], upload[m])
  BY CurrentFacts
<1>4. /\ record' = record /\ gpu' = gpu /\ runs' = runs /\ manifest' = manifest
      /\ upload' = upload /\ deadline' = deadline
  BY DEF remote
<1>5. /\ GPUInv(record[m], gpu[m], runs[m], deadline[m])'
      /\ RecordInv(record[m], manifest[m], upload[m])'
      /\ PlaceInv(record[m], manifest[m], gpu[m], pc[m])'
  BY <1>1, <1>3, <1>4
<1>6. QED
  BY <1>2, <1>5, StepKeeps

LEMMA MovesKeep ==
    ASSUME IInv, TypeOK', NEW m \in Meetings,
           \/ LeaveFailed(m) \/ LookupMisses(m) \/ Wait(m) \/ Fetch(m)
           \/ UploadGone(m) \/ Unavailable(m)
           \/ \E ok \in BOOLEAN : Republish(m, ok)
    PROVE  IInv'
<1> DEFINE r == record[m]
<1>1. pc[m] # "idle" /\ UNCHANGED <<api, record, manifest, upload, deadline,
                                    remote, schedule>>
  BY DEF LeaveFailed, LookupMisses, Wait, Fetch, UploadGone, Unavailable, Republish
<1>2. PICK place \in Places :
         /\ Goto(m, place)
         /\ \/ place = "idle"
            \/ place = "source" /\ pc[m] = "lookup"
            \/ place = "record" /\ pc[m] = "fetch"
            \/ place = "ack" /\ pc[m] = "cleanup"
            \/ place = "cleanup" /\ Published(m)
  BY DEF LeaveFailed, LookupMisses, Wait, Fetch, UploadGone, Unavailable,
         Republish, Places
<1>3. PlaceInv(r, manifest[m], gpu[m], pc[m]) /\ Attempt(m) = Last(r)
  BY CurrentFacts
<1>4. PlaceInv(r, manifest[m], gpu[m], place)
  BY <1>2, <1>3 DEF PlaceInv, Published
<1>5. QED
  BY <1>1, <1>2, <1>4, MoveKeeps

LEMMA StartKeeps ==
    ASSUME IInv, TypeOK', NEW m \in Meetings, NEW outcome \in Outcome,
           Start(m, outcome)
    PROVE  IInv'
<1> DEFINE q == [record[m] EXCEPT !.status = "processing"]
           place == IF CurrentJob(m).started THEN "lookup" ELSE "source"
<1>1. /\ pc[m] # "idle" /\ Save(m, q, outcome, place)
      /\ UNCHANGED <<api, manifest, upload, deadline, schedule>>
      /\ gpu' = gpu /\ runs' = runs /\ manifest[m] # Attempt(m)
  BY DEF Start, remote, Working, Published
<1>2. /\ "processing" \in Statuses /\ "processing" \notin Ready
      /\ place \in Places /\ place \in {"lookup", "source"}
  BY DEF Statuses, Ready, Places
<1>3. Edits(q, record[m], "processing", CurrentJob(m))
  BY <1>2, EditStatus, CurrentFacts
<1> HIDE DEF q, place
<1>4. PlaceInv(q, manifest[m], gpu[m], place)
  BY <1>2, <1>3 DEF PlaceInv, Edits
<1>5. /\ CurrentJob(m) \in Job /\ manifest[m] # Last(record[m])
      /\ GPUInv(record[m], gpu[m], runs[m], deadline[m])
      /\ AttemptInv(CurrentJob(m), gpu[m][Last(record[m])], deadline[m])
  BY <1>1, CurrentFacts
<1>6. QED
  BY <1>1, <1>2, <1>3, <1>4, <1>5, SaveEditKeeps

LEMMA AnswersKeep ==
    ASSUME IInv, TypeOK', NEW m \in Meetings, NEW outcome \in Outcome,
           Poll(m, outcome) \/ LookupFinds(m, outcome)
    PROVE  IInv'
<1>1. /\ pc[m] # "idle" /\ RemoteJob(m).status \in Known
      /\ Learn(m, RemoteJob(m), outcome)
      /\ UNCHANGED <<api, manifest, upload, deadline, schedule>>
      /\ gpu' = gpu /\ runs' = runs
  BY DEF Poll, LookupFinds, remote
<1>2. PICK g \in GPUJob : g = RemoteJob(m)
  BY CurrentFacts
<1>3. /\ GPUInv(record[m], gpu'[m], runs'[m], deadline[m])
      /\ gpu'[m][Last(record[m])] = g
  BY <1>1, <1>2, CurrentFacts
<1>4. QED
  BY <1>1, <1>2, <1>3, LearnKeeps

(* The audio is sent only before the deadline, so nothing that was called  *)
(* clean for want of a submission comes back, and the key is not forgotten.*)
LEMMA SourceKeeps ==
    ASSUME IInv, TypeOK', NEW m \in Meetings, NEW outcome \in Outcome,
           Source(m, outcome)
    PROVE  IInv'
<1>1. /\ pc[m] = "source"
      /\ UNCHANGED <<api, manifest, upload, deadline, remote, schedule>>
      /\ gpu' = gpu /\ runs' = runs
  BY DEF Source, remote
<1>2. CASE ~SourceAvailable(m)
  BY <1>1, <1>2, FailKeeps DEF Source
<1>3. CASE SourceAvailable(m)
  <2> DEFINE r == record[m]
             j == [CurrentJob(m) EXCEPT !.started = TRUE]
             q == [r EXCEPT !.jobs[Last(r)].started = TRUE]
  <2>1. /\ r \in Record /\ Attempt(m) = Last(r)
        /\ CurrentJob(m) = r.jobs[Last(r)] /\ CurrentJob(m) \in Job
        /\ "submit" \in Places /\ r.status \in Statuses
    BY CurrentFacts, RecordFacts DEF Places
  <2>2. Save(m, q, outcome, "submit")
    BY <1>3, <2>1 DEF Source
  <2>3. Edits(q, r, r.status, j)
    BY <2>1, EditStarted
  <2>4. /\ j \in Job /\ j.started /\ j.bound = CurrentJob(m).bound
        /\ j.cleanup = CurrentJob(m).cleanup /\ j.ack = CurrentJob(m).ack
    BY <2>1 DEF Job
  <2> HIDE DEF q, j
  <2>5. ~deadline[m] /\ r.status = "processing"
    BY <1>1, <1>3, CurrentFacts DEF SourceAvailable, PlaceInv
  <2>6. /\ AttemptInv(CurrentJob(m), gpu[m][Last(r)], deadline[m])
        /\ JobInv(gpu[m][Last(r)], runs[m][Last(r)], deadline[m])
        /\ manifest[m] = Last(r) => CurrentJob(m).bound
        /\ GPUInv(r, gpu[m], runs[m], deadline[m])
    BY <2>1, CurrentFacts DEF RecordInv
  <2>7. AttemptInv(j, gpu[m][Last(r)], deadline[m])
    BY <2>4, <2>5, <2>6 DEF AttemptInv
  <2>8. PlaceInv(q, manifest[m], gpu[m], "submit")
    BY <2>3, <2>4, <2>5, <2>6 DEF PlaceInv, Edits, JobInv
  <2>9. r.status \notin Ready
    BY <2>5 DEF Ready
  <2>10. QED
    BY <1>1, <2>1, <2>2, <2>3, <2>4, <2>6, <2>7, <2>8, <2>9, SaveEditKeeps
<1>4. QED
  BY <1>2, <1>3

(* A submission runs a job only under a key that no job ran under.         *)
LEMMA SubmitAnsweredKeeps ==
    ASSUME IInv, TypeOK', NEW m \in Meetings, NEW outcome \in Outcome,
           SubmitAnswered(m, outcome)
    PROVE  IInv'
<1> DEFINE r == record[m]
           a == Last(r)
<1>1. /\ r \in Record /\ a \in Attempts /\ Attempt(m) = a /\ a \in 1..a
      /\ CurrentJob(m) = r.jobs[a] /\ RemoteJob(m) = gpu[m][a]
      /\ runs[m] \in [Attempts -> Nat]
      /\ deadline[m] \in BOOLEAN
  BY CurrentFacts, RecordFacts
<1>2. /\ pc[m] = "submit" /\ Learn(m, gpu'[m][a], outcome)
      /\ UNCHANGED <<api, manifest, upload, deadline, schedule>>
  BY <1>1 DEF SubmitAnswered
<1>3. /\ AttemptInv(r.jobs[a], gpu[m][a], deadline[m])
      /\ JobInv(gpu[m][a], runs[m][a], deadline[m])
      /\ GPUInv(r, gpu[m], runs[m], deadline[m])
      /\ r.jobs[a].started /\ gpu[m][a].status # "forgotten"
  BY <1>1, <1>2, CurrentFacts DEF PlaceInv
<1> HIDE DEF a
<1>4. CASE SetGPU(m, a, "running", "pending") /\ Run(m, a)
           /\ gpu[m][a].status \in {"none", "sent", "reserved", "forgotten"}
  <2>1. /\ \A n \in Meetings \ {m} : gpu'[n] = gpu[n] /\ runs'[n] = runs[n]
        /\ \A b \in Attempts \ {a} : gpu'[m][b] = gpu[m][b]
                                      /\ runs'[m][b] = runs[m][b]
        /\ gpu'[m][a] = [status |-> "running", clean |-> "pending"]
        /\ runs'[m][a] = runs[m][a] + 1
    BY <1>1, <1>4, SetGPUEffect, RunEffect DEF IInv
  <2>2. runs[m][a] = 0
    BY <1>3, <1>4 DEF JobInv
  <2>3. JobInv(gpu'[m][a], runs'[m][a], deadline[m])
    BY <2>1, <2>2 DEF JobInv
  <2>4. AttemptInv(r.jobs[a], gpu'[m][a], deadline[m])
    BY <1>3, <1>4, <2>1 DEF AttemptInv, Known
  <2>5. ~(a > Last(r))
    BY <1>1 DEF a
  <2>6. GPUInv(r, gpu'[m], runs'[m], deadline[m])
    BY <1>1, <1>3, <2>1, <2>3, <2>4, <2>5, JobKeeps
  <2>7. PICK g \in GPUJob : g = gpu'[m][a] /\ g.status \in Known
    BY <2>1 DEF GPUJob, GPUStatus, CleanupStatus, Known
  <2>8. QED
    BY <1>2, <2>1, <2>6, <2>7, LearnKeeps DEF a
<1>5. CASE UNCHANGED remote
           /\ gpu[m][a].status \in {"running", "completed", "failed"}
  <2>1. gpu' = gpu /\ runs' = runs
    BY <1>5 DEF remote
  <2>2. PICK g \in GPUJob : g = gpu[m][a] /\ g.status \in Known
    BY <1>1, <1>5, CurrentFacts DEF Known
  <2>3. QED
    BY <1>2, <1>3, <2>1, <2>2, LearnKeeps DEF a
<1>6. QED
  BY <1>1, <1>4, <1>5 DEF SubmitAnswered

LEMMA SubmitLostKeeps ==
    ASSUME IInv, TypeOK', NEW m \in Meetings, SubmitLost(m)
    PROVE  IInv'
<1> DEFINE r == record[m]
           a == Last(r)
<1>1. /\ r \in Record /\ a \in Attempts /\ Attempt(m) = a /\ a \in 1..a
      /\ CurrentJob(m) = r.jobs[a] /\ RemoteJob(m) = gpu[m][a]
      /\ deadline[m] \in BOOLEAN
  BY CurrentFacts, RecordFacts
<1>2. /\ pc[m] = "submit" /\ Goto(m, "idle") /\ "idle" \in Places
      /\ UNCHANGED <<api, record, manifest, upload, deadline, runs, schedule>>
  BY DEF SubmitLost, Places
<1>3. /\ AttemptInv(r.jobs[a], gpu[m][a], deadline[m])
      /\ JobInv(gpu[m][a], runs[m][a], deadline[m])
      /\ GPUInv(r, gpu[m], runs[m], deadline[m])
      /\ RecordInv(r, manifest[m], upload[m])
      /\ r.jobs[a].started
  BY <1>1, <1>2, CurrentFacts DEF PlaceInv
<1> HIDE DEF a
<1>4. CASE gpu[m][a].status # "none"
  <2>1. gpu' = gpu
    BY <1>1, <1>4 DEF SubmitLost
  <2>2. PlaceInv(r, manifest[m], gpu[m], "idle")
    BY FreePlaces
  <2>3. QED
    BY <1>2, <2>1, <2>2, MoveKeeps DEF remote
<1>5. CASE gpu[m][a].status = "none"
  <2>1. SetGPU(m, a, "sent", "pending")
    BY <1>1, <1>5 DEF SubmitLost
  <2>2. /\ \A n \in Meetings \ {m} : gpu'[n] = gpu[n]
        /\ \A b \in Attempts \ {a} : gpu'[m][b] = gpu[m][b]
        /\ gpu'[m][a] = [status |-> "sent", clean |-> "pending"]
    BY <1>1, <2>1, SetGPUEffect DEF IInv
  <2>3. JobInv(gpu'[m][a], runs[m][a], deadline[m])
    BY <1>3, <1>5, <2>2 DEF JobInv
  <2>4. AttemptInv(r.jobs[a], gpu'[m][a], deadline[m])
    BY <1>3, <1>5, <2>2 DEF AttemptInv, Known
  <2>5. ~(a > Last(r))
    BY <1>1 DEF a
  <2>6. GPUInv(r, gpu'[m], runs[m], deadline[m])
    BY <1>1, <1>3, <2>2, <2>3, <2>4, <2>5, JobKeeps
  <2>7. pc'[m] = "idle" /\ \A n \in Meetings \ {m} : pc'[n] = pc[n]
    BY <1>2 DEF Goto, IInv, TypeOK
  <2>8. OthersStay(m)
    BY <1>2, <2>2, <2>7 DEF OthersStay, api, schedule
  <2>9. PlaceInv(r, manifest[m], gpu'[m], "idle")
    BY FreePlaces
  <2>10. /\ GPUInv(record[m], gpu[m], runs[m], deadline[m])'
         /\ RecordInv(record[m], manifest[m], upload[m])'
         /\ PlaceInv(record[m], manifest[m], gpu[m], pc[m])'
    BY <1>2, <1>3, <2>6, <2>7, <2>9
  <2>11. QED
    BY <1>2, <2>8, <2>10, StepKeeps
<1>6. QED
  BY <1>4, <1>5

LEMMA PublishRecordKeeps ==
    ASSUME IInv, TypeOK', NEW m \in Meetings, NEW outcome \in Outcome,
           PublishRecord(m, outcome)
    PROVE  IInv'
<1> DEFINE r == record[m]
           j == [CurrentJob(m) EXCEPT !.ack = TRUE]
           q == [r EXCEPT !.status = "review_required",
                          !.jobs[Last(r)].ack = TRUE]
<1>1. /\ r \in Record /\ Attempt(m) = Last(r)
      /\ CurrentJob(m) = r.jobs[Last(r)] /\ CurrentJob(m) \in Job
      /\ "manifest" \in Places /\ "review_required" \in Statuses
  BY CurrentFacts DEF Places, Statuses, Ready
<1>2. /\ pc[m] = "record" /\ Save(m, q, outcome, "manifest")
      /\ UNCHANGED <<api, manifest, upload, deadline, schedule>>
      /\ gpu' = gpu /\ runs' = runs
  BY <1>1 DEF PublishRecord, remote
<1>3. Edits(q, r, "review_required", j)
  BY <1>1, EditPublished
<1>4. /\ j \in Job /\ j.started = CurrentJob(m).started /\ j.ack
      /\ j.bound = CurrentJob(m).bound /\ j.cleanup = CurrentJob(m).cleanup
  BY <1>1 DEF Job
<1> HIDE DEF q, j
<1>5. /\ AttemptInv(CurrentJob(m), gpu[m][Last(r)], deadline[m])
      /\ GPUInv(r, gpu[m], runs[m], deadline[m])
      /\ CurrentJob(m).bound
  BY <1>1, <1>2, CurrentFacts DEF PlaceInv
<1>6. AttemptInv(j, gpu[m][Last(r)], deadline[m])
  BY <1>4, <1>5 DEF AttemptInv
<1>7. PlaceInv(q, manifest[m], gpu[m], "manifest")
  BY <1>3, <1>4, <1>5 DEF PlaceInv, Edits
<1>8. QED
  BY <1>1, <1>2, <1>3, <1>4, <1>5, <1>6, <1>7, SaveEditKeeps

LEMMA PublishManifestKeeps ==
    ASSUME IInv, TypeOK', NEW m \in Meetings, NEW outcome \in Outcome,
           PublishManifest(m, outcome)
    PROVE  IInv'
<1> DEFINE r == record[m]
<1>1. /\ r \in Record /\ Attempt(m) = Last(r) /\ Last(r) \in Nat
      /\ CurrentJob(m) = r.jobs[Last(r)]
  BY CurrentFacts DEF Attempts
<1>2. /\ pc[m] = "manifest"
      /\ manifest' = IF outcome = "lost" THEN manifest
                     ELSE [manifest EXCEPT ![m] = Last(r)]
      /\ Continue(m, outcome, "cleanup")
      /\ UNCHANGED <<api, record, upload, deadline, remote, schedule>>
      /\ gpu' = gpu /\ runs' = runs
  BY <1>1 DEF PublishManifest, remote
<1>3. /\ GPUInv(r, gpu[m], runs[m], deadline[m])
      /\ RecordInv(r, manifest[m], upload[m])
      /\ r.jobs[Last(r)].bound
  BY <1>1, <1>2, CurrentFacts DEF PlaceInv
<1>4. /\ manifest'[m] = manifest[m] \/ manifest'[m] = Last(r)
      /\ pc'[m] = "idle" \/ (pc'[m] = "cleanup" /\ manifest'[m] = Last(r))
      /\ \A n \in Meetings \ {m} : manifest'[n] = manifest[n] /\ pc'[n] = pc[n]
  BY <1>2 DEF Continue, Goto, IInv, TypeOK, Outcome
<1>5. OthersStay(m)
  BY <1>2, <1>4 DEF OthersStay, api, schedule
<1>6. RecordInv(r, Last(r), upload[m])
  BY <1>1, <1>3 DEF RecordInv
<1>7. RecordInv(r, manifest'[m], upload[m])
  BY <1>3, <1>4, <1>6
<1>8. PlaceInv(r, manifest'[m], gpu[m], pc'[m])
  <2>1. CASE pc'[m] = "idle"
    BY <2>1, FreePlaces
  <2>2. CASE pc'[m] = "cleanup" /\ manifest'[m] = Last(r)
    BY <2>2 DEF PlaceInv
  <2>3. QED
    BY <1>4, <2>1, <2>2
<1>9. /\ GPUInv(record[m], gpu[m], runs[m], deadline[m])'
      /\ RecordInv(record[m], manifest[m], upload[m])'
      /\ PlaceInv(record[m], manifest[m], gpu[m], pc[m])'
  BY <1>2, <1>3, <1>7, <1>8
<1>10. QED
  BY <1>2, <1>5, <1>9, StepKeeps

LEMMA RemoveUploadKeeps ==
    ASSUME IInv, TypeOK', NEW m \in Meetings, NEW removal \in Removal,
           NEW outcome \in Outcome, RemoveUpload(m, removal, outcome)
    PROVE  IInv'
<1> DEFINE r == record[m]
           q == [r EXCEPT !.local = "deleted"]
<1>1. /\ pc[m] = "cleanup" /\ r.local = "pending"
      /\ Remove(m, removal)
      /\ Write(m, IF removal = "removed" THEN q ELSE r, outcome)
      /\ Continue(m, outcome, "ack")
      /\ UNCHANGED <<api, manifest, deadline, schedule>>
      /\ gpu' = gpu /\ runs' = runs
  BY DEF RemoveUpload, remote
<1>2. /\ GPUInv(r, gpu[m], runs[m], deadline[m]) /\ r \in Record
      /\ RecordInv(r, manifest[m], upload[m])
      /\ manifest[m] = Last(r) /\ upload[m] \in BOOLEAN
  BY <1>1, CurrentFacts DEF PlaceInv
<1>3. /\ upload'[m] \in {upload[m], FALSE}
      /\ removal = "removed" => ~upload'[m]
      /\ record'[m] = r \/ (record'[m] = q /\ removal = "removed")
      /\ pc'[m] \in {"idle", "ack"}
      /\ \A n \in Meetings \ {m} : /\ upload'[n] = upload[n] /\ pc'[n] = pc[n]
                                   /\ record'[n] = record[n]
  BY <1>1 DEF Remove, Write, Continue, Goto, IInv, TypeOK
<1>4. OthersStay(m)
  BY <1>1, <1>3 DEF OthersStay, api, schedule
<1>5. /\ q.status = r.status /\ q.local = "deleted" /\ q.cleanup = r.cleanup
      /\ q.jobs = r.jobs /\ Last(q) = Last(r)
  BY <1>2 DEF Record, Last
<1> HIDE DEF q
<1>6. r.cleanup = "pending"
  BY <1>1, <1>2 DEF RecordInv
<1>7. \A file \in BOOLEAN : RecordInv(r, manifest[m], file)
  BY <1>1, <1>2, <1>6 DEF RecordInv
<1>8. RecordInv(q, manifest[m], FALSE) /\ GPUInv(q, gpu[m], runs[m], deadline[m])
  BY <1>2, <1>5, <1>6 DEF RecordInv, GPUInv
<1>9. RecordInv(record'[m], manifest[m], upload'[m])
  <2>1. CASE record'[m] = r
    BY <1>2, <1>3, <1>7, <2>1
  <2>2. CASE record'[m] = q /\ removal = "removed"
    <3>1. upload'[m] = FALSE
      BY <1>2, <1>3, <2>2
    <3>2. QED
      BY <1>8, <2>2, <3>1
  <2>3. QED
    BY <1>3, <2>1, <2>2
<1>10. GPUInv(record'[m], gpu[m], runs[m], deadline[m])
  BY <1>2, <1>3, <1>8
<1>11. PlaceInv(record'[m], manifest[m], gpu[m], pc'[m])
  BY <1>2, <1>3, <1>5 DEF PlaceInv
<1>12. /\ GPUInv(record[m], gpu[m], runs[m], deadline[m])'
       /\ RecordInv(record[m], manifest[m], upload[m])'
       /\ PlaceInv(record[m], manifest[m], gpu[m], pc[m])'
  BY <1>1, <1>9, <1>10, <1>11
<1>13. QED
  BY <1>1, <1>4, <1>12, StepKeeps

LEMMA CloseKeeps ==
    ASSUME IInv, TypeOK', NEW m \in Meetings, NEW outcome \in Outcome,
           Close(m, outcome)
    PROVE  IInv'
<1> DEFINE r == record[m]
           q == WithCleanup(r)
<1>1. /\ pc[m] = "ack" /\ Save(m, q, outcome, "idle") /\ "idle" \in Places
      /\ UNCHANGED <<api, manifest, upload, deadline, schedule>>
      /\ gpu' = gpu /\ runs' = runs
  BY DEF Close, remote, Places
<1>2. /\ GPUInv(r, gpu[m], runs[m], deadline[m]) /\ r \in Record
      /\ RecordInv(r, manifest[m], upload[m])
  BY CurrentFacts
<1>3. /\ q \in Record /\ q.status = r.status /\ q.local = r.local
      /\ q.jobs = r.jobs /\ Last(q) = Last(r)
      /\ q.cleanup # "pending" =>
           /\ r.local # "pending"
           /\ \A a \in 1..Last(r) : r.jobs[a].cleanup # "pending"
  BY <1>2, WithCleanupFacts
<1> HIDE DEF q
<1>4. /\ GPUInv(q, gpu[m], runs[m], deadline[m])
      /\ RecordInv(q, manifest[m], upload[m])
  BY <1>2, <1>3 DEF GPUInv, RecordInv
<1>5. PlaceInv(q, manifest[m], gpu[m], "idle")
  BY FreePlaces
<1>6. QED
  BY <1>1, <1>2, <1>3, <1>4, <1>5, SaveKeeps DEF Save

(* The receipt is recorded only when it says that the copy is gone.        *)
LEMMA AcknowledgeKeeps ==
    ASSUME IInv, TypeOK', NEW m \in Meetings, NEW outcome \in Outcome,
           NEW arrives \in BOOLEAN, NEW answered \in BOOLEAN,
           Acknowledge(m, arrives, answered, outcome)
    PROVE  IInv'
<1> DEFINE r == record[m]
           a == Last(r)
           g == RemoteJob(m)
           e == Erased(g)
           done == [r EXCEPT !.jobs[a].cleanup = e, !.jobs[a].ack = FALSE]
           j == [CurrentJob(m) EXCEPT !.cleanup = e, !.ack = FALSE]
           x == IF answered THEN done ELSE r
           q == WithCleanup(x)
<1>1. /\ r \in Record /\ a \in Attempts /\ Attempt(m) = a /\ a \in 1..a
      /\ CurrentJob(m) = r.jobs[a] /\ g = gpu[m][a] /\ g \in GPUJob
      /\ CurrentJob(m) \in Job
      /\ deadline[m] \in BOOLEAN /\ e \in CleanupStatus
  BY CurrentFacts, RecordFacts DEF GPUJob, Erased, CleanupStatus
<1>2. /\ pc[m] = "ack" /\ Goto(m, "idle") /\ Write(m, q, outcome)
      /\ answered => arrives /\ e # "pending"
      /\ UNCHANGED <<api, manifest, upload, deadline, runs, schedule>>
  <2>1. Write(m, q, outcome)
    BY DEF Acknowledge, Erased, Attempt, Last
  <2>2. /\ pc[m] = "ack" /\ Goto(m, "idle")
        /\ UNCHANGED <<api, manifest, upload, deadline, runs, schedule>>
    BY DEF Acknowledge
  <2>3. answered => arrives /\ e # "pending"
    BY DEF Acknowledge, Erased
  <2>4. QED
    BY <2>1, <2>2, <2>3
<1>3. IF arrives THEN SetGPU(m, a, g.status, e) ELSE gpu' = gpu
  <2>1. IF arrives
        THEN SetGPU(m, Attempt(m), RemoteJob(m).status, Erased(RemoteJob(m)))
        ELSE gpu' = gpu
    BY AcknowledgeErases DEF IInv
  <2>2. QED
    BY <1>1, <2>1
<1>4. /\ GPUInv(r, gpu[m], runs[m], deadline[m])
      /\ RecordInv(r, manifest[m], upload[m])
      /\ JobInv(g, runs[m][a], deadline[m])
      /\ AttemptInv(r.jobs[a], g, deadline[m])
      /\ manifest[m] = a /\ r.jobs[a].bound
  BY <1>1, <1>2, CurrentFacts DEF PlaceInv, RecordInv
<1>5. Edits(done, r, r.status, j)
  BY <1>1, EditAcknowledged
<1>6. /\ j.bound /\ j.started = r.jobs[a].started /\ j.cleanup = e
  BY <1>1, <1>4 DEF Job
<1>7. /\ g.clean # "pending" => e # "pending"
      /\ g.status = "running" => e = g.clean
      /\ g.status = "forgotten" => e = g.clean
  BY DEF Erased
<1> HIDE DEF done, j, a, g, e
<1>8. GPUInv(r, gpu'[m], runs[m], deadline[m])
      /\ (arrives => gpu'[m][a] = [status |-> g.status, clean |-> e])
      /\ \A n \in Meetings \ {m} : gpu'[n] = gpu[n]
  <2>1. CASE ~arrives
    BY <1>3, <1>4, <2>1
  <2>2. CASE arrives
    <3>1. /\ \A n \in Meetings \ {m} : gpu'[n] = gpu[n]
          /\ \A b \in Attempts \ {a} : gpu'[m][b] = gpu[m][b]
          /\ gpu'[m][a] = [status |-> g.status, clean |-> e]
      BY <1>1, <1>3, <2>2, SetGPUEffect DEF IInv
    <3>2. JobInv(gpu'[m][a], runs[m][a], deadline[m])
      BY <1>4, <1>7, <3>1 DEF JobInv
    <3>3. AttemptInv(r.jobs[a], gpu'[m][a], deadline[m])
      BY <1>4, <1>7, <3>1 DEF AttemptInv
    <3>4. ~(a > Last(r))
      BY <1>1 DEF a
    <3>5. GPUInv(r, gpu'[m], runs[m], deadline[m])
      BY <1>1, <1>4, <3>1, <3>2, <3>3, <3>4, JobKeeps
    <3>6. QED
      BY <3>1, <3>5
  <2>3. QED
    BY <2>1, <2>2
<1>9. /\ x \in Record /\ x.status = r.status /\ Last(x) = a
      /\ GPUInv(x, gpu'[m], runs[m], deadline[m])
      /\ x.jobs[a].bound /\ x.local = r.local
  <2>1. CASE ~answered
    BY <1>1, <1>4, <1>8, <2>1 DEF a
  <2>2. CASE answered
    <3>1. /\ done \in Record /\ done.status = r.status /\ Last(done) = a
          /\ done.jobs[a] = j /\ done.local = r.local
          /\ \A b \in 1..a : b # a => done.jobs[b] = r.jobs[b]
      BY <1>5 DEF Edits, a
    <3>2. gpu'[m][a] = [status |-> g.status, clean |-> e] /\ e # "pending"
      BY <1>2, <1>8, <2>2
    <3>3. AttemptInv(j, gpu'[m][a], deadline[m])
      BY <1>4, <1>6, <3>2 DEF AttemptInv
    <3>4. GPUInv(done, gpu'[m], runs[m], deadline[m])
      BY <1>8, <3>1, <3>3 DEF GPUInv, a
    <3>5. QED
      BY <1>6, <2>2, <3>1, <3>4
  <2>3. QED
    BY <2>1, <2>2
<1> HIDE DEF x
<1>10. /\ q \in Record /\ q.status = x.status /\ q.local = x.local
       /\ q.jobs = x.jobs /\ Last(q) = Last(x)
       /\ q.cleanup # "pending" =>
            /\ x.local # "pending"
            /\ \A b \in 1..Last(x) : x.jobs[b].cleanup # "pending"
  BY <1>9, WithCleanupFacts
<1> HIDE DEF q
<1>11. /\ GPUInv(q, gpu'[m], runs[m], deadline[m])
       /\ RecordInv(q, manifest[m], upload[m])
  BY <1>4, <1>9, <1>10 DEF GPUInv, RecordInv, a
<1>12. /\ record'[m] = r \/ record'[m] = q
       /\ pc'[m] = "idle"
       /\ \A n \in Meetings \ {m} : record'[n] = record[n] /\ pc'[n] = pc[n]
  BY <1>2 DEF Write, Goto, IInv, TypeOK
<1>13. OthersStay(m)
  BY <1>2, <1>8, <1>12 DEF OthersStay, api, schedule
<1>14. /\ GPUInv(record'[m], gpu'[m], runs[m], deadline[m])
       /\ RecordInv(record'[m], manifest[m], upload[m])
       /\ PlaceInv(record'[m], manifest[m], gpu'[m], pc'[m])
  BY <1>4, <1>8, <1>11, <1>12, FreePlaces
<1>15. /\ GPUInv(record[m], gpu[m], runs[m], deadline[m])'
       /\ RecordInv(record[m], manifest[m], upload[m])'
       /\ PlaceInv(record[m], manifest[m], gpu[m], pc[m])'
  BY <1>2, <1>14
<1>16. QED
  BY <1>2, <1>13, <1>15, StepKeeps

(* A receipt that was asked for again is recorded the same way; a record   *)
(* that says ready too early cannot be saved, and keeps owing its ACK.     *)
LEMMA ReconcileKeeps ==
    ASSUME IInv, TypeOK', NEW m \in Meetings, NEW asked \in SUBSET Attempts,
           NEW outcome \in Outcome, Reconcile(m, asked, outcome)
    PROVE  IInv'
<1> DEFINE r == record[m]
           q == Reconciled(m, asked)
<1>1. /\ GPUInv(r, gpu[m], runs[m], deadline[m]) /\ r \in Record
      /\ RecordInv(r, manifest[m], upload[m])
      /\ Attempt(m) = Last(r)
  BY CurrentFacts
<1>2. /\ pc[m] = "reconcile" /\ asked \subseteq Open(m)
      /\ UNCHANGED <<api, manifest, upload, deadline, remote, schedule>>
      /\ gpu' = gpu /\ runs' = runs
  BY DEF Reconcile, remote
<1>3. /\ q \in Record /\ q.status = r.status /\ q.local = r.local
      /\ Last(q) = Last(r)
      /\ \A a \in 1..Last(r) : q.jobs[a] =
            IF a \in Confirmed(m, asked)
            THEN [r.jobs[a] EXCEPT !.cleanup = gpu[m][a].clean, !.ack = FALSE]
            ELSE r.jobs[a]
      /\ q.cleanup # "pending" =>
            /\ r.local # "pending"
            /\ \A a \in 1..Last(r) : q.jobs[a].cleanup # "pending"
  BY ReconciledFacts DEF IInv
<1>4. CASE ~(Confirmed(m, asked) # {} /\ Writable(m, r))
  <2>1. PICK place \in Places : /\ Goto(m, place)
                                /\ place \in {"idle", "reconcile", "advance"}
    BY <1>4 DEF Reconcile, Places
  <2>2. UNCHANGED record
    BY <1>4 DEF Reconcile
  <2>3. PlaceInv(r, manifest[m], gpu[m], place)
    BY <2>1, FreePlaces
  <2>4. QED
    BY <1>2, <2>1, <2>2, <2>3, MoveKeeps
<1>5. CASE Confirmed(m, asked) # {} /\ Writable(m, r)
  <2>1. Write(m, q, outcome) /\ Continue(m, outcome, "advance")
    BY <1>5 DEF Reconcile
  <2> HIDE DEF q
  <2>2. ASSUME NEW a \in 1..Last(r)
        PROVE  /\ q.jobs[a].bound = r.jobs[a].bound
               /\ AttemptInv(q.jobs[a], gpu[m][a], deadline[m])
    <3>1. r.jobs[a] \in Job /\ AttemptInv(r.jobs[a], gpu[m][a], deadline[m])
      <4>1. a \in Attempts
        <5>1. Last(r) \in Attempts
          BY CurrentFacts
        <5>2. QED
          BY <5>1, MaxAttemptsAssumption DEF Attempts
      <4>2. QED
        BY <1>1, <4>1, RecordFacts DEF GPUInv
    <3>2. CASE a \notin Confirmed(m, asked)
      BY <1>3, <3>1, <3>2
    <3>3. CASE a \in Confirmed(m, asked)
      <4> DEFINE j == [r.jobs[a] EXCEPT !.cleanup = gpu[m][a].clean, !.ack = FALSE]
      <4>1. /\ j.bound = r.jobs[a].bound /\ j.started = r.jobs[a].started
            /\ j.cleanup = gpu[m][a].clean
        BY <3>1 DEF Job
      <4>2. q.jobs[a] = j
        BY <1>3, <3>3
      <4> HIDE DEF j
      <4>3. r.jobs[a].bound /\ gpu[m][a].clean # "pending"
        BY <1>2, <3>3 DEF Confirmed, Open
      <4>4. QED
        BY <3>1, <4>1, <4>2, <4>3 DEF AttemptInv
    <3>4. QED
      BY <3>2, <3>3
  <2>3. GPUInv(q, gpu[m], runs[m], deadline[m])
    BY <1>1, <1>3, <2>2 DEF GPUInv
  <2>4. r.status \in Ready => manifest[m] = Last(r)
    BY <1>1, <1>5 DEF Writable, Published
  <2>5. Last(r) \in 1..Last(r)
    BY <1>1, RecordFacts
  <2>6. RecordInv(q, manifest[m], upload[m])
    BY <1>1, <1>3, <2>2, <2>4, <2>5 DEF RecordInv
  <2>7. /\ record'[m] = r \/ record'[m] = q
        /\ pc'[m] \in {"idle", "advance"}
        /\ \A n \in Meetings \ {m} : record'[n] = record[n] /\ pc'[n] = pc[n]
    BY <2>1 DEF Write, Continue, Goto, IInv, TypeOK
  <2>8. OthersStay(m)
    BY <1>2, <2>7 DEF OthersStay, api, schedule
  <2>9. /\ GPUInv(record'[m], gpu[m], runs[m], deadline[m])
        /\ RecordInv(record'[m], manifest[m], upload[m])
    BY <1>1, <2>3, <2>6, <2>7
  <2>10. PlaceInv(record'[m], manifest[m], gpu[m], pc'[m])
    BY <2>7, FreePlaces
  <2>11. /\ GPUInv(record[m], gpu[m], runs[m], deadline[m])'
         /\ RecordInv(record[m], manifest[m], upload[m])'
         /\ PlaceInv(record[m], manifest[m], gpu[m], pc[m])'
    BY <1>2, <2>9, <2>10
  <2>12. QED
    BY <1>2, <2>8, <2>11, StepKeeps
<1>6. QED
  BY <1>4, <1>5

LEMMA StepInv ==
    ASSUME IInv, TypeOK', NEW m \in Meetings, Step(m)
    PROVE  IInv'
<1>1. CASE \/ LeaveFailed(m) \/ LookupMisses(m) \/ Wait(m) \/ Fetch(m)
           \/ UploadGone(m) \/ Unavailable(m)
           \/ \E ok \in BOOLEAN : Republish(m, ok)
  BY <1>1, MovesKeep
<1>2. CASE SubmitLost(m)
  BY <1>2, SubmitLostKeeps
<1>3. ASSUME NEW outcome \in Outcome,
             \/ Start(m, outcome) \/ Poll(m, outcome) \/ LookupFinds(m, outcome)
             \/ Source(m, outcome) \/ SubmitAnswered(m, outcome)
             \/ PublishRecord(m, outcome) \/ PublishManifest(m, outcome)
             \/ Close(m, outcome)
      PROVE  IInv'
  BY <1>3, StartKeeps, AnswersKeep, SourceKeeps, SubmitAnsweredKeeps,
     PublishRecordKeeps, PublishManifestKeeps, CloseKeeps
<1>4. ASSUME NEW outcome \in Outcome,
             \/ QueryFails(m, outcome) \/ SubmitFails(m, outcome)
             \/ FetchFails(m, outcome)
      PROVE  IInv'
  <2>1. PICK cost \in {0, 1} :
        /\ pc[m] # "idle" /\ Fail(m, outcome, cost)
        /\ UNCHANGED <<api, manifest, upload, deadline, remote, schedule>>
    BY <1>4 DEF QueryFails, SubmitFails, FetchFails
  <2>2. QED
    BY <2>1, FailKeeps
<1>5. ASSUME NEW outcome \in Outcome, NEW asked \in SUBSET Attempts,
             Reconcile(m, asked, outcome)
      PROVE  IInv'
  BY <1>5, ReconcileKeeps
<1>6. ASSUME NEW outcome \in Outcome, NEW removal \in Removal,
             RemoveUpload(m, removal, outcome)
      PROVE  IInv'
  BY <1>6, RemoveUploadKeeps
<1>7. ASSUME NEW outcome \in Outcome, NEW arrives \in BOOLEAN,
             NEW answered \in BOOLEAN,
             Acknowledge(m, arrives, answered, outcome)
      PROVE  IInv'
  BY <1>7, AcknowledgeKeeps
<1>8. QED
  BY <1>1, <1>2, <1>3, <1>4, <1>5, <1>6, <1>7 DEF Step

-----------------------------------------------------------------------------
(* The API, the tick, the GPU service, the clocks and the process          *)

LEMMA CreateKeeps ==
    ASSUME IInv, TypeOK', NEW m \in Meetings, Create(m)
    PROVE  IInv'
<1>1. /\ life[m] = "absent" /\ life'[m] = "stored" /\ upload'[m] = TRUE
      /\ \A n \in Meetings \ {m} : life'[n] = life[n] /\ upload'[n] = upload[n]
      /\ UNCHANGED <<record, manifest, deadline, remote, schedule, pc, deleting>>
      /\ gpu' = gpu /\ runs' = runs
  BY DEF Create, IInv, TypeOK, remote
<1>2. OthersStay(m)
  BY <1>1 DEF OthersStay, schedule
<1>3. /\ GPUInv(record[m], gpu[m], runs[m], deadline[m])
      /\ RecordInv(record[m], manifest[m], upload[m])
      /\ PlaceInv(record[m], manifest[m], gpu[m], pc[m])
      /\ record[m] = NewRecord /\ BusyInv(m)
  BY <1>1 DEF IInv, MeetingInv
<1>4. record[m].local = "pending"
  BY <1>3 DEF NewRecord
<1>5. RecordInv(record[m], manifest[m], TRUE)
  BY <1>3, <1>4 DEF RecordInv
<1>6. MeetingInv(m)'
  BY <1>1, <1>3, <1>5 DEF MeetingInv
<1>7. BusyInv(m)'
  BY <1>1, <1>3 DEF BusyInv
<1>8. QED
  BY <1>2, <1>6, <1>7, Frame

(* A record that an API call rewrites, outside of the steps.               *)
LEMMA CallKeeps ==
    ASSUME IInv, TypeOK', NEW m \in Meetings, pc[m] = "idle", m \notin deleting,
           life[m] # "absent", NEW q, NEW outcome, Write(m, q, outcome),
           UNCHANGED <<api, manifest, upload, deadline, remote, schedule, pc>>,
           GPUInv(q, gpu[m], runs[m], deadline[m]),
           RecordInv(q, manifest[m], upload[m])
    PROVE  IInv'
<1>1. /\ record'[m] = record[m] \/ record'[m] = q
      /\ \A n \in Meetings \ {m} : record'[n] = record[n]
      /\ life' = life /\ deleting' = deleting /\ gpu' = gpu /\ runs' = runs
  BY DEF Write, IInv, TypeOK, api, remote
<1>2. OthersStay(m)
  BY <1>1 DEF OthersStay, schedule
<1>3. /\ GPUInv(record'[m], gpu[m], runs[m], deadline[m])
      /\ RecordInv(record'[m], manifest[m], upload[m])
  BY <1>1 DEF IInv, MeetingInv
<1>4. PlaceInv(record'[m], manifest[m], gpu[m], "idle")
  BY FreePlaces
<1>5. MeetingInv(m)'
  BY <1>1, <1>3, <1>4 DEF MeetingInv
<1>6. BusyInv(m)'
  BY <1>1 DEF BusyInv
<1>7. QED
  BY <1>2, <1>5, <1>6, Frame

LEMMA RetryKeeps ==
    ASSUME IInv, TypeOK', NEW m \in Meetings, NEW outcome, Retry(m, outcome)
    PROVE  IInv'
<1> DEFINE r == record[m]
           q == Retried(r)
<1>1. /\ r \in Record /\ Last(r) \in Attempts /\ Last(r) \in Nat
      /\ GPUInv(r, gpu[m], runs[m], deadline[m])
      /\ RecordInv(r, manifest[m], upload[m])
      /\ Last(r) < MaxAttempts /\ manifest[m] \in Nat
  BY CurrentFacts, MaxAttemptsAssumption DEF Retry, Attempts
<1>2. /\ pc[m] = "idle" /\ m \notin deleting /\ life[m] # "absent"
      /\ Write(m, q, outcome)
      /\ UNCHANGED <<api, manifest, upload, deadline, remote, schedule, pc>>
  BY DEF Retry, Unlocked, Retried
<1>3. /\ q.status = "queued" /\ q.cleanup = "pending" /\ q.local = r.local
      /\ Last(q) = Last(r) + 1 /\ q.jobs[Last(r) + 1] = NewJob
      /\ \A a \in 1..Last(r) : q.jobs[a] = r.jobs[a]
  BY <1>1, RetriedFacts
<1> HIDE DEF q
<1>4. ASSUME NEW a \in Attempts
      PROVE  /\ JobInv(gpu[m][a], runs[m][a], deadline[m])
             /\ a \in 1..Last(q) => AttemptInv(q.jobs[a], gpu[m][a], deadline[m])
             /\ a > Last(q) => gpu[m][a].status = "none"
  <2>1. /\ JobInv(gpu[m][a], runs[m][a], deadline[m])
        /\ a \in 1..Last(r) => AttemptInv(r.jobs[a], gpu[m][a], deadline[m])
        /\ a > Last(r) => gpu[m][a].status = "none"
    BY <1>1 DEF GPUInv
  <2>2. a \in Nat
    BY DEF Attempts
  <2>3. CASE a \in 1..Last(r)
    BY <1>1, <1>3, <2>1, <2>2, <2>3
  <2>4. CASE a = Last(r) + 1
    <3>1. gpu[m][a].status = "none"
      BY <1>1, <2>1, <2>4
    <3>2. /\ ~NewJob.started /\ ~NewJob.bound /\ NewJob.cleanup = "pending"
      BY DEF NewJob
    <3>3. AttemptInv(NewJob, gpu[m][a], deadline[m])
      BY <3>1, <3>2 DEF AttemptInv
    <3>4. QED
      BY <1>1, <1>3, <2>1, <2>4, <3>3
  <2>5. CASE a \notin 1..Last(r) /\ a # Last(r) + 1
    BY <1>1, <1>3, <2>1, <2>2, <2>5 DEF Attempts
  <2>6. QED
    BY <2>3, <2>4, <2>5
<1>5. GPUInv(q, gpu[m], runs[m], deadline[m])
  BY <1>4 DEF GPUInv
<1>6. RecordInv(q, manifest[m], upload[m])
  BY <1>1, <1>3 DEF RecordInv, Ready
<1>7. QED
  BY <1>2, <1>5, <1>6, CallKeeps

LEMMA ReviewKeeps ==
    ASSUME IInv, TypeOK', NEW m \in Meetings, NEW status \in Ready, NEW outcome,
           Review(m, status, outcome)
    PROVE  IInv'
<1> DEFINE r == record[m]
           q == [r EXCEPT !.status = status]
<1>1. /\ r \in Record
      /\ GPUInv(r, gpu[m], runs[m], deadline[m])
      /\ RecordInv(r, manifest[m], upload[m])
      /\ Attempt(m) = Last(r)
  BY CurrentFacts
<1>2. /\ pc[m] = "idle" /\ m \notin deleting /\ life[m] # "absent"
      /\ Write(m, q, outcome)
      /\ UNCHANGED <<api, manifest, upload, deadline, remote, schedule, pc>>
  BY DEF Review, Unlocked
<1>3. manifest[m] = Last(r)
  BY <1>1 DEF Review, Shown, Published, Ready
<1>4. /\ q.status = status /\ q.local = r.local /\ q.cleanup = r.cleanup
      /\ q.jobs = r.jobs /\ Last(q) = Last(r)
  BY <1>1 DEF Record, Last
<1> HIDE DEF q
<1>5. /\ GPUInv(q, gpu[m], runs[m], deadline[m])
      /\ RecordInv(q, manifest[m], upload[m])
  BY <1>1, <1>3, <1>4 DEF GPUInv, RecordInv
<1>6. QED
  BY <1>2, <1>5, CallKeeps

(* A half published meeting owes an ACK, which DELETE refuses.             *)
LEMMA DeleteBeginsKeeps ==
    ASSUME IInv, TypeOK', NEW m \in Meetings, DeleteBegins(m)
    PROVE  IInv'
<1> DEFINE r == record[m]
<1>1. /\ life[m] = "stored" /\ pc[m] = "idle" /\ Deletable(m)
      /\ deleting' = deleting \union {m}
      /\ UNCHANGED <<life, record, manifest, upload, deadline, remote, schedule,
                     pc>>
      /\ gpu' = gpu /\ runs' = runs
  BY DEF DeleteBegins, Unlocked, remote
<1>2. OthersStay(m)
  BY <1>1 DEF OthersStay, schedule
<1>3. MeetingInv(m)
  BY DEF IInv
<1>4. MeetingInv(m)'
  BY <1>1, <1>3 DEF MeetingInv
<1>5. /\ r \in Record /\ Attempt(m) = Last(r) /\ Last(r) \in 1..Last(r)
      /\ RecordInv(r, manifest[m], upload[m]) /\ r.status \in Statuses
  BY CurrentFacts, RecordFacts
<1>6. ~r.jobs[Last(r)].ack /\ r.status \notin {"queued", "processing"}
  BY <1>1, <1>5 DEF Deletable
<1>7. Shown(m) \in Ready \union {"failed"}
  BY <1>5, <1>6 DEF Shown, Published, RecordInv, Statuses
<1>8. Shown(m)' = Shown(m)
  BY <1>1 DEF Shown, Published, Attempt
<1>9. BusyInv(m)'
  BY <1>1, <1>7, <1>8 DEF BusyInv
<1>10. QED
  BY <1>2, <1>4, <1>9, Frame

LEMMA DeleteEndsKeeps ==
    ASSUME IInv, TypeOK', NEW m \in Meetings, NEW ok \in BOOLEAN,
           DeleteEnds(m, ok)
    PROVE  IInv'
<1>1. /\ life'[m] # "absent" /\ deleting' = deleting \ {m}
      /\ life[m] = "stored"
      /\ \A n \in Meetings \ {m} : life'[n] = life[n]
      /\ UNCHANGED <<record, manifest, upload, deadline, remote, schedule, pc>>
      /\ gpu' = gpu /\ runs' = runs
  <2>1. life[m] = "stored"
    BY DEF DeleteEnds, IInv, BusyInv
  <2>2. QED
    BY <2>1 DEF DeleteEnds, IInv, TypeOK, remote
<1>2. OthersStay(m)
  BY <1>1 DEF OthersStay, schedule
<1>3. MeetingInv(m)'
  BY <1>1 DEF IInv, MeetingInv
<1>4. BusyInv(m)'
  BY <1>1 DEF BusyInv
<1>5. QED
  BY <1>2, <1>3, <1>4, Frame

(* The sweep changes the record of a meeting that nobody else holds.       *)
LEMMA SweepKeeps ==
    ASSUME IInv, TypeOK', NEW m \in Meetings, m \in todo, Unlocked(m),
           \A n \in Meetings \ {m} : record'[n] = record[n] /\ upload'[n] = upload[n],
           GPUInv(record'[m], gpu[m], runs[m], deadline[m]),
           RecordInv(record'[m], manifest[m], upload'[m]),
           todo' \subseteq todo,
           UNCHANGED <<api, manifest, deadline, remote, pc>>
    PROVE  IInv'
<1>1. /\ life' = life /\ deleting' = deleting /\ gpu' = gpu /\ runs' = runs
      /\ pc[m] = "idle" /\ m \notin deleting
      /\ life[m] # "absent"
  BY DEF api, remote, Unlocked, IInv, BusyInv
<1>2. OthersStay(m)
  BY <1>1 DEF OthersStay
<1>3. PlaceInv(record'[m], manifest[m], gpu[m], "idle")
  BY FreePlaces
<1>4. MeetingInv(m)'
  BY <1>1, <1>3 DEF MeetingInv
<1>5. BusyInv(m)'
  BY <1>1 DEF BusyInv
<1>6. QED
  BY <1>2, <1>4, <1>5, Frame

(* Whoever removes the audio of a meeting makes nothing untrue of it.      *)
LEMMA RemoveKeeps ==
    ASSUME IInv, NEW m \in Meetings, NEW removal, Remove(m, removal)
    PROVE  /\ \A n \in Meetings \ {m} : upload'[n] = upload[n]
           /\ removal = "removed" => upload'[m] = FALSE
           /\ RecordInv(record[m], manifest[m], upload'[m])
<1>1. /\ \A n \in Meetings \ {m} : upload'[n] = upload[n]
      /\ removal = "removed" => upload'[m] = FALSE
      /\ upload'[m] = upload[m] \/ upload'[m] = FALSE
  BY DEF Remove, IInv, TypeOK
<1>2. RecordInv(record[m], manifest[m], upload[m])
  BY DEF IInv, MeetingInv
<1>3. RecordInv(record[m], manifest[m], FALSE)
  BY <1>2 DEF RecordInv
<1>4. QED
  BY <1>1, <1>2, <1>3

LEMMA SweepAbortsKeeps ==
    ASSUME IInv, TypeOK', NEW m \in Meetings, NEW removal, SweepAborts(m, removal)
    PROVE  IInv'
<1>1. /\ m \in todo /\ Unlocked(m) /\ Remove(m, removal) /\ todo' = {}
      /\ UNCHANGED <<api, record, manifest, deadline, remote, pc>>
  BY DEF SweepAborts
<1>2. GPUInv(record'[m], gpu[m], runs[m], deadline[m])
  BY <1>1, CurrentFacts
<1>3. /\ record'[m] = record[m] /\ todo' \subseteq todo
      /\ \A n \in Meetings \ {m} : record'[n] = record[n] /\ upload'[n] = upload[n]
      /\ RecordInv(record'[m], manifest[m], upload'[m])
  BY <1>1, RemoveKeeps
<1>4. QED
  BY <1>1, <1>2, <1>3, SweepKeeps

(* Only attempts that never sent anything expire with the upload.          *)
LEMMA SweepExpiresKeeps ==
    ASSUME IInv, TypeOK', NEW m \in Meetings, NEW removal, NEW outcome,
           SweepExpires(m, removal, outcome)
    PROVE  IInv'
<1> DEFINE r == record[m]
           q == IF removal = "removed" THEN Expired(r) ELSE r
<1>1. /\ m \in todo /\ Unlocked(m) /\ Remove(m, removal)
      /\ Write(m, q, outcome)
      /\ todo' = todo \ {m} /\ deadline[m]
      /\ UNCHANGED <<api, manifest, deadline, remote, pc>>
  BY DEF SweepExpires, Expirable
<1>2. /\ r \in Record
      /\ GPUInv(r, gpu[m], runs[m], deadline[m])
      /\ RecordInv(r, manifest[m], upload[m])
      /\ Last(r) \in 1..Last(r) /\ Last(r) \in Attempts
  BY CurrentFacts, RecordFacts
<1>3. /\ Expired(r).status = r.status /\ Last(Expired(r)) = Last(r)
      /\ \A a \in 1..Last(r) : Expired(r).jobs[a] =
            IF Unsent(r.jobs[a]) THEN [r.jobs[a] EXCEPT !.cleanup = "expired"]
                                 ELSE r.jobs[a]
      /\ Expired(r).local = "expired"
      /\ Expired(r).cleanup # "pending" =>
            \A a \in 1..Last(r) : Expired(r).jobs[a].cleanup # "pending"
  BY <1>2, ExpiredFacts
<1>4. ASSUME NEW a \in 1..Last(r)
      PROVE  /\ Expired(r).jobs[a].bound = r.jobs[a].bound
             /\ Expired(r).jobs[a].ack = r.jobs[a].ack
             /\ AttemptInv(Expired(r).jobs[a], gpu[m][a], deadline[m])
  <2>1. a \in Attempts
    BY <1>2, MaxAttemptsAssumption DEF Attempts
  <2>2. r.jobs[a] \in Job /\ AttemptInv(r.jobs[a], gpu[m][a], deadline[m])
    BY <1>2, <2>1, RecordFacts DEF GPUInv
  <2>3. CASE ~Unsent(r.jobs[a])
    BY <1>3, <2>2, <2>3
  <2>4. CASE Unsent(r.jobs[a])
    <3> DEFINE j == [r.jobs[a] EXCEPT !.cleanup = "expired"]
    <3>1. j.bound = r.jobs[a].bound /\ j.started = r.jobs[a].started
          /\ j.ack = r.jobs[a].ack
      BY <2>2 DEF Job
    <3>2. Expired(r).jobs[a] = j
      BY <1>3, <2>4
    <3> HIDE DEF j
    <3>3. AttemptInv(j, gpu[m][a], deadline[m])
      BY <1>1, <2>2, <2>4, <3>1 DEF AttemptInv, Unsent
    <3>4. QED
      BY <3>1, <3>2, <3>3
  <2>5. QED
    BY <2>3, <2>4
<1>5. GPUInv(Expired(r), gpu[m], runs[m], deadline[m])
  BY <1>2, <1>3, <1>4 DEF GPUInv
<1>6. RecordInv(Expired(r), manifest[m], FALSE)
  BY <1>2, <1>3, <1>4 DEF RecordInv
<1>7. GPUInv(q, gpu[m], runs[m], deadline[m])
  BY <1>2, <1>5
<1>8. /\ record'[m] \in {r, q}
      /\ \A n \in Meetings \ {m} : record'[n] = record[n]
  BY <1>1 DEF Write, IInv, TypeOK
<1>9. RecordInv(record'[m], manifest[m], upload'[m])
  <2>1. RecordInv(r, manifest[m], upload'[m])
    BY <1>1, RemoveKeeps
  <2>2. removal = "removed" => upload'[m] = FALSE
    BY <1>1, RemoveKeeps
  <2>3. QED
    BY <1>6, <1>8, <2>1, <2>2
<1> HIDE DEF q
<1>10. /\ \A n \in Meetings \ {m} : record'[n] = record[n] /\ upload'[n] = upload[n]
       /\ todo' \subseteq todo
  BY <1>1, <1>8, RemoveKeeps
<1>11. QED
  <2>1. GPUInv(record'[m], gpu[m], runs[m], deadline[m])
    BY <1>2, <1>7, <1>8
  <2>2. QED
    BY <1>1, <1>9, <1>10, <2>1, SweepKeeps

LEMMA StepBeginsKeeps ==
    ASSUME IInv, TypeOK', NEW m \in Meetings, StepBegins(m)
    PROVE  IInv'
<1>1. /\ m \in todo /\ m \notin deleting /\ pc'[m] = "reconcile"
      /\ \A n \in Meetings \ {m} : pc'[n] = pc[n]
      /\ todo' \subseteq todo
      /\ UNCHANGED <<api, record, manifest, upload, deadline, remote>>
      /\ life' = life /\ deleting' = deleting /\ gpu' = gpu /\ runs' = runs
  BY DEF StepBegins, Goto, IInv, TypeOK, api, remote
<1>2. OthersStay(m)
  BY <1>1 DEF OthersStay
<1>3. MeetingInv(m) /\ BusyInv(m)
  BY DEF IInv
<1>4. PlaceInv(record[m], manifest[m], gpu[m], "reconcile")
  BY FreePlaces
<1>5. MeetingInv(m)'
  BY <1>1, <1>3, <1>4 DEF MeetingInv
<1>6. BusyInv(m)'
  BY <1>1, <1>3 DEF BusyInv
<1>7. QED
  BY <1>2, <1>5, <1>6, Frame

LEMMA TickInv ==
    ASSUME IInv, TypeOK', Tick
    PROVE  IInv'
<1>1. CASE \/ TickBegins \/ ScanBegins \/ TickEnds
           \/ \E m \in Meetings : SweepSkips(m) \/ ScanSkips(m)
  <2>1. /\ UNCHANGED <<api, record, manifest, upload, deadline, remote, pc>>
        /\ todo' \subseteq todo \union Stored
    BY <1>1 DEF TickBegins, ScanBegins, TickEnds, SweepSkips, ScanSkips
  <2>2. QED
    BY <2>1, StillKeeps DEF api, remote
<1>2. ASSUME NEW m \in Meetings, StepBegins(m)
      PROVE  IInv'
  BY <1>2, StepBeginsKeeps
<1>3. ASSUME NEW m \in Meetings, NEW removal \in Removal, SweepAborts(m, removal)
      PROVE  IInv'
  BY <1>3, SweepAbortsKeeps
<1>4. ASSUME NEW m \in Meetings, NEW removal \in Removal,
             NEW outcome \in Outcome, SweepExpires(m, removal, outcome)
      PROVE  IInv'
  BY <1>4, SweepExpiresKeeps
<1>5. QED
  BY <1>1, <1>2, <1>3, <1>4 DEF Tick

LEMMA CallsInv ==
    ASSUME IInv, TypeOK', NEW m \in Meetings, Calls(m)
    PROVE  IInv'
<1>1. CASE Create(m)
  BY <1>1, CreateKeeps
<1>2. ASSUME NEW outcome \in Outcome, Retry(m, outcome)
      PROVE  IInv'
  BY <1>2, RetryKeeps
<1>3. ASSUME NEW outcome \in Outcome, NEW status \in Ready,
             Review(m, status, outcome)
      PROVE  IInv'
  BY <1>3, ReviewKeeps
<1>4. CASE DeleteBegins(m)
  BY <1>4, DeleteBeginsKeeps
<1>5. QED
  BY <1>1, <1>2, <1>3, <1>4 DEF Calls

(* What the GPU service does on its own.                                   *)
LEMMA GPUStepInv ==
    ASSUME IInv, TypeOK', NEW m \in Meetings, NEW a \in Attempts, GPU(m, a)
    PROVE  IInv'
<1> DEFINE r == record[m]
           g == gpu[m][a]
           h == gpu'[m][a]
<1>1. UNCHANGED <<api, record, manifest, upload, deadline, schedule, pc>>
  BY DEF GPU, Deliver, Accept, Finish, Erase, Expire, Forget
<1>2. /\ r \in Record /\ Last(r) \in Attempts /\ deadline[m] \in BOOLEAN
      /\ g \in GPUJob /\ runs[m][a] \in Nat
      /\ GPUInv(r, gpu[m], runs[m], deadline[m])
      /\ PlaceInv(r, manifest[m], gpu[m], pc[m])
      /\ MeetingInv(m) /\ BusyInv(m)
  BY CurrentFacts DEF IInv
<1>3. /\ JobInv(g, runs[m][a], deadline[m])
      /\ a \in 1..Last(r) => AttemptInv(r.jobs[a], g, deadline[m])
      /\ a > Last(r) => g.status = "none"
  BY <1>2 DEF GPUInv
<1>4. PICK status, clean : SetGPU(m, a, status, clean)
  BY DEF GPU, Deliver, Accept, Finish, Erase, Expire, Forget
<1>5. /\ \A n \in Meetings \ {m} : gpu'[n] = gpu[n]
      /\ \A b \in Attempts \ {a} : gpu'[m][b] = gpu[m][b]
      /\ h = [status |-> status, clean |-> clean]
  BY <1>4, SetGPUEffect DEF IInv
<1>6. \A s, c : SetGPU(m, a, s, c) => h.status = s /\ h.clean = c
  <2>1. ASSUME NEW s, NEW c, SetGPU(m, a, s, c)
        PROVE  h.status = s /\ h.clean = c
    <3>1. h = [status |-> s, clean |-> c]
      BY <2>1, SetGPUEffect DEF IInv
    <3>2. QED
      BY <3>1
  <2>2. QED
    BY <2>1
<1>7. /\ \A n \in Meetings \ {m} : runs'[n] = runs[n]
      /\ \A b \in Attempts \ {a} : runs'[m][b] = runs[m][b]
      /\ \/ /\ runs'[m][a] = runs[m][a]
            /\ \/ /\ g.status \in {"sent", "reserved"}
                  /\ h.status \in {"none", "reserved"} /\ h.clean = "pending"
               \/ /\ g.status \in Known
                  /\ h.status \in Known \ {"running"}
                  /\ g.clean # "pending" => h.clean # "pending"
               \/ /\ g.status \in Known /\ g.clean # "pending"
                  /\ h.status = "forgotten" /\ h.clean = g.clean
                  /\ deadline[m] /\ pc[m] # "submit"
         \/ /\ runs'[m][a] = runs[m][a] + 1 /\ g.status = "reserved"
            /\ h.status = "running" /\ h.clean = "pending"
  <2> HIDE DEF h
  <2>1. CASE Deliver(m, a)
    <3>1. /\ g.status = "sent" /\ runs' = runs
          /\ h.status \in {"none", "reserved"} /\ h.clean = "pending"
      BY <1>6, <2>1 DEF Deliver
    <3>2. QED
      BY <3>1
  <2>2. CASE Accept(m, a)
    <3>1. CASE SetGPU(m, a, "running", "pending") /\ Run(m, a)
      <4>1. /\ \A n \in Meetings \ {m} : runs'[n] = runs[n]
            /\ \A b \in Attempts \ {a} : runs'[m][b] = runs[m][b]
            /\ runs'[m][a] = runs[m][a] + 1
        BY <3>1, RunEffect DEF IInv
      <4>2. g.status = "reserved" /\ h.status = "running" /\ h.clean = "pending"
        BY <1>6, <2>2, <3>1 DEF Accept
      <4>3. QED
        BY <4>1, <4>2
    <3>2. CASE SetGPU(m, a, "none", "pending") /\ UNCHANGED runs
      <4>1. /\ g.status = "reserved" /\ h.status = "none" /\ h.clean = "pending"
            /\ runs' = runs
        BY <1>6, <2>2, <3>2 DEF Accept
      <4>2. QED
        BY <4>1
    <3>3. QED
      BY <2>2, <3>1, <3>2 DEF Accept
  <2>3. CASE Finish(m, a)
    <3>1. /\ g.status = "running" /\ runs' = runs
          /\ h.status \in {"completed", "failed"} /\ h.clean = "pending"
      BY <1>6, <2>3 DEF Finish
    <3>2. g.clean = "pending"
      BY <1>3, <3>1 DEF JobInv
    <3>3. g.status \in Known /\ h.status \in Known \ {"running"}
      BY <3>1 DEF Known
    <3> HIDE DEF g
    <3>4. QED
      BY <3>1, <3>2, <3>3
  <2>4. CASE Erase(m, a)
    <3>1. /\ g.status = "failed" /\ runs' = runs
          /\ h.status = "failed" /\ h.clean = "deleted"
      BY <1>6, <2>4 DEF Erase
    <3>2. g.status \in Known /\ h.status \in Known \ {"running"}
      BY <3>1 DEF Known
    <3>3. QED
      BY <3>1, <3>2
  <2>5. CASE Expire(m, a)
    <3>1. /\ g.status \in {"running", "completed", "failed", "expired"}
          /\ runs' = runs /\ h.status = "expired" /\ g.clean = "pending"
      BY <1>6, <2>5 DEF Expire
    <3>2. g.status \in Known /\ h.status \in Known \ {"running"}
      BY <3>1 DEF Known
    <3> HIDE DEF g
    <3>3. QED
      BY <3>1, <3>2
  <2>6. CASE Forget(m, a)
    <3>1. /\ g.status \in Known /\ g.clean # "pending" /\ runs' = runs
          /\ h.status = "forgotten" /\ h.clean = g.clean
          /\ deadline[m] /\ pc[m] # "submit"
      BY <1>6, <2>6 DEF Forget
    <3>2. QED
      BY <3>1
  <2>7. QED
    BY <2>1, <2>2, <2>3, <2>4, <2>5, <2>6 DEF GPU
<1> HIDE DEF g, h
<1>8. JobInv(h, runs'[m][a], deadline[m])
  BY <1>2, <1>3, <1>7 DEF JobInv, Known
<1>9. a \in 1..Last(r) => AttemptInv(r.jobs[a], h, deadline[m])
  BY <1>3, <1>7 DEF AttemptInv, Known
<1>10. a > Last(r) => h.status = "none"
  BY <1>3, <1>7 DEF Known
<1>11. GPUInv(r, gpu'[m], runs'[m], deadline[m])
  BY <1>2, <1>5, <1>7, <1>8, <1>9, <1>10, JobKeeps DEF h
<1>12. PlaceInv(r, manifest[m], gpu'[m], pc[m])
  <2>1. pc[m] = "submit" => gpu'[m][Last(r)].status # "forgotten"
    BY <1>2, <1>5, <1>7 DEF PlaceInv, h, Known
  <2>2. QED
    BY <1>2, <2>1 DEF PlaceInv
<1>13. /\ life' = life /\ deleting' = deleting /\ todo' = todo
  BY <1>1 DEF api, schedule
<1>14. OthersStay(m)
  BY <1>1, <1>5, <1>7, <1>13 DEF OthersStay
<1>15. MeetingInv(m)'
  BY <1>1, <1>2, <1>11, <1>12, <1>13 DEF MeetingInv
<1>16. Shown(m)' = Shown(m)
  BY <1>1 DEF Shown, Published, Attempt
<1>17. BusyInv(m)'
  BY <1>1, <1>2, <1>13, <1>16 DEF BusyInv
<1>18. QED
  BY <1>14, <1>15, <1>17, Frame

(* The deadline only ever makes more things certain.                       *)
LEMMA DeadlineKeeps ==
    ASSUME IInv, TypeOK', NEW m \in Meetings, DeadlinePasses(m)
    PROVE  IInv'
<1>1. /\ UNCHANGED <<api, record, manifest, upload, remote, schedule, pc>>
      /\ deadline'[m] = TRUE
      /\ \A n \in Meetings \ {m} : deadline'[n] = deadline[n]
      /\ life' = life /\ deleting' = deleting /\ todo' = todo
      /\ gpu' = gpu /\ runs' = runs
  BY DEF DeadlinePasses, IInv, TypeOK, api, remote, schedule
<1>2. MeetingInv(m) /\ BusyInv(m)
  BY DEF IInv
<1>3. GPUInv(record[m], gpu[m], runs[m], TRUE)
  BY <1>2 DEF MeetingInv, GPUInv, JobInv, AttemptInv
<1>4. MeetingInv(m)'
  BY <1>1, <1>2, <1>3 DEF MeetingInv
<1>5. Shown(m)' = Shown(m)
  BY <1>1 DEF Shown, Published, Attempt
<1>6. BusyInv(m)'
  BY <1>1, <1>2, <1>5 DEF BusyInv
<1>7. OthersStay(m)
  BY <1>1 DEF OthersStay
<1>8. QED
  BY <1>4, <1>6, <1>7, Frame

LEMMA InvInit == Init => IInv
<1> SUFFICES ASSUME Init
             PROVE  IInv
  OBVIOUS
<1>1. TypeOK
  BY TypeInit
<1>2. ASSUME NEW m \in Meetings
      PROVE  MeetingInv(m) /\ BusyInv(m)
  <2>1. /\ life[m] = "absent" /\ record[m] = NewRecord /\ manifest[m] = 0
        /\ upload[m] = FALSE /\ deadline[m] = FALSE /\ pc[m] = "idle"
        /\ \A a \in Attempts : /\ gpu[m][a] = [status |-> "none", clean |-> "pending"]
                               /\ runs[m][a] = 0
        /\ todo = {} /\ deleting = {}
    BY DEF Init
  <2>2. /\ Last(NewRecord) = 1 /\ NewRecord.jobs[1] = NewJob
        /\ NewRecord.status = "queued" /\ NewRecord.local = "pending"
        /\ NewRecord.cleanup = "pending"
    BY NewRecordFacts DEF NewRecord
  <2>3. /\ ~NewJob.started /\ ~NewJob.bound /\ NewJob.cleanup = "pending"
    BY DEF NewJob
  <2> HIDE DEF NewRecord, NewJob
  <2>4. GPUInv(record[m], gpu[m], runs[m], deadline[m])
    BY <2>1, <2>2, <2>3 DEF GPUInv, JobInv, AttemptInv
  <2>5. RecordInv(record[m], manifest[m], upload[m])
    BY <2>1, <2>2 DEF RecordInv, Ready
  <2>6. PlaceInv(record[m], manifest[m], gpu[m], pc[m])
    BY <2>1, FreePlaces
  <2>7. QED
    BY <2>1, <2>4, <2>5, <2>6 DEF MeetingInv, BusyInv
<1>3. QED
  BY <1>1, <1>2 DEF IInv

LEMMA InvStep == IInv /\ [Next]_vars => IInv'
<1> SUFFICES ASSUME IInv, [Next]_vars
             PROVE  IInv'
  OBVIOUS
<1>1. TypeOK'
  BY TypeStep DEF IInv
<1>2. CASE Tick
  BY <1>1, <1>2, TickInv
<1>3. ASSUME NEW m \in Meetings, Calls(m) \/ Step(m) \/ DeadlinePasses(m)
      PROVE  IInv'
  BY <1>1, <1>3, CallsInv, StepInv, DeadlineKeeps
<1>4. ASSUME NEW m \in Meetings, NEW ok \in BOOLEAN, DeleteEnds(m, ok)
      PROVE  IInv'
  BY <1>1, <1>4, DeleteEndsKeeps
<1>5. ASSUME NEW m \in Meetings, NEW a \in Attempts, GPU(m, a)
      PROVE  IInv'
  BY <1>1, <1>5, GPUStepInv
<1>6. CASE Crash
  <2>1. /\ UNCHANGED <<life, record, manifest, upload, deadline, gpu, runs>>
        /\ \A n \in Meetings : pc'[n] \in {pc[n], "idle"}
        /\ todo' \subseteq todo \union Stored /\ deleting' \subseteq deleting
    BY <1>6 DEF Crash, remote
  <2>2. QED
    BY <1>1, <2>1, StillKeeps
<1>7. CASE UNCHANGED vars
  <2>1. /\ UNCHANGED <<life, record, manifest, upload, deadline, gpu, runs>>
        /\ \A n \in Meetings : pc'[n] \in {pc[n], "idle"}
        /\ todo' \subseteq todo \union Stored /\ deleting' \subseteq deleting
    BY <1>7 DEF vars, api, remote, schedule
  <2>2. QED
    BY <1>1, <2>1, StillKeeps
<1>8. QED
  BY <1>2, <1>3, <1>4, <1>5, <1>6, <1>7 DEF Next

(* The inductive invariant holds in every reachable state.                 *)
THEOREM Invariance == Spec => []IInv
BY InvInit, InvStep, PTL DEF Spec

(* However often a submission is lost, repeated or interrupted, the GPU    *)
(* service runs inference for one attempt at most once.                    *)
THEOREM OneRun == Spec => []OneRunPerAttempt
<1>1. IInv => OneRunPerAttempt
  BY DEF IInv, MeetingInv, GPUInv, JobInv, OneRunPerAttempt
<1>2. QED
  BY <1>1, Invariance, PTL

(* Whenever a meeting says that its cleanup is over, there is no temporary *)
(* copy left, on either side, and none can come back.                      *)
THEOREM CleanupTrue == Spec => []CleanupIsTrue
<1>1. IInv => CleanupIsTrue
  <2> SUFFICES ASSUME IInv, NEW m \in Meetings, record[m].cleanup # "pending"
               PROVE  ~upload[m] /\ \A a \in Attempts : ~Held(m, a)
    BY DEF CleanupIsTrue
  <2>1. /\ GPUInv(record[m], gpu[m], runs[m], deadline[m])
        /\ RecordInv(record[m], manifest[m], upload[m])
        /\ Last(record[m]) \in Attempts
    BY CurrentFacts
  <2>2. ~upload[m]
    BY <2>1 DEF RecordInv
  <2>3. ASSUME NEW a \in Attempts
        PROVE  ~Held(m, a)
    <3>1. CASE a > Last(record[m])
      BY <2>1, <3>1 DEF GPUInv, Held, Known
    <3>2. CASE a \in 1..Last(record[m])
      <4>1. record[m].jobs[a].cleanup # "pending"
        BY <2>1, <3>2 DEF RecordInv
      <4>2. AttemptInv(record[m].jobs[a], gpu[m][a], deadline[m])
        BY <2>1, <3>2 DEF GPUInv
      <4>3. QED
        BY <4>1, <4>2 DEF AttemptInv, Held, Known
    <3>3. QED
      BY <2>1, <3>1, <3>2, MaxAttemptsAssumption DEF Attempts
  <2>4. QED
    BY <2>2, <2>3
<1>2. QED
  BY <1>1, Invariance, PTL

-----------------------------------------------------------------------------
(* The contract of the API *)

(* What GET answers for m, "absent" or "deleted" if 404.                   *)
Visible(m) == IF life[m] = "stored" THEN Shown(m) ELSE life[m]

(* What a step may do to the meeting that it is about.                     *)
Allowed(m) ==
    \/ Visible(m)' = Visible(m) /\ Attempt(m)' = Attempt(m)
    \/ <<Visible(m), Visible(m)'>> \in Contract!Permitted
       /\ Attempt(m)' = Attempt(m)
    \/ /\ Visible(m) = "failed" /\ Visible(m)' = "queued"
       /\ Attempt(m) < MaxAttempts /\ Attempt(m)' = Attempt(m) + 1

LEMMA ContractStep ==
    ASSUME NEW m \in Meetings, Allowed(m),
           \A n \in Meetings \ {m} : /\ life'[n] = life[n] /\ record'[n] = record[n]
                                    /\ manifest'[n] = manifest[n]
    PROVE  Contract!Next \/ UNCHANGED Contract!vars
<1> DEFINE status == [n \in Meetings |-> Visible(n)]
           next == [n \in Meetings |-> Visible(n)']
           attempt == [n \in Meetings |-> Attempt(n)]
           another == [n \in Meetings |-> Attempt(n)']
<1>1. \A n \in Meetings \ {m} : Visible(n)' = Visible(n) /\ Attempt(n)' = Attempt(n)
  BY DEF Visible, Shown, Published, Attempt
<1>2. next = [status EXCEPT ![m] = Visible(m)']
  BY <1>1
<1>3. another = [attempt EXCEPT ![m] = Attempt(m)']
  BY <1>1
<1>4. CASE Visible(m)' = Visible(m) /\ Attempt(m)' = Attempt(m)
  <2>1. next = status /\ another = attempt
    BY <1>1, <1>4
  <2>2. QED
    BY <2>1 DEF Contract!vars, Visible
<1>5. CASE /\ <<Visible(m), Visible(m)'>> \in Contract!Permitted
           /\ Attempt(m)' = Attempt(m)
  <2>1. another = attempt
    BY <1>1, <1>5
  <2>2. Visible(m)' \in Contract!Statuses
    BY <1>5 DEF Contract!Permitted, Contract!Statuses
  <2>3. status[m] = Visible(m)
    OBVIOUS
  <2>4. Contract!Change(m)
    BY <1>2, <1>5, <2>1, <2>2, <2>3 DEF Contract!Change, Visible
  <2>5. QED
    BY <2>4 DEF Contract!Next
<1>6. CASE /\ Visible(m) = "failed" /\ Visible(m)' = "queued"
           /\ Attempt(m) < MaxAttempts /\ Attempt(m)' = Attempt(m) + 1
  <2>1. Contract!Retry(m)
    BY <1>2, <1>3, <1>6 DEF Contract!Retry, Visible
  <2>2. QED
    BY <2>1 DEF Contract!Next
<1>7. QED
  BY <1>4, <1>5, <1>6 DEF Allowed

(* What read_meeting makes of record r when results are published for the  *)
(* attempt published.                                                      *)
Look(r, published) ==
    IF r.status \in Ready /\ published # Last(r) THEN "processing" ELSE r.status

LEMMA Looks ==
    ASSUME NEW m \in Meetings
    PROVE  /\ Shown(m) = Look(record[m], manifest[m])
           /\ Attempt(m) = Last(record[m])
BY DEF Shown, Published, Attempt, Last, Look

LEMMA LooksNext ==
    ASSUME NEW m \in Meetings
    PROVE  /\ Shown(m)' = Look(record'[m], manifest'[m])
           /\ Attempt(m)' = Last(record'[m])
BY DEF Shown, Published, Attempt, Last, Look

(* Nothing that GET shows changes.                                         *)
LEMMA Unseen ==
    ASSUME UNCHANGED <<life, manifest>>,
           \A n \in Meetings : /\ record'[n].status = record[n].status
                               /\ Last(record'[n]) = Last(record[n])
    PROVE  UNCHANGED Contract!vars
<1>1. \A n \in Meetings : Visible(n)' = Visible(n) /\ Attempt(n)' = Attempt(n)
  BY DEF Visible, Shown, Published, Attempt, Last
<1>2. QED
  BY <1>1 DEF Contract!vars, Visible

(* A step of the coordinator on m, or a call about it, changes its record. *)
LEMMA Seen ==
    ASSUME NEW m \in Meetings, life' = life,
           \A n \in Meetings \ {m} : record'[n] = record[n] /\ manifest'[n] = manifest[n],
           Last(record'[m]) = Last(record[m]),
           LET old == Look(record[m], manifest[m])
               new == Look(record'[m], manifest'[m])
           IN new = old \/ <<old, new>> \in Contract!Permitted
    PROVE  Contract!Next \/ UNCHANGED Contract!vars
<1>1. /\ Shown(m) = Look(record[m], manifest[m])
      /\ Shown(m)' = Look(record'[m], manifest'[m])
      /\ Attempt(m)' = Attempt(m)
  BY Looks, LooksNext
<1>2. Allowed(m)
  BY <1>1 DEF Allowed, Visible
<1>3. QED
  BY <1>2, ContractStep

(* A working meeting that starts, waits or fails.                          *)
LEMMA EditSeen ==
    ASSUME IInv, NEW m \in Meetings, UNCHANGED <<life, manifest>>,
           NEW q, NEW s, NEW j, Edits(q, record[m], s, j),
           record' \in {record, [record EXCEPT ![m] = q]},
           \/ s = record[m].status
           \/ /\ s \in {"processing", "failed"}
              /\ \/ record[m].status = "processing"
                 \/ record[m].status # "failed" /\ ~Published(m)
           \/ s = "review_required" /\ record[m].status = "processing"
    PROVE  Contract!Next \/ UNCHANGED Contract!vars
<1> DEFINE r == record[m]
           old == Look(r, manifest[m])
           new == Look(record'[m], manifest'[m])
<1>1. /\ r.status \in {"queued", "processing", "failed"} \union Ready
      /\ record'[m] = r \/ record'[m] = q
      /\ \A n \in Meetings \ {m} : record'[n] = record[n]
      /\ Published(m) <=> manifest[m] = Last(r)
  BY CurrentFacts, RecordFacts DEF Published, IInv, TypeOK, Statuses
<1>2. q.status = s /\ Last(q) = Last(r)
  BY DEF Edits
<1>3. new = old \/ <<old, new>> \in Contract!Permitted
  <2>1. CASE record'[m] = r
    BY <2>1
  <2>2. CASE record'[m] = q /\ s = r.status
    BY <1>2, <2>2 DEF Look
  <2>3. CASE /\ record'[m] = q /\ s \in {"processing", "failed"}
             /\ \/ r.status = "processing"
                \/ r.status # "failed" /\ ~Published(m)
    <3>1. new = s
      BY <1>2, <2>3 DEF Look, Ready
    <3>2. old \in {"queued", "processing"}
      BY <1>1, <2>3 DEF Look, Ready
    <3> HIDE DEF old, new
    <3>3. QED
      BY <2>3, <3>1, <3>2 DEF Contract!Permitted
  <2>4. CASE record'[m] = q /\ s = "review_required" /\ r.status = "processing"
    <3>1. new \in {"processing", "review_required"} /\ old = "processing"
      BY <1>2, <2>4 DEF Look, Ready
    <3> HIDE DEF old, new
    <3>2. QED
      BY <3>1 DEF Contract!Permitted
  <2>5. QED
    BY <1>1, <2>1, <2>2, <2>3, <2>4
<1>4. Last(record'[m]) = Last(record[m])
  BY <1>1, <1>2
<1>5. QED
  BY <1>1, <1>3, <1>4, Seen

(* A record that is written with its status and attempt as they were.      *)
LEMMA UnseenWrite ==
    ASSUME IInv, NEW m \in Meetings, NEW q, NEW outcome, Write(m, q, outcome),
           q.status = record[m].status, Last(q) = Last(record[m]),
           UNCHANGED <<life, manifest>>
    PROVE  UNCHANGED Contract!vars
<1>1. record' \in {record, [record EXCEPT ![m] = q]}
  BY DEF Write
<1>2. \A n \in Meetings : /\ record'[n].status = record[n].status
                          /\ Last(record'[n]) = Last(record[n])
  BY <1>1 DEF IInv, TypeOK
<1>3. QED
  BY <1>2, Unseen

(* Steps that write no record and no manifest.                             *)
LEMMA QuietSteps ==
    ASSUME UNCHANGED <<life, record, manifest>>
    PROVE  UNCHANGED Contract!vars
BY Unseen

(* The places at which the attempt is under way.                           *)
LEMMA ProcessingPlaces ==
    ASSUME IInv, NEW m \in Meetings,
           pc[m] \in {"lookup", "source", "submit", "fetch", "record"}
    PROVE  record[m].status = "processing"
BY CurrentFacts DEF PlaceInv

LEMMA FailSeen ==
    ASSUME IInv, NEW m \in Meetings, NEW outcome, NEW cost,
           Fail(m, outcome, cost),
           UNCHANGED <<life, manifest>>,
           \/ record[m].status = "processing"
           \/ record[m].status # "failed" /\ ~Published(m)
    PROVE  Contract!Next \/ UNCHANGED Contract!vars
<1> DEFINE q == [record[m] EXCEPT !.status = "failed"]
<1>1. Edits(q, record[m], "failed", CurrentJob(m))
  BY EditStatus, CurrentFacts DEF Statuses
<1>2. record' \in {record, [record EXCEPT ![m] = q]}
  BY DEF Fail, Write
<1> HIDE DEF q
<1>3. QED
  BY <1>1, <1>2, EditSeen

LEMMA LearnSeen ==
    ASSUME IInv, NEW m \in Meetings, NEW outcome, NEW g \in GPUJob,
           Learn(m, g, outcome), UNCHANGED <<life, manifest>>,
           \/ record[m].status = "processing"
           \/ record[m].status # "failed" /\ ~Published(m)
    PROVE  Contract!Next \/ UNCHANGED Contract!vars
<1> DEFINE over == g.status \in {"failed", "expired"}
           s == IF over THEN "failed" ELSE "processing"
           j == [CurrentJob(m) EXCEPT !.bound = TRUE, !.cleanup = g.clean]
           r == record[m]
           q == [r EXCEPT !.jobs[Last(r)].bound = TRUE,
                          !.jobs[Last(r)].cleanup = g.clean, !.status = s]
<1>1. /\ s \in Statuses /\ s \in {"processing", "failed"}
      /\ r \in Record /\ Attempt(m) = Last(r) /\ CurrentJob(m) = r.jobs[Last(r)]
      /\ g.clean \in CleanupStatus
  BY CurrentFacts DEF Statuses, GPUJob
<1>2. record' \in {record, [record EXCEPT ![m] = q]}
  BY <1>1 DEF Learn, Save, Write
<1> HIDE DEF s
<1>3. Edits(q, r, s, j)
  BY <1>1, EditLearned
<1> HIDE DEF q, j
<1>4. QED
  BY <1>1, <1>2, <1>3, EditSeen

LEMMA StepSeen ==
    ASSUME IInv, NEW m \in Meetings, Step(m)
    PROVE  Contract!Next \/ UNCHANGED Contract!vars
<1> DEFINE r == record[m]
<1>1. /\ r \in Record /\ r.status \in Statuses /\ Attempt(m) = Last(r)
      /\ CurrentJob(m) = r.jobs[Last(r)]
      /\ RemoteJob(m) \in GPUJob /\ TypeOK
  BY CurrentFacts, RecordFacts DEF IInv
<1>2. ASSUME \/ LeaveFailed(m) \/ LookupMisses(m) \/ Wait(m) \/ Unavailable(m)
             \/ SubmitLost(m) \/ Fetch(m) \/ UploadGone(m)
             \/ \E ok \in BOOLEAN : Republish(m, ok)
      PROVE  UNCHANGED Contract!vars
  <2>1. UNCHANGED <<life, record, manifest>>
    BY <1>2 DEF LeaveFailed, LookupMisses, Wait, Unavailable, SubmitLost, Fetch,
                UploadGone, Republish, api
  <2>2. QED
    BY <2>1, QuietSteps
<1>3. ASSUME NEW outcome \in Outcome, Start(m, outcome)
      PROVE  Contract!Next \/ UNCHANGED Contract!vars
  <2> DEFINE q == [r EXCEPT !.status = "processing"]
  <2>1. Edits(q, r, "processing", CurrentJob(m))
    BY <1>1, EditStatus DEF Statuses
  <2>2. /\ r.status # "failed" /\ ~Published(m)
        /\ record' \in {record, [record EXCEPT ![m] = q]}
        /\ UNCHANGED <<life, manifest>>
    BY <1>3 DEF Start, Working, Save, Write, api
  <2> HIDE DEF q
  <2>3. QED
    BY <2>1, <2>2, EditSeen
<1>4. ASSUME NEW outcome \in Outcome, Poll(m, outcome) \/ LookupFinds(m, outcome)
      PROVE  Contract!Next \/ UNCHANGED Contract!vars
  <2>1. /\ Learn(m, RemoteJob(m), outcome) /\ UNCHANGED <<life, manifest>>
        /\ \/ r.status # "failed" /\ ~Published(m)
           \/ pc[m] = "lookup"
    BY <1>4 DEF Poll, LookupFinds, Working, api
  <2>2. \/ r.status = "processing"
        \/ r.status # "failed" /\ ~Published(m)
    BY <2>1, ProcessingPlaces
  <2>3. QED
    BY <1>1, <2>1, <2>2, LearnSeen
<1>5. ASSUME NEW outcome \in Outcome, Source(m, outcome)
      PROVE  Contract!Next \/ UNCHANGED Contract!vars
  <2>1. /\ r.status = "processing" /\ UNCHANGED <<life, manifest>>
    BY <1>5, ProcessingPlaces DEF Source, api
  <2>2. CASE ~SourceAvailable(m)
    BY <1>5, <2>1, <2>2, FailSeen DEF Source
  <2>3. CASE SourceAvailable(m)
    <3> DEFINE j == [CurrentJob(m) EXCEPT !.started = TRUE]
               q == [r EXCEPT !.jobs[Last(r)].started = TRUE]
    <3>1. Edits(q, r, r.status, j)
      BY <1>1, EditStarted
    <3>2. record' \in {record, [record EXCEPT ![m] = q]}
      BY <1>1, <1>5, <2>3 DEF Source, Save, Write
    <3> HIDE DEF q, j
    <3>3. QED
      BY <2>1, <3>1, <3>2, EditSeen
  <2>4. QED
    BY <2>2, <2>3
<1>6. ASSUME NEW outcome \in Outcome, SubmitAnswered(m, outcome)
      PROVE  Contract!Next \/ UNCHANGED Contract!vars
  <2>1. /\ r.status = "processing" /\ UNCHANGED <<life, manifest>>
        /\ Learn(m, gpu'[m][Attempt(m)], outcome)
    BY <1>6, ProcessingPlaces DEF SubmitAnswered, api
  <2>2. Attempt(m) \in Attempts
    BY <1>1, RecordOf
  <2>3. gpu'[m][Attempt(m)] \in GPUJob
    <3>1. CASE UNCHANGED remote
      BY <1>1, <3>1 DEF RemoteJob, remote
    <3>2. CASE SetGPU(m, Attempt(m), "running", "pending")
      <4>1. TypeOK
        BY DEF IInv
      <4>2. gpu'[m][Attempt(m)] = [status |-> "running", clean |-> "pending"]
        BY <2>2, <3>2, <4>1, SetGPUEffect
      <4>3. QED
        BY <4>2 DEF GPUJob, GPUStatus, CleanupStatus
    <3>3. QED
      BY <1>6, <3>1, <3>2 DEF SubmitAnswered
  <2>4. QED
    BY <2>1, <2>3, LearnSeen
<1>7. ASSUME NEW outcome \in Outcome,
             \/ QueryFails(m, outcome) \/ SubmitFails(m, outcome)
             \/ FetchFails(m, outcome)
      PROVE  Contract!Next \/ UNCHANGED Contract!vars
  <2>1. PICK cost \in {0, 1} :
        /\ Fail(m, outcome, cost) /\ UNCHANGED <<life, manifest>>
        /\ \/ r.status # "failed" /\ ~Published(m)
           \/ pc[m] \in {"lookup", "submit", "fetch"}
    BY <1>7 DEF QueryFails, SubmitFails, FetchFails, Working, api
  <2>2. \/ r.status = "processing"
        \/ r.status # "failed" /\ ~Published(m)
    BY <2>1, ProcessingPlaces
  <2>3. QED
    BY <2>1, <2>2, FailSeen
<1>8. ASSUME NEW outcome \in Outcome, PublishRecord(m, outcome)
      PROVE  Contract!Next \/ UNCHANGED Contract!vars
  <2> DEFINE j == [CurrentJob(m) EXCEPT !.ack = TRUE]
             q == [r EXCEPT !.status = "review_required",
                            !.jobs[Last(r)].ack = TRUE]
  <2>1. Edits(q, r, "review_required", j)
    BY <1>1, EditPublished
  <2>2. /\ r.status = "processing" /\ UNCHANGED <<life, manifest>>
        /\ record' \in {record, [record EXCEPT ![m] = q]}
    BY <1>1, <1>8, ProcessingPlaces DEF PublishRecord, Save, Write, api
  <2> HIDE DEF q, j
  <2>3. QED
    BY <2>1, <2>2, EditSeen
<1>9. ASSUME NEW outcome \in Outcome, PublishManifest(m, outcome)
      PROVE  Contract!Next \/ UNCHANGED Contract!vars
  <2>1. /\ pc[m] = "manifest" /\ life' = life /\ record' = record
        /\ manifest'[m] = manifest[m] \/ manifest'[m] = Last(r)
        /\ \A n \in Meetings \ {m} : manifest'[n] = manifest[n]
    BY <1>1, <1>9 DEF PublishManifest, api, TypeOK
  <2>2. r.status = "review_required"
    BY <2>1, CurrentFacts DEF PlaceInv
  <2> DEFINE old == Look(r, manifest[m])
             new == Look(record'[m], manifest'[m])
  <2>3. /\ old \in {"processing", "review_required"}
        /\ new = old \/ new = "review_required"
    BY <2>1, <2>2 DEF Look, Ready
  <2>4. new = old \/ <<old, new>> \in Contract!Permitted
    <3> HIDE DEF old, new
    <3>1. QED
      BY <2>3 DEF Contract!Permitted
  <2>5. QED
    BY <2>1, <2>4, Seen
<1>10. ASSUME NEW outcome \in Outcome, Close(m, outcome)
       PROVE  UNCHANGED Contract!vars
  <2>1. Write(m, WithCleanup(r), outcome) /\ UNCHANGED <<life, manifest>>
    BY <1>10 DEF Close, Save, api
  <2>2. QED
    BY <1>1, <2>1, WithCleanupFacts, UnseenWrite
<1>11. ASSUME NEW outcome \in Outcome, NEW asked \in SUBSET Attempts,
              Reconcile(m, asked, outcome)
       PROVE  UNCHANGED Contract!vars
  <2>1. /\ record' = record \/ Write(m, Reconciled(m, asked), outcome)
        /\ UNCHANGED <<life, manifest>>
    BY <1>11 DEF Reconcile, api
  <2>2. /\ Reconciled(m, asked).status = r.status
        /\ Last(Reconciled(m, asked)) = Last(r)
    BY <1>1, ReconciledFacts
  <2>3. QED
    BY <2>1, <2>2, QuietSteps, UnseenWrite
<1>12. ASSUME NEW outcome \in Outcome, NEW removal \in Removal,
              RemoveUpload(m, removal, outcome)
       PROVE  UNCHANGED Contract!vars
  <2> DEFINE q == [r EXCEPT !.local = "deleted"]
  <2>1. /\ Write(m, IF removal = "removed" THEN q ELSE r, outcome)
        /\ UNCHANGED <<life, manifest>>
    BY <1>12 DEF RemoveUpload, api
  <2>2. q.status = r.status /\ Last(q) = Last(r)
    BY <1>1 DEF Record, Last
  <2> HIDE DEF q
  <2>3. QED
    BY <2>1, <2>2, UnseenWrite
<1>13. ASSUME NEW outcome \in Outcome, NEW arrives \in BOOLEAN,
              NEW answered \in BOOLEAN,
              Acknowledge(m, arrives, answered, outcome)
       PROVE  UNCHANGED Contract!vars
  <2> DEFINE e == Erased(RemoteJob(m))
             done == [r EXCEPT !.jobs[Last(r)].cleanup = e,
                               !.jobs[Last(r)].ack = FALSE]
             x == IF answered THEN done ELSE r
  <2>1. Write(m, WithCleanup(x), outcome) /\ UNCHANGED <<life, manifest>>
    BY <1>1, <1>13 DEF Acknowledge, Erased, api
  <2>2. e \in CleanupStatus
    BY <1>1 DEF Erased, GPUJob, CleanupStatus
  <2> HIDE DEF e
  <2>3. done \in Record /\ done.status = r.status /\ Last(done) = Last(r)
    BY <1>1, <2>2, EditAcknowledged DEF Edits
  <2> HIDE DEF done
  <2>4. x \in Record /\ x.status = r.status /\ Last(x) = Last(r)
    BY <1>1, <2>3
  <2> HIDE DEF x
  <2>5. /\ WithCleanup(x).status = r.status
        /\ Last(WithCleanup(x)) = Last(r)
    BY <2>4, WithCleanupFacts
  <2>6. QED
    BY <2>1, <2>5, UnseenWrite
<1>14. QED
  BY <1>2, <1>3, <1>4, <1>5, <1>6, <1>7, <1>8, <1>9, <1>10, <1>11, <1>12, <1>13
  DEF Step

LEMMA TickSeen ==
    ASSUME IInv, Tick
    PROVE  UNCHANGED Contract!vars
<1>1. CASE \/ TickBegins \/ ScanBegins \/ TickEnds
           \/ \E m \in Meetings :
                 \/ SweepSkips(m) \/ ScanSkips(m) \/ StepBegins(m)
                 \/ \E removal \in Removal : SweepAborts(m, removal)
  <2>1. UNCHANGED <<life, record, manifest>>
    BY <1>1 DEF TickBegins, ScanBegins, TickEnds, SweepSkips, ScanSkips,
                StepBegins, SweepAborts, api
  <2>2. QED
    BY <2>1, QuietSteps
<1>2. ASSUME NEW m \in Meetings, NEW removal \in Removal,
             NEW outcome \in Outcome, SweepExpires(m, removal, outcome)
      PROVE  UNCHANGED Contract!vars
  <2> DEFINE r == record[m]
             q == IF removal = "removed" THEN Expired(r) ELSE r
  <2>1. Write(m, q, outcome) /\ UNCHANGED <<life, manifest>>
    BY <1>2 DEF SweepExpires, api
  <2>2. q.status = r.status /\ Last(q) = Last(r)
    BY CurrentFacts, ExpiredFacts
  <2> HIDE DEF q
  <2>3. QED
    BY <2>1, <2>2, UnseenWrite
<1>3. QED
  BY <1>1, <1>2 DEF Tick

LEMMA CreateSeen ==
    ASSUME IInv, NEW m \in Meetings, Create(m)
    PROVE  Contract!Next \/ UNCHANGED Contract!vars
<1>1. /\ life[m] = "absent" /\ life'[m] = "stored"
      /\ \A n \in Meetings \ {m} : life'[n] = life[n]
      /\ record' = record /\ manifest' = manifest
      /\ record[m] = NewRecord
  BY DEF Create, IInv, TypeOK, MeetingInv
<1>2. Visible(m) = "absent" /\ Visible(m)' = "queued"
  BY <1>1 DEF Visible, Shown, NewRecord, Ready
<1>3. Attempt(m)' = Attempt(m)
  BY <1>1 DEF Attempt
<1>4. Allowed(m)
  BY <1>2, <1>3 DEF Allowed, Contract!Permitted
<1>5. QED
  BY <1>1, <1>4, ContractStep

LEMMA RetrySeen ==
    ASSUME IInv, NEW m \in Meetings, NEW outcome \in Outcome, Retry(m, outcome)
    PROVE  Contract!Next \/ UNCHANGED Contract!vars
<1> DEFINE r == record[m]
           q == Retried(r)
<1>1. /\ life[m] = "stored" /\ life' = life /\ manifest' = manifest
      /\ r.status = "failed" /\ Attempt(m) < MaxAttempts
      /\ record' \in {record, [record EXCEPT ![m] = q]}
  BY DEF Retry, Write, Retried, api
<1>2. r \in Record /\ Attempt(m) = Last(r)
  BY CurrentFacts
<1>3. q.status = "queued" /\ Last(q) = Last(r) + 1
  BY <1>1, <1>2, RetriedFacts
<1> HIDE DEF q
<1>4. CASE record' = record
  BY <1>1, <1>4, QuietSteps
<1>5. CASE record' = [record EXCEPT ![m] = q]
  <2>1. record'[m] = q /\ \A n \in Meetings \ {m} : record'[n] = record[n]
    BY <1>5 DEF IInv, TypeOK
  <2>2. Visible(m) = "failed" /\ Visible(m)' = "queued"
    BY <1>1, <1>3, <2>1 DEF Visible, Shown, Ready
  <2>3. Attempt(m)' = Attempt(m) + 1
    BY <1>2, <1>3, <2>1, LooksNext
  <2>4. Allowed(m)
    BY <1>1, <2>2, <2>3 DEF Allowed
  <2>5. QED
    BY <1>1, <2>1, <2>4, ContractStep
<1>6. QED
  BY <1>1, <1>4, <1>5

LEMMA ReviewSeen ==
    ASSUME IInv, NEW m \in Meetings, NEW outcome \in Outcome,
           NEW status \in Ready, Review(m, status, outcome)
    PROVE  Contract!Next \/ UNCHANGED Contract!vars
<1> DEFINE r == record[m]
           q == [r EXCEPT !.status = status]
           old == Look(r, manifest[m])
           new == Look(record'[m], manifest'[m])
<1>1. r \in Record /\ Attempt(m) = Last(r) /\ TypeOK
  BY CurrentFacts DEF IInv
<1>2. /\ life' = life /\ manifest' = manifest
      /\ record' \in {record, [record EXCEPT ![m] = q]}
      /\ r.status \in Ready /\ manifest[m] = Last(r)
  BY <1>1 DEF Review, Write, Shown, Published, Ready, api
<1>3. q.status = status /\ Last(q) = Last(r)
  BY <1>1 DEF Record, Last
<1> HIDE DEF q
<1>4. /\ record'[m] = r \/ record'[m] = q
      /\ \A n \in Meetings \ {m} : record'[n] = record[n]
  BY <1>1, <1>2 DEF TypeOK
<1>5. old \in Ready /\ new \in Ready
  BY <1>2, <1>3, <1>4 DEF Look, Ready
<1>6. Last(record'[m]) = Last(record[m])
  BY <1>3, <1>4
<1>7. new = old \/ <<old, new>> \in Contract!Permitted
  <2> HIDE DEF old, new
  <2>1. QED
    BY <1>5 DEF Ready, Contract!Permitted
<1>8. QED
  BY <1>2, <1>4, <1>6, <1>7, Seen

LEMMA DeleteEndsSeen ==
    ASSUME IInv, NEW m \in Meetings, NEW ok \in BOOLEAN, DeleteEnds(m, ok)
    PROVE  Contract!Next \/ UNCHANGED Contract!vars
<1>1. /\ life[m] = "stored" /\ Shown(m) \in Ready \union {"failed"}
      /\ record' = record /\ manifest' = manifest
      /\ life' = life \/ life' = [life EXCEPT ![m] = "deleted"]
  BY DEF DeleteEnds, IInv, BusyInv
<1>2. CASE life' = life
  BY <1>1, <1>2, QuietSteps
<1>3. CASE life' = [life EXCEPT ![m] = "deleted"]
  <2>1. life'[m] = "deleted" /\ \A n \in Meetings \ {m} : life'[n] = life[n]
    BY <1>3 DEF IInv, TypeOK
  <2>2. Visible(m) \in Ready \union {"failed"} /\ Visible(m)' = "deleted"
    BY <1>1, <2>1 DEF Visible
  <2>3. Attempt(m)' = Attempt(m)
    BY <1>1 DEF Attempt
  <2>4. Allowed(m)
    BY <2>2, <2>3 DEF Allowed, Ready, Contract!Permitted
  <2>5. QED
    BY <1>1, <2>1, <2>4, ContractStep
<1>4. QED
  BY <1>1, <1>2, <1>3

LEMMA ContractInit == Init => Contract!Init
<1> SUFFICES ASSUME Init
             PROVE  Contract!Init
  OBVIOUS
<1>1. ASSUME NEW m \in Meetings
      PROVE  life[m] = "absent" /\ Attempt(m) = 1
  BY NewRecordFacts DEF Init, Attempt, Last
<1>2. QED
  BY <1>1 DEF Contract!Init

LEMMA ContractNext ==
    IInv /\ [Next]_vars => Contract!Next \/ UNCHANGED Contract!vars
<1> SUFFICES ASSUME IInv, [Next]_vars
             PROVE  Contract!Next \/ UNCHANGED Contract!vars
  OBVIOUS
<1>1. CASE Tick
  BY <1>1, TickSeen
<1>2. ASSUME NEW m \in Meetings, Calls(m)
      PROVE  Contract!Next \/ UNCHANGED Contract!vars
  <2>1. CASE DeleteBegins(m)
    BY <2>1, QuietSteps DEF DeleteBegins
  <2>2. QED
    BY <1>2, <2>1, CreateSeen, RetrySeen, ReviewSeen DEF Calls
<1>3. ASSUME NEW m \in Meetings, Step(m)
      PROVE  Contract!Next \/ UNCHANGED Contract!vars
  BY <1>3, StepSeen
<1>4. ASSUME NEW m \in Meetings, NEW ok \in BOOLEAN, DeleteEnds(m, ok)
      PROVE  Contract!Next \/ UNCHANGED Contract!vars
  BY <1>4, DeleteEndsSeen
<1>5. CASE \/ \E m \in Meetings : \/ DeadlinePasses(m)
                                  \/ \E a \in Attempts : GPU(m, a)
           \/ Crash \/ UNCHANGED vars
  <2>1. UNCHANGED <<life, record, manifest>>
    BY <1>5 DEF DeadlinePasses, GPU, Deliver, Accept, Finish, Erase, Expire,
                Forget, Crash, vars, api
  <2>2. QED
    BY <2>1, QuietSteps
<1>6. QED
  BY <1>1, <1>2, <1>3, <1>4, <1>5 DEF Next

(* API_CONTRACT.md's table of states and permitted next states: whatever   *)
(* the coordinator, the janitor, the GPU service, the callers, the         *)
(* deadline and crashes do to one another, what GET shows of a meeting     *)
(* only changes as the contract permits, and a failed meeting becomes      *)
(* queued again only by a retry that takes one of its attempts.            *)
THEOREM ImplementsContract == Spec => ContractSpec
BY ContractInit, ContractNext, Invariance, PTL
DEF Spec, ContractSpec, Contract!Spec
=============================================================================
