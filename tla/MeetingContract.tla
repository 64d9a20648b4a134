-------------------------- MODULE MeetingContract --------------------------
(***************************************************************************)
(* What the public API promises about the status of a meeting              *)
(* (API_CONTRACT.md, the table of states and permitted next states): the   *)
(* life of every meeting without coordinators, files, GPU jobs or locks.   *)
(* MeetingLifecycle is shown to implement it.                              *)
(***************************************************************************)
EXTENDS Naturals

CONSTANTS
    Meetings,     \* identities of the meetings
    MaxAttempts   \* processing attempts of one meeting, 3 in the code

VARIABLES
    status,   \* what GET answers for each meeting, "absent" or "deleted" if 404
    attempt   \* the number of the attempt the answer shows

vars == <<status, attempt>>

Statuses == {"absent", "queued", "processing", "review_required", "approved",
             "failed", "deleted"}

TypeOK ==
    /\ status \in [Meetings -> Statuses]
    /\ attempt \in [Meetings -> 1..MaxAttempts]

Init ==
    /\ status = [m \in Meetings |-> "absent"]
    /\ attempt = [m \in Meetings |-> 1]

(* The permitted changes within one attempt.                               *)
Permitted ==
    { <<"absent", "queued">>,
      <<"queued", "processing">>, <<"queued", "failed">>,
      <<"processing", "review_required">>, <<"processing", "failed">>,
      <<"review_required", "approved">>, <<"approved", "review_required">>,
      <<"review_required", "deleted">>, <<"approved", "deleted">>,
      <<"failed", "deleted">> }

Change(m) ==
    /\ \E s \in Statuses :
          /\ <<status[m], s>> \in Permitted
          /\ status' = [status EXCEPT ![m] = s]
    /\ UNCHANGED attempt

(* POST /retry: failed becomes queued, with one more attempt.              *)
Retry(m) ==
    /\ status[m] = "failed"
    /\ attempt[m] < MaxAttempts
    /\ status' = [status EXCEPT ![m] = "queued"]
    /\ attempt' = [attempt EXCEPT ![m] = @ + 1]

Next == \E m \in Meetings : Change(m) \/ Retry(m)

Spec == Init /\ [][Next]_vars
=============================================================================
