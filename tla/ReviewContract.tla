--------------------------- MODULE ReviewContract ---------------------------
(***************************************************************************)
(* What a published meeting promises to those who review it, without       *)
(* files, caches or operations in progress: minutes in numbered revisions, *)
(* of which the last may be approved, changed by one step at a time.  A    *)
(* change that was answered is there to stay; one that was not may be      *)
(* seen, and lost again with the power.  ReviewExport is shown to          *)
(* implement it.                                                           *)
(***************************************************************************)
EXTENDS Naturals

CONSTANTS
    Original,     \* the machine's minutes, revision 0
    Edits,        \* the minutes that a reviewer may send
    Reviewed,     \* minutes in which no voice is left unreviewed
    None,         \* nothing was answered
    MaxRevision   \* bound: the last revision

VARIABLES
    state,     \* the number of the last revision and its status
    possible,  \* the states that a power loss may leave
    minutes,   \* the content of each revision up to the last
    told       \* for each revision, the content that a client was told

vars == <<state, possible, minutes, told>>

States == [revision : 0..MaxRevision, status : {"review_required", "approved"}]

Init ==
    /\ state = [revision |-> 0, status |-> "review_required"]
    /\ possible = {state}
    /\ minutes = [r \in 0..0 |-> Original]
    /\ told = [r \in 0..MaxRevision |-> IF r = 0 THEN Original ELSE None]

(* A change of the state is answered, or shown without an answer.          *)
Become(s) ==
    /\ state' = s
    /\ \/ /\ possible' = {s}
          /\ told' = [told EXCEPT ![s.revision] = minutes'[s.revision]]
       \/ /\ possible' = possible \union {s}
          /\ UNCHANGED told

(* PUT /review: the next revision, which is not approved.                  *)
Save(edit) ==
    LET r == state.revision + 1
    IN /\ r <= MaxRevision
       /\ minutes' = [q \in 0..r |-> IF q = r THEN edit ELSE minutes[q]]
       /\ Become([revision |-> r, status |-> "review_required"])

(* POST /approve                                                           *)
Approve ==
    /\ state.status = "review_required"
    /\ minutes[state.revision] \in Reviewed
    /\ UNCHANGED minutes
    /\ Become([revision |-> state.revision, status |-> "approved"])

(* GET /export.pdf shows approved minutes, whose approval cannot be lost.  *)
Send ==
    /\ state.status = "approved"
    /\ possible = {state}
    /\ told' = [told EXCEPT ![state.revision] = minutes[state.revision]]
    /\ UNCHANGED <<state, possible, minutes>>

(* Whatever else is written makes the present state durable.               *)
Settle ==
    /\ possible' = {state}
    /\ UNCHANGED <<state, minutes, told>>

PowerLoss ==
    /\ state' \in possible
    /\ possible' = {state'}
    /\ minutes' = [r \in 0..state'.revision |-> minutes[r]]
    /\ UNCHANGED told

Next ==
    \/ \E edit \in Edits : Save(edit)
    \/ Approve \/ Send \/ Settle \/ PowerLoss

Spec == Init /\ [][Next]_vars

-----------------------------------------------------------------------------
(* What was told of a revision stays its content, whatever power loss may  *)
(* come, and no state that may come back was approved without a review.    *)
AnswersStand ==
    /\ \A r \in 0..MaxRevision :
          told[r] # None =>
             \A s \in possible : r <= s.revision /\ minutes[r] = told[r]
    /\ \A s \in possible :
          s.status = "approved" => minutes[s.revision] \in Reviewed
=============================================================================
