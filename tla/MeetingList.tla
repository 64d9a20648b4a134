----------------------------- MODULE MeetingList -----------------------------
(***************************************************************************)
(* GET /meetings while meetings come and go: a client walks the pages from *)
(* the newest meeting on (useMeetingsQuery), and each page is cut from a   *)
(* list that is read anew (list_meetings in api/routes/meetings.py and     *)
(* services/artifact_store.py).  Nothing is locked: the folder's names are *)
(* taken at once, then record after record is read, and a POST may show a  *)
(* meeting, a DELETE rename one away or rename it back between any two of  *)
(* these reads.                                                            *)
(*                                                                         *)
(* A meeting is its place in the order of creation time and identifier.    *)
(***************************************************************************)
EXTENDS Integers, Sequences, FiniteSets, FiniteSetsExt, Functions

CONSTANTS
    Meetings,   \* numbers, the newest meeting the greatest
    Ready,      \* the meetings with results, which are read as well
    Limit       \* meetings on a page

ASSUME MeetingsAssumption == IsFiniteSet(Meetings) /\ Meetings \subseteq Nat

ASSUME LimitAssumption == Limit \in 1..100

VARIABLES
    fresh,    \* meetings that POST has not yet shown
    there,    \* the folders that a reader finds
    hidden,   \* renamed by a DELETE that may still be undone
    place,    \* the place of the walk
    names,    \* folders of this request that were not read yet
    current,  \* the meeting whose results are read
    items,    \* the meetings that this request has read
    cursor,   \* of this request; the first one has none
    seen,     \* what the client has, page after page
    steady    \* meetings that were there all along

walk == <<place, names, current, items, cursor, seen>>
vars == <<fresh, there, hidden, walk, steady>>

-----------------------------------------------------------------------------
(* Above every meeting: no cursor yet.                                     *)
First == Max(Meetings \union {0}) + 1

Init ==
    /\ there \in SUBSET Meetings
    /\ fresh = Meetings \ there
    /\ hidden = {}
    /\ place = "ask"
    /\ names = {}
    /\ current = First
    /\ items = {}
    /\ cursor = First
    /\ seen = <<>>
    /\ steady = there

(* parent.iterdir()                                                        *)
Ask ==
    /\ place = "ask"
    /\ place' = "read"
    /\ names' = there
    /\ items' = {}
    /\ UNCHANGED <<fresh, there, hidden, current, cursor, seen, steady>>

(* Mutant: a folder that has gone ends the list.                           *)
ReadRecordStops(m) ==
    /\ place = "read"
    /\ m \in names
    /\ names' = IF m \in there THEN names \ {m} ELSE {}
    /\ items' = IF m \in there THEN items \union {m} ELSE items
    /\ UNCHANGED <<fresh, there, hidden, place, current, cursor, seen, steady>>

(* read_record: a folder that has gone is skipped, and a meeting that has  *)
(* results is not done yet.                                                *)
ReadRecord(m) ==
    /\ place = "read"
    /\ m \in names
    /\ names' = names \ {m}
    /\ IF m \in there /\ m \in Ready
       THEN place' = "results" /\ current' = m /\ UNCHANGED items
       ELSE /\ items' = IF m \in there THEN items \union {m} ELSE items
            /\ UNCHANGED <<place, current>>
    /\ UNCHANGED <<fresh, there, hidden, cursor, seen, steady>>

(* read_results: a folder that goes before the manifest's record is read   *)
(* is skipped, one that goes before the manifest is shown as processing,   *)
(* and one that goes later is a 503 for the whole list.                    *)
ReadResults(outcome) ==
    /\ place = "results"
    /\ outcome # "shown" => current \notin there
    /\ place' = IF outcome = "error" THEN "failed" ELSE "read"
    /\ items' = IF outcome = "shown" \/ outcome = "processing"
                THEN items \union {current} ELSE items
    /\ UNCHANGED <<fresh, there, hidden, names, current, cursor, seen, steady>>

(* Mutant: the page begins with the meeting that the last one ended with.  *)
BelowOrAt == { m \in items : m <= cursor }

(* What is below the cursor                                                *)
Below == { m \in items : m < cursor }

(* The n greatest of S, greatest first                                     *)
Newest(S, n) ==
    [i \in 1..IF Cardinality(S) < n THEN Cardinality(S) ELSE n |->
        CHOOSE m \in S : Cardinality({ k \in S : k >= m }) = i]

(* The coded place of the last meeting, which only its own code decodes to. *)
Cursor(page) == page[Len(page)]

(* The page is cut, and its last meeting is the next cursor if more are    *)
(* left.                                                                   *)
Answer ==
    LET page == Newest(Below, Limit)
    IN /\ place = "read"
       /\ names = {}
       /\ seen' = seen \o page
       /\ IF Cardinality(Below) > Len(page)
          THEN place' = "ask" /\ cursor' = Cursor(page)
          ELSE place' = "done" /\ UNCHANGED cursor
       /\ UNCHANGED <<fresh, there, hidden, names, current, items, steady>>

-----------------------------------------------------------------------------
(* A creation ends, its time may be older than what was shown since.       *)
Show(m) ==
    /\ m \in fresh
    /\ fresh' = fresh \ {m}
    /\ there' = there \union {m}
    /\ UNCHANGED <<hidden, walk, steady>>

Hide(m) ==
    /\ m \in there
    /\ there' = there \ {m}
    /\ hidden' = hidden \union {m}
    /\ steady' = steady \ {m}
    /\ UNCHANGED <<fresh, walk>>

(* The directory could not be synced: the folder gets its name back.       *)
Undo(m) ==
    /\ m \in hidden
    /\ hidden' = hidden \ {m}
    /\ there' = there \union {m}
    /\ UNCHANGED <<fresh, walk, steady>>

Remove(m) ==
    /\ m \in hidden
    /\ hidden' = hidden \ {m}
    /\ UNCHANGED <<fresh, there, walk, steady>>

Next ==
    \/ Ask \/ Answer
    \/ \E outcome \in {"shown", "skipped", "processing", "error"} : ReadResults(outcome)
    \/ \E m \in Meetings : ReadRecord(m) \/ Show(m) \/ Hide(m) \/ Undo(m) \/ Remove(m)

Spec == Init /\ [][Next]_vars

-----------------------------------------------------------------------------
(* Properties *)

(* Whatever comes and goes between the pages, the client's list is newest  *)
(* first over all of its pages: no meeting is shown twice, and no cursor   *)
(* ever repeats, which the client would take for an error.                 *)
NewestFirst == \A i, j \in DOMAIN seen : i < j => seen[i] > seen[j]

(* A meeting that was there from the first request to the last answer is   *)
(* in the list, whatever was created or deleted around it.                 *)
SteadyIsListed == place = "done" => steady \subseteq Range(seen)
=============================================================================
