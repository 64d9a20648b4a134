---------------------------- MODULE UploadPromise ----------------------------
(***************************************************************************)
(* What POST /meetings promises with its 202 (API_CONTRACT.md): the record *)
(* of the meeting is stored, and the recording until its deadline or until *)
(* its result is there.  A disk that loses power keeps one of several      *)
(* versions of a folder, so this is said of every version that may be      *)
(* left.                                                                   *)
(***************************************************************************)

CONSTANT
    Uploads    \* POST requests, each with its own meeting id

VARIABLES
    answer,    \* what the client knows: "waiting", "gone", 202 or an error
    folder,    \* the meeting's folder
    kept,      \* the values of upload.bin and meeting.json that a power loss
               \* may leave in it
    due        \* the recording's deadline has passed

(* The recording has served its purpose: temporary_expires_at has passed,  *)
(* or every record that may be left says that the result is published.     *)
Over(u) == due[u] \/ kept[u].marker \subseteq {"finished", "cleaned"}

(* An upload whose record no power loss can take away, and whose recording *)
(* none can before it has served its purpose.                              *)
Safe(u) ==
    /\ folder[u] = "present"
    /\ "none" \notin kept[u].marker
    /\ kept[u].audio = {"whole"} \/ Over(u)

(* After the 202 of create_meeting's route the task is stored: no power    *)
(* loss, no restart and no sweep takes its record away, nor its recording  *)
(* before the deadline or the publication of its result.                   *)
AcceptedIsKept == \A u \in Uploads : answer[u] = "accepted" => Safe(u)
=============================================================================
