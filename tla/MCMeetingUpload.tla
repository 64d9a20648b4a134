-------------------------- MODULE MCMeetingUpload --------------------------
(* Model checking of MeetingUpload.                                        *)
EXTENDS MeetingUpload
=============================================================================
