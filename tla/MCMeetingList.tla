---------------------------- MODULE MCMeetingList ----------------------------
(* Model checking of MeetingList.                                          *)
EXTENDS MeetingList
=============================================================================
