---------------------------- MODULE MCMeetingView ----------------------------
(* Model checking of MeetingView.                                          *)
EXTENDS MeetingView
=============================================================================
