------------------------- MODULE MCMeetingLifecycle -------------------------
(* Model checking of MeetingLifecycle; each configuration gives the        *)
(* meetings as model values and the bounds as numbers.                     *)
EXTENDS MeetingLifecycle
=============================================================================
