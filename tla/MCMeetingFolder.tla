--------------------------- MODULE MCMeetingFolder ---------------------------
EXTENDS MeetingFolder
\* Two of the files of a publication: one may be archived and the other not.
TwoOriginals == <<"transcript.json", "insights.json">>
=============================================================================
