------------------------ MODULE MCResultPublication ------------------------
(* Model checking of ResultPublication with the three files of the code.   *)
EXTENDS ResultPublication

MCOriginals == <<"transcript.json", "insights.json", "transcript.txt">>
MCManifest == "manifest.json"
=============================================================================
