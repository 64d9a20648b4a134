--------------------------- MODULE MCReviewExport ---------------------------
(* Model checking of ReviewExport.                                         *)
EXTENDS ReviewExport
=============================================================================
