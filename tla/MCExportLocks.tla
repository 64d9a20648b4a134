--------------------------- MODULE MCExportLocks ---------------------------
(* Model checking of ExportLocks.                                          *)
EXTENDS ExportLocks
=============================================================================
