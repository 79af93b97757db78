------------------------- MODULE MCZAHansardImport -------------------------
(* Instances of ZAHansardImport for TLC.                                   *)
EXTENDS ZAHansardImport

CONSTANTS d1, d2, d3
=============================================================================
