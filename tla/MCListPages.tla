----------------------------- MODULE MCListPages -----------------------------
(* Instances of ListPages for TLC.                                         *)
EXTENDS ListPages

MCList == <<"senate", "national-assembly">>
=============================================================================
