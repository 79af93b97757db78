-------------------------- MODULE MCCommitteeReports --------------------------
EXTENDS CommitteeReports, TLC

CONSTANTS old, twin, new, c1, c2

(* An old report that the mapping leads to; one that it does not lead to,  *)
(* and the API's report of the same meeting.                               *)
MCCommitteeOf == (old :> c1) @@ (twin :> c2) @@ (new :> c2)
MCSectionOf   == (old :> 1) @@ (twin :> 2) @@ (new :> 2)
MCBefore      == (old :> 2) @@ (twin :> 1) @@ (new :> 0)
=============================================================================
