------------------------- MODULE MCSourceProcessing -------------------------
(* Instances of SourceProcessing for TLC.                                  *)
EXTENDS SourceProcessing, TLC

CONSTANTS s1, s2, s3, s4, plain, joint

(* Newest first: s1 to s4.  s1 and s3 are the two Houses' copies of the    *)
(* document of one joint sitting; s2 reports a meeting of its own; s4, if  *)
(* it is in the instance, is gone from the site.                           *)
MCRank == [s \in Source |->
             CASE s = s1 -> 1 [] s = s2 -> 2 [] s = s3 -> 3 [] OTHER -> 4]
MCMeeting == [s \in Source |-> IF s \in {s1, s3} THEN joint ELSE plain]
MCJoint == {joint}
=============================================================================
