--------------------------- MODULE MCPersonRecords ---------------------------
EXTENDS PersonRecords, TLC

CONSTANTS ann, bob, cleo, s1, s2

(* Cleo is added while the commands run; the speeches are of the other two.*)
MCAuthor == (s1 :> ann) @@ (s2 :> bob)
=============================================================================
