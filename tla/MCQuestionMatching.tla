------------------------- MODULE MCQuestionMatching -------------------------
(* A small year of questions for TLC.                                      *)
EXTENDS QuestionMatching, TLC

CONSTANTS t1, t2, w1, w2, o1, o2, i1, i2, i3, i4, q1, a1, a2

MCPlace == i1 :> 1 @@ i2 :> 2 @@ i3 :> 3 @@ i4 :> 4

MCWrittenOral == {w1, w2, o1, o2}

(* i2 is i1 of the next term; i1 and i3 have one each of the numbers of    *)
(* a2, scraped before, which match_answers may give to i2 as well; i3 is   *)
(* q1, if that was scraped before; i4 was transferred and shares a number  *)
(* with i2.  a1 fits q1, and i4, which is of the other term.               *)
MCNumbers ==
    i1 :> {w1} @@ i2 :> {w1} @@ i3 :> {o2} @@ i4 :> {w1, o1}
    @@ q1 :> {w2, o2} @@ a1 :> {w2, o1} @@ a2 :> {w1, o2}

MCTerm == [r \in Row |-> IF r \in {i2, i4} THEN t2 ELSE t1]
=============================================================================
