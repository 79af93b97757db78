-------------------------- MODULE MCSayItQuestions --------------------------
(* Instances of SayItQuestions for TLC.                                    *)
EXTENDS SayItQuestions

CONSTANTS q1, q2


=============================================================================
