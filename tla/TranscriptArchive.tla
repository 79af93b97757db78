-------------------------- MODULE TranscriptArchive --------------------------
(***************************************************************************)
(* What the Hansard import promises, whatever its steps: a transcript is   *)
(* tried at most once for each time it is listed, it is published as a     *)
(* whole by one step, and a joint sitting that both Houses publish appears *)
(* at most once.  An error only ever leaves a transcript "tried".          *)
(***************************************************************************)
CONSTANTS Source, Meeting, Joint

VARIABLE stage

Stages == {"unlisted", "waiting", "tried", "published"}

Init == stage = [s \in Source |-> "unlisted"]

(* s moves from one of the stages in `from` to `to`.                       *)
Move(s, from, to) == stage[s] \in from /\ stage' = [stage EXCEPT ![s] = to]

List(s) == Move(s, {"unlisted"}, "waiting")

(* The import may have loaded s just before staff removed it.              *)
Try(s) == Move(s, {"waiting", "unlisted"}, "tried")

Publish(s) ==
    /\ Meeting[s] \in Joint =>
         \A t \in Source : Meeting[t] = Meeting[s] => stage[t] # "published"
    /\ Move(s, {"tried"}, "published")

Remove(s) == Move(s, {"waiting", "tried", "published"}, "unlisted")

Next == \E s \in Source : List(s) \/ Try(s) \/ Publish(s) \/ Remove(s)

Spec == Init /\ [][Next]_stage
=============================================================================
