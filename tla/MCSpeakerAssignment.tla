------------------------ MODULE MCSpeakerAssignment ------------------------
(* Instances of SpeakerAssignment for TLC.                                 *)
EXTENDS SpeakerAssignment, TLC

CONSTANTS e1, e2, e3, e4, jones, seat, alice, bob, day1, day2

(* jones speaks three times: on the newer day in the Senate (e1) and in    *)
(* the National Assembly (e2), where one politician of that name sits in   *)
(* each, as in test_multiple_politician_name_matches_senate, so that the   *)
(* second is given the answer remembered for the first; on the older day   *)
(* in a house where none of them sits.  seat is a place and party, dropped *)
(* by can_ignore_name.                                                     *)
MCEntry == {e1, e2, e3, e4}
MCOrder == e1 :> 1 @@ e2 :> 2 @@ e3 :> 3 @@ e4 :> 4
MCName == {jones, seat}
MCNameOf == e1 :> jones @@ e2 :> jones @@ e3 :> jones @@ e4 :> seat
MCKey == e1 :> <<day2, jones>> @@ e2 :> <<day2, jones>>
         @@ e3 :> <<day1, jones>> @@ e4 :> <<day1, seat>>
MCFound == e1 :> {alice, bob} @@ e2 :> {alice, bob} @@ e3 :> {alice, bob} @@ e4 :> {}
MCHouse == e1 :> {alice} @@ e2 :> {bob} @@ e3 :> {} @@ e4 :> {alice, bob}
MCByPlace == e1 :> {} @@ e2 :> {} @@ e3 :> {} @@ e4 :> {alice}
=============================================================================
