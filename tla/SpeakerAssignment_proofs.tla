----------------------- MODULE SpeakerAssignment_proofs -----------------------
(***************************************************************************)
(* Proofs about SpeakerAssignment, for all speeches, names and people, any *)
(* search, and any number of edits by staff and of kills.                  *)
(***************************************************************************)
EXTENDS SpeakerAssignment, FiniteSetTheorems, TLAPS

(* What belongs to the run in hand, and nothing else does: the cache and   *)
(* the loaded speeches go with it.                                         *)
InRun ==
    /\ pc = "idle" => todo = {} /\ memo = Nobody
    /\ cur \in Entry <=> pc \in {"lookup", "match", "assign"}
    /\ cur \in Entry => cur \in stored
    /\ cur \notin todo
    /\ pc # "match" => hand = "none"

(* The speeches the run still has to save had no speaker when loaded, and  *)
(* only staff, in the form of the speech, gave them one since then.        *)
Pending ==
    \A e \in todo \cup {cur} : e \in Entry => speaker[e] = None \/ e \in byHand

(* The history knows what the alias table says now.                        *)
Noted == pc # "idle" => Verdicts \subseteq said

Inv == TypeOK /\ InRun /\ Pending /\ Noted

(* An answer for a key follows a verdict of this run on the name of a      *)
(* speech with that key, or a search which such a verdict allowed.         *)
Follows(S, k) ==
    \E f \in stored, verdict \in said :
      /\ Key[f] = k /\ verdict[1] = NameOf[f]
      /\ \/ verdict[2] = {None}
         \/ verdict[2] = S /\ (S = {} \/ \E p : S = {p})

(* Every remembered answer, and the one in hand, does; a search is allowed.*)
Remembered ==
    /\ \A k \in DOMAIN memo : Follows(memo[k], k)
    /\ pc = "assign" => Follows(found, Key[cur])
    /\ pc = "match" => <<NameOf[cur], {None}>> \in said

Undecided(n) == n \notin ignored /\ aka[n] = None

(* An answer is the one that a lookup of f itself would give now.          *)
Own(f, S) ==
    \/ S = {}
    \/ aka[NameOf[f]] # None /\ S = {aka[NameOf[f]]}
    \/ S = Results(f)

(* Undisturbed, every answer is the one of some speech with its key.       *)
OwnAnswers ==
    quiet =>
        /\ \A k \in DOMAIN memo : \E f \in stored : Key[f] = k /\ Own(f, memo[k])
        /\ pc = "assign" => \E f \in stored : Key[f] = Key[cur] /\ Own(f, found)
        /\ pc = "match" => Undecided(NameOf[cur])

-----------------------------------------------------------------------------
LEMMA InitInv == Init => Inv
  BY AssignmentAssumption DEF Init, Inv, TypeOK, InRun, Pending, Noted, Nobody

VerdictType == Name \X SUBSET (Person \cup {None})

(* The history keeps its type and stays up to date, whether a step notes   *)
(* the verdicts or leaves them as they are.                                *)
LEMMA SaidStays ==
  ASSUME TypeOK, aka' \in [Name -> Person \cup {None}],
         NoteVerdicts \/ UNCHANGED <<aka, ignored, said>>
  PROVE  /\ said' \subseteq VerdictType
         /\ said \subseteq said'
         /\ Verdicts \subseteq said => Verdicts' \subseteq said'
<1>1. \A n \in Name : aka'[n] \in Person \cup {None}
  OBVIOUS
<1>2. Verdicts' \subseteq VerdictType
  BY <1>1 DEF Verdicts, VerdictType
<1>3. UNCHANGED <<aka, ignored>> => Verdicts' = Verdicts
  BY DEF Verdicts
<1>4. said \subseteq VerdictType
  BY DEF TypeOK, VerdictType
<1>5. CASE NoteVerdicts
  BY <1>2, <1>4, <1>5 DEF NoteVerdicts
<1>6. CASE UNCHANGED <<aka, ignored, said>>
  BY <1>3, <1>4, <1>6
<1> QED
  BY <1>5, <1>6

(* Ending the process forgets the run.                                     *)
LEMMA StoppedInv ==
  ASSUME Inv, Stopped, UNCHANGED <<stored, speaker, people, table, byHand, said>>,
         quiet' \in BOOLEAN, edits' \in 0..MaxStaff, failures' \in 0..MaxFailures
  PROVE  Inv'
  BY AssignmentAssumption DEF Inv, TypeOK, InRun, Pending, Noted, Stopped, Nobody, table

LEMMA StaffInv ==
  ASSUME Inv, StaffStep
  PROVE  Inv'
<1> USE DEF Inv
<1>1. Staff
  BY DEF StaffStep, SaveAlias, AddAlias, IgnoreAliases, DeleteAlias, AddPerson,
         Reattribute, SetSpeaker
<1>2. /\ UNCHANGED <<stored, pc, todo, cur, found, memo, failures>>
      /\ quiet' = FALSE /\ edits' \in 0..MaxStaff
  <2>1. edits \in 0..MaxStaff
    BY DEF TypeOK
  <2> QED
    BY <1>1, <2>1, AssignmentAssumption DEF Staff
<1>3. ASSUME UNCHANGED <<speaker, byHand>>, people' \subseteq Person,
             aliases' \subseteq Name, aka' \in [Name -> Person \cup {None}],
             ignored' \subseteq aliases', \A n \in Name \ aliases' : aka'[n] = None,
             hand' \in {hand} \/ (hand = "row" /\ hand' = "deleted"),
             NoteVerdicts \/ UNCHANGED <<aka, ignored, said>>
      PROVE  Inv'
  <2>1. said' \subseteq VerdictType /\ Noted'
    BY <1>2, <1>3, SaidStays DEF Noted
  <2> QED
    BY <1>2, <1>3, <2>1 DEF TypeOK, InRun, Pending, VerdictType
<1>4. ASSUME UNCHANGED <<hand, table, people, said>>, byHand \subseteq byHand', byHand' \subseteq Entry,
             speaker' \in [Entry -> Person \cup {None}],
             \A e \in Entry : speaker[e] = None => speaker'[e] = None \/ e \in byHand'
      PROVE  Inv'
  BY <1>2, <1>4 DEF TypeOK, InRun, Pending, Noted, Verdicts, table
<1>5. ASSUME NEW n \in Name, NEW p \in Person \cup {None}, NEW ignore \in BOOLEAN,
             SaveAlias(n, p, ignore)
      PROVE  Inv'
  BY <1>3, <1>5 DEF SaveAlias, TypeOK
<1>6. ASSUME NEW n \in Name, NEW p \in Person \cup {None}, NEW ignore \in BOOLEAN,
             AddAlias(n, p, ignore)
      PROVE  Inv'
  BY <1>3, <1>6 DEF AddAlias, TypeOK
<1>7. ASSUME NEW names \in SUBSET Name, IgnoreAliases(names)
      PROVE  Inv'
  BY <1>3, <1>7 DEF IgnoreAliases, TypeOK
<1>8. ASSUME NEW n \in Name, DeleteAlias(n)
      PROVE  Inv'
  BY <1>3, <1>8 DEF DeleteAlias, TypeOK
<1>9. ASSUME NEW p \in Person, AddPerson(p)
      PROVE  Inv'
  BY <1>3, <1>9 DEF AddPerson, TypeOK, table
<1>10. ASSUME NEW p \in Person, NEW q \in Person, NEW dates \in SUBSET Keys,
              Reattribute(p, q, dates)
       PROVE  Inv'
  BY <1>4, <1>10, AssignmentAssumption DEF Reattribute, TypeOK
<1>11. ASSUME NEW e \in Entry, NEW p \in Person \cup {None}, SetSpeaker(e, p)
       PROVE  Inv'
  BY <1>4, <1>11 DEF SetSpeaker, TypeOK
<1> QED
  BY <1>5, <1>6, <1>7, <1>8, <1>9, <1>10, <1>11 DEF StaffStep

LEMMA ResultsType == \A e \in Entry : Results(e) \subseteq Person
  BY AssignmentAssumption DEF Results, Search

(* possible_matching_speakers returns, and its answer is remembered.       *)
LEMMA ReturnInv ==
  ASSUME Inv, pc \in {"lookup", "match"},
         NEW S \in SUBSET Person, Return(S),
         UNCHANGED <<stored, speaker, people, byHand, quiet, edits, failures>>,
         NoteVerdicts \/ UNCHANGED <<aka, ignored, said>>,
         aliases' \subseteq Name, aka' \in [Name -> Person \cup {None}],
         ignored' \subseteq aliases', \A n \in Name \ aliases' : aka'[n] = None
  PROVE  Inv'
<1> USE DEF Inv, Return
<1>1. cur \in Entry /\ CacheKey(cur) \in Keys
  BY DEF InRun, CacheKey, Keys
<1>2. DOMAIN memo' \subseteq Keys /\ \A k \in DOMAIN memo' : memo'[k] \subseteq Person
  BY <1>1 DEF TypeOK
<1>3. said' \subseteq VerdictType /\ Noted'
  BY SaidStays DEF Noted
<1>4. TypeOK'
  BY <1>2, <1>3 DEF TypeOK, VerdictType
<1>5. InRun' /\ Pending'
  BY DEF InRun, Pending
<1> QED
  BY <1>3, <1>4, <1>5

LEMMA RunStepInv ==
  ASSUME Inv, RunStep
  PROVE  Inv'
<1> USE DEF Inv
<1>1. CASE StartRun
  <2>1. todo' = {e \in stored : speaker[e] = None} /\ pc' = "next" /\ quiet' = TRUE
        /\ pc = "idle" /\ byHand' = {} /\ said' = Verdicts
        /\ UNCHANGED <<stored, speaker, people, table, cur, hand, found, memo, edits, failures>>
    BY <1>1 DEF StartRun, unassigned_speeches
  <2>2. Verdicts \subseteq VerdictType /\ Verdicts' = Verdicts
    BY <2>1 DEF Verdicts, VerdictType, TypeOK, table
  <2>3. TypeOK' /\ Noted'
    BY <2>1, <2>2 DEF TypeOK, VerdictType, Noted, table
  <2>4. InRun' /\ Pending'
    BY <2>1, AssignmentAssumption DEF TypeOK, InRun, Pending
  <2> QED
    BY <2>3, <2>4
<1>2. CASE EndRun
  BY <1>2, StoppedInv DEF EndRun, TypeOK, history
<1>3. CASE TakeNext
  <2>1. PICK e \in todo :
          /\ cur' = e /\ todo' = todo \ {e}
          /\ \/ CacheKey(e) \in DOMAIN memo /\ pc' = "assign" /\ found' = memo[CacheKey(e)]
             \/ pc' = "lookup" /\ found' = {}
    BY <1>3 DEF TakeNext
  <2>2. /\ pc = "next"
        /\ UNCHANGED <<stored, speaker, people, table, hand, memo, history, edits, failures>>
    BY <1>3 DEF TakeNext
  <2>3. TypeOK'
    BY <2>1, <2>2 DEF TypeOK, table, history
  <2>4. InRun' /\ Pending' /\ Noted'
    BY <2>1, <2>2 DEF TypeOK, InRun, Pending, Noted, Verdicts, table, history
  <2> QED
    BY <2>3, <2>4
<1>4. CASE Lookup
  <2>1. cur \in Entry /\ NameOf[cur] \in Name
    BY <1>4, AssignmentAssumption DEF Lookup, InRun
  <2>2. ASSUME NEW S \in SUBSET Person, Return(S)
        PROVE  Inv'
    BY <1>4, <2>2, ReturnInv DEF Lookup, TypeOK, table, history
  <2>3. NameOf[cur] \in ignored /\ Return({}) => Inv'
    BY <2>2
  <2>4. aka[NameOf[cur]] # None /\ Return({aka[NameOf[cur]]}) => Inv'
    <3>1. aka[NameOf[cur]] # None => {aka[NameOf[cur]]} \in SUBSET Person
      BY <2>1 DEF TypeOK
    <3> QED
      BY <2>2, <3>1
  <2>5. ASSUME hand' \in {"row", "none"}, pc' = "match", UNCHANGED <<todo, cur, found, memo>>
        PROVE  Inv'
    BY <1>4, <2>1, <2>5 DEF Lookup, TypeOK, InRun, Pending, Noted, Verdicts, table, history
  <2> QED
    BY <1>4, <2>3, <2>4, <2>5 DEF Lookup
<1>5. CASE MatchNoSeat
  <2>1. cur \in Entry /\ NameOf[cur] \in Name
    BY <1>5, AssignmentAssumption DEF MatchNoSeat, InRun
  <2> QED
    BY <1>5, <2>1, ReturnInv DEF MatchNoSeat, TypeOK, history
<1>6. CASE MatchOne
  <2>1. cur \in Entry /\ NameOf[cur] \in Name /\ Results(cur) \in SUBSET Person
    BY <1>6, AssignmentAssumption, ResultsType DEF MatchOne, InRun
  <2> QED
    BY <1>6, <2>1, ReturnInv DEF MatchOne, TypeOK
<1>7. CASE MatchNone
  <2>1. cur \in Entry /\ NameOf[cur] \in Name /\ Results(cur) \in SUBSET Person
    BY <1>7, AssignmentAssumption, ResultsType DEF MatchNone, NotFoundHere, InRun
  <2> QED
    BY <1>7, <2>1, ReturnInv DEF MatchNone, NotFoundHere, TypeOK, history
<1>8. CASE MatchNoneRefused
  BY <1>8, StoppedInv DEF MatchNoneRefused, TypeOK, history
<1>9. CASE Assign
  <2>1. cur \in Entry /\ pc = "assign"
    BY <1>9 DEF Assign, InRun
  <2>2. /\ speaker' \in [Entry -> Person \cup {None}]
        /\ \A e \in Entry \ {cur} : speaker'[e] = speaker[e]
    <3>1. CASE Cardinality(found) = 1
      <4>1. IsFiniteSet(found)
        BY AssignmentAssumption, FS_Subset DEF TypeOK
      <4>2. PICK p : found = {p}
        BY <3>1, <4>1, FS_Singleton
      <4>3. speaker' = [speaker EXCEPT ![cur] = p] /\ p \in Person
        BY <1>9, <3>1, <4>2 DEF Assign, TypeOK
      <4> QED
        BY <2>1, <4>3 DEF TypeOK
    <3>2. CASE Cardinality(found) # 1
      BY <1>9, <3>2 DEF Assign, TypeOK
    <3> QED
      BY <3>1, <3>2
  <2>3. /\ pc' = "next" /\ cur' = None /\ found' = {}
        /\ UNCHANGED <<stored, people, table, todo, hand, memo, history, edits, failures>>
    BY <1>9 DEF Assign
  <2>4. TypeOK'
    BY <2>2, <2>3 DEF TypeOK, table, history
  <2>5. InRun' /\ Pending' /\ Noted'
    BY <2>1, <2>2, <2>3, AssignmentAssumption
       DEF TypeOK, InRun, Pending, Noted, Verdicts, table, history
  <2> QED
    BY <2>4, <2>5
<1> QED
  BY <1>1, <1>2, <1>3, <1>4, <1>5, <1>6, <1>7, <1>8, <1>9 DEF RunStep

LEMMA NextInv ==
  ASSUME Inv, [Next]_vars
  PROVE  Inv'
<1>1. CASE Crash
  <2>1. failures \in 0..MaxFailures /\ quiet \in BOOLEAN /\ edits \in 0..MaxStaff
    BY DEF Inv, TypeOK
  <2> QED
    BY <1>1, <2>1, StoppedInv, AssignmentAssumption DEF Crash, history
<1>2. ASSUME NEW e \in Entry, Store(e)
      PROVE  Inv'
  BY <1>2 DEF Store, Inv, TypeOK, InRun, Pending, Noted, Verdicts, table, run, history
<1>3. CASE UNCHANGED vars
  BY <1>3 DEF vars, Inv, TypeOK, InRun, Pending, Noted, Verdicts, table, run, history
<1> QED
  BY <1>1, <1>2, <1>3, RunStepInv, StaffInv DEF Next

LEMMA Invariance == Spec => []Inv
<1> QED
  BY InitInv, NextInv, PTL DEF Spec

-----------------------------------------------------------------------------
LEMMA CommittedByAssign ==
  ASSUME Inv, [Next]_vars, Committed
  PROVE  Assign /\ cur \in Entry
<1>1. ~StaffStep
  BY DEF Committed, StaffStep, Staff, SaveAlias, AddAlias, IgnoreAliases, DeleteAlias,
         AddPerson, Reattribute, SetSpeaker
<1>2. Assign
  BY <1>1 DEF Committed, Next, RunStep, StartRun, TakeNext, Lookup, Return, MatchNoSeat,
     MatchOne, MatchNone, NotFoundHere, MatchNoneRefused, EndRun, Crash, Stopped, Store,
     vars, run
<1> QED
  BY <1>2 DEF Assign, Inv, InRun

(* Every variable stays in its set; in particular a name without an alias  *)
(* row has no decision, and what is remembered of an answer is a set of    *)
(* people.                                                                 *)
THEOREM TypeCorrect == Spec => []TypeOK
<1>1. Inv => TypeOK
  BY DEF Inv
<1> QED
  BY <1>1, Invariance, PTL

(* A speech that has a speaker is loaded by no run, so whatever happens    *)
(* between the loading and the saving of a speech, no commit replaces a    *)
(* speaker but one that staff set in the form of that speech.              *)
THEOREM NoneReplaced == Spec => OnlyUnassignedFilled
<1> DEFINE Filled == Committed =>
             \A e \in Entry : speaker'[e] # speaker[e] => speaker[e] = None \/ e \in byHand
<1>1. ASSUME Inv, [Next]_vars
      PROVE  Filled
  <2> SUFFICES ASSUME Committed, NEW e \in Entry, speaker'[e] # speaker[e]
               PROVE  speaker[e] = None \/ e \in byHand
    OBVIOUS
  <2>1. Assign /\ cur \in Entry
    BY <1>1, CommittedByAssign
  <2>2. e = cur
    BY <1>1, <2>1 DEF Assign, Inv, TypeOK
  <2> QED
    BY <1>1, <2>2 DEF Inv, Pending
<1>2. Inv /\ [Next]_vars => [Filled]_vars
  BY <1>1
<1> QED
  BY <1>2, Invariance, PTL DEF Spec, OnlyUnassignedFilled

-----------------------------------------------------------------------------
(* Only the start of a run forgets verdicts, and then there is no answer.  *)
LEMMA HistoryGrows ==
  ASSUME Inv, [Next]_vars, ~StartRun
  PROVE  stored \subseteq stored' /\ said \subseteq said'
<1>1. stored \subseteq stored'
  BY DEF Next, RunStep, StaffStep, TakeNext, Lookup, MatchNoSeat, MatchOne, MatchNone,
     MatchNoneRefused, Assign, EndRun, Crash, Store, vars, Staff, SaveAlias, AddAlias,
     IgnoreAliases, DeleteAlias, AddPerson, Reattribute, SetSpeaker
<1>2. said' = said \/ NoteVerdicts
  BY DEF Next, RunStep, StaffStep, TakeNext, Lookup, MatchNoSeat, MatchOne, MatchNone,
     MatchNoneRefused, Assign, EndRun, Crash, Store, vars, history, SaveAlias, AddAlias,
     IgnoreAliases, DeleteAlias, AddPerson, Reattribute, SetSpeaker
<1> QED
  BY <1>1, <1>2 DEF NoteVerdicts

LEMMA FollowsLasts ==
  ASSUME stored \subseteq stored', said \subseteq said', NEW S, NEW k, Follows(S, k)
  PROVE  Follows(S, k)'
  BY DEF Follows

LEMMA ReturnRemembers ==
  ASSUME Inv, Remembered, cur \in Entry, NEW S, Return(S), Follows(S, Key[cur]),
         stored \subseteq stored', said \subseteq said'
  PROVE  Remembered'
<1>1. ASSUME NEW k \in DOMAIN memo'
      PROVE  Follows(memo[k], k)'
  <2>1. \/ k = Key[cur] /\ memo'[k] = S
        \/ k \in DOMAIN memo /\ memo'[k] = memo[k]
    BY <1>1 DEF Return, CacheKey
  <2>2. Follows(memo'[k], k)
    BY <2>1 DEF Remembered
  <2> QED
    BY <2>2 DEF Follows
<1>2. Follows(found, Key[cur])'
  BY DEF Follows, Return
<1> QED
  BY <1>1, <1>2 DEF Remembered, Return

LEMMA RememberedInv ==
  ASSUME Inv, Remembered, [Next]_vars
  PROVE  Remembered'
<1>1. CASE StartRun
  BY <1>1 DEF StartRun, Inv, InRun, Nobody, Remembered
<1>2. CASE Stopped
  BY <1>2 DEF Stopped, Nobody, Remembered
<1> SUFFICES ASSUME ~StartRun, ~Stopped PROVE Remembered'
  BY <1>1, <1>2
<1>3. stored \subseteq stored' /\ said \subseteq said'
  BY HistoryGrows
<1>4. CASE UNCHANGED <<memo, pc, cur, found>>
  <2>1. ASSUME NEW k \in DOMAIN memo'
        PROVE  Follows(memo[k], k)'
    <3>1. Follows(memo[k], k) /\ memo'[k] = memo[k]
      BY <1>4, <2>1 DEF Remembered
    <3> QED
      BY <1>3, <3>1 DEF Follows
  <2>2. pc' = "assign" => Follows(found, Key[cur])'
    BY <1>3, <1>4 DEF Remembered, Follows
  <2> QED
    BY <1>3, <1>4, <2>1, <2>2 DEF Remembered
<1>5. ASSUME memo' = memo
      PROVE  \A k \in DOMAIN memo' : Follows(memo[k], k)'
  <2> SUFFICES ASSUME NEW k \in DOMAIN memo'
               PROVE  Follows(memo[k], k)'
    OBVIOUS
  <2>1. Follows(memo[k], k) /\ memo'[k] = memo[k]
    BY <1>5 DEF Remembered
  <2> QED
    BY <1>3, <2>1 DEF Follows
<1>6. CASE Assign
  BY <1>5, <1>6 DEF Assign, Remembered
<1>7. CASE TakeNext
  <2>1. PICK e \in todo :
          /\ cur' = e
          /\ \/ Key[e] \in DOMAIN memo /\ pc' = "assign" /\ found' = memo[Key[e]]
             \/ pc' = "lookup"
    BY <1>7 DEF TakeNext, CacheKey
  <2>2. memo' = memo
    BY <1>7 DEF TakeNext
  <2>3. pc' = "assign" => Follows(found, Key[cur])'
    <3> SUFFICES ASSUME Key[e] \in DOMAIN memo, found' = memo[Key[e]]
                 PROVE  Follows(found, Key[cur])'
      BY <2>1
    <3>1. Follows(memo[Key[e]], Key[e])
      BY DEF Remembered
    <3>2. Follows(found', Key[cur'])
      BY <2>1, <3>1
    <3> QED
      BY <1>3, <3>2 DEF Follows
  <2> QED
    BY <1>5, <2>1, <2>2, <2>3 DEF Remembered
<1>8. ASSUME pc \in {"lookup", "match"}
      PROVE  cur \in Entry /\ cur \in stored /\ NameOf[cur] \in Name
  BY <1>8, AssignmentAssumption DEF Inv, InRun
<1>9. CASE Lookup
  <2>1. <<NameOf[cur], IF NameOf[cur] \in ignored THEN {} ELSE {aka[NameOf[cur]]}>> \in said
    BY <1>8, <1>9 DEF Lookup, Inv, Noted, Verdicts
  <2>2. ASSUME NameOf[cur] \in ignored, Return({})
        PROVE  Remembered'
    <3>1. <<NameOf[cur], {}>> \in said
      BY <2>1, <2>2
    <3>2. Follows({}, Key[cur])
      BY <1>8, <1>9, <3>1 DEF Lookup, Follows
    <3> QED
      BY <1>3, <1>8, <1>9, <2>2, <3>2, ReturnRemembers DEF Lookup
  <2>3. ASSUME NameOf[cur] \notin ignored, Return({aka[NameOf[cur]]})
        PROVE  Remembered'
    <3>1. <<NameOf[cur], {aka[NameOf[cur]]}>> \in said
      BY <2>1, <2>3
    <3>2. Follows({aka[NameOf[cur]]}, Key[cur])
      BY <1>8, <1>9, <3>1 DEF Lookup, Follows
    <3> QED
      BY <1>3, <1>8, <1>9, <2>3, <3>2, ReturnRemembers DEF Lookup
  <2>4. ASSUME NameOf[cur] \notin aliases \/ NameOf[cur] \in unassigned,
               pc' = "match", UNCHANGED <<cur, memo>>
        PROVE  Remembered'
    <3>1. NameOf[cur] \notin ignored /\ aka[NameOf[cur]] = None
      BY <1>8, <1>9, <2>4 DEF Lookup, unassigned, Inv, TypeOK
    <3>2. <<NameOf[cur], {None}>> \in said'
      BY <1>3, <2>1, <3>1
    <3> QED
      BY <1>5, <2>4, <3>2 DEF Remembered
  <2> QED
    BY <1>9, <2>2, <2>3, <2>4 DEF Lookup
<1>10. CASE MatchNoSeat \/ MatchOne \/ MatchNone
  <2>1. pc = "match" /\ <<NameOf[cur], {None}>> \in said
    BY <1>10 DEF MatchNoSeat, MatchOne, MatchNone, NotFoundHere, Remembered
  <2>2. \A S : Follows(S, Key[cur])
    BY <1>8, <2>1 DEF Follows
  <2>3. \E S : Return(S)
    BY <1>10 DEF MatchNoSeat, MatchOne, MatchNone
  <2> QED
    BY <1>3, <1>8, <2>1, <2>2, <2>3, ReturnRemembers
<1>11. \/ Assign \/ TakeNext \/ Lookup \/ MatchNoSeat \/ MatchOne \/ MatchNone
       \/ UNCHANGED <<memo, pc, cur, found>>
  BY DEF Next, RunStep, StaffStep, EndRun, MatchNoneRefused, Crash, Store, vars, run, Staff,
     SaveAlias, AddAlias, IgnoreAliases, DeleteAlias, AddPerson, Reattribute, SetSpeaker
<1> QED
  BY <1>4, <1>6, <1>7, <1>9, <1>10, <1>11

LEMMA FoundIsFinite ==
  ASSUME Inv
  PROVE  IsFiniteSet(found)
  BY AssignmentAssumption, FS_Subset DEF Inv, TypeOK

(* What an answer does to the speech in hand.                              *)
LEMMA Assigned ==
  ASSUME Inv, Assign
  PROVE  /\ found = {} => speaker' = speaker
         /\ \A p : found = {p} => speaker'[cur] = p
         /\ speaker' # speaker => found = {speaker'[cur]}
<1>1. Cardinality({}) # 1 /\ \A p : Cardinality({p}) = 1
  BY FS_EmptySet, FS_Singleton
<1>2. cur \in Entry /\ speaker \in [Entry -> Person \cup {None}]
  BY DEF Assign, Inv, InRun, TypeOK
<1>3. \A p : found = {p} => speaker' = [speaker EXCEPT ![cur] = p]
  BY <1>1 DEF Assign
<1>4. \A p : found = {p} => speaker'[cur] = p
  BY <1>2, <1>3
<1>5. ASSUME speaker' # speaker
      PROVE  found = {speaker'[cur]}
  <2>1. Cardinality(found) = 1
    BY <1>5 DEF Assign
  <2>2. PICK p : found = {p}
    BY <2>1, FoundIsFinite, FS_Singleton
  <2> QED
    BY <1>4, <2>2
<1> QED
  BY <1>1, <1>4, <1>5 DEF Assign

(* What the command commits follows what the alias table said while it     *)
(* ran, for any number of edits by staff in any of its steps.              *)
THEOREM DecisionsRespected == Spec => AliasRespected
<1> DEFINE Respected == Committed =>
             \E f \in Alike, verdict \in said :
               /\ verdict[1] = NameOf[f]
               /\ \/ verdict[2] = {None}
                  \/ verdict[2] = {} /\ speaker' = speaker
                  \/ verdict[2] = {speaker'[cur]}
<1>1. Init => Remembered
  BY DEF Init, Remembered, Nobody
<1>2. ASSUME Inv, Remembered, [Next]_vars, Committed
      PROVE  \E f \in Alike, verdict \in said :
               /\ verdict[1] = NameOf[f]
               /\ \/ verdict[2] = {None}
                  \/ verdict[2] = {} /\ speaker' = speaker
                  \/ verdict[2] = {speaker'[cur]}
  <2>1. Assign
    BY <1>2, CommittedByAssign
  <2>2. Follows(found, Key[cur])
    BY <1>2 DEF Committed, Remembered
  <2>3. PICK f \in stored, verdict \in said :
          /\ Key[f] = Key[cur] /\ verdict[1] = NameOf[f]
          /\ \/ verdict[2] = {None}
             \/ verdict[2] = found /\ (found = {} \/ \E p : found = {p})
    BY <2>2 DEF Follows
  <2>4. (found = {} \/ \E p : found = {p})
          => (found = {} /\ speaker' = speaker) \/ found = {speaker'[cur]}
    BY <1>2, <2>1, Assigned
  <2> QED
    BY <2>3, <2>4 DEF Alike
<1>3. Inv /\ Remembered /\ [Next]_vars => Remembered'
  BY RememberedInv
<1>4. Inv /\ Remembered /\ [Next]_vars => [Respected]_vars
  BY <1>2
<1> QED
  BY <1>1, <1>3, <1>4, Invariance, PTL DEF Spec, AliasRespected

-----------------------------------------------------------------------------
(* Nobody decides on an alias while the command runs undisturbed: the rows *)
(* it deletes were not decided, and the answers of a search stay the same. *)
LEMMA DecisionsStay ==
  ASSUME Inv, OwnAnswers, quiet, RunStep
  PROVE  /\ UNCHANGED <<aka, ignored, people>>
         /\ \A f, S : Own(f, S) => Own(f, S)'
<1>1. ASSUME MatchOne PROVE UNCHANGED <<aka, ignored, people>>
  <2>1. cur \in Entry /\ Undecided(NameOf[cur])
    BY <1>1 DEF MatchOne, OwnAnswers, Inv, InRun
  <2>2. aka' = aka
    BY <1>1, <2>1, AssignmentAssumption DEF MatchOne, Undecided, Inv, TypeOK
  <2> QED
    BY <1>1, <2>1, <2>2 DEF MatchOne, Undecided
<1>2. UNCHANGED <<aka, ignored, people>>
  BY <1>1 DEF RunStep, StartRun, TakeNext, Lookup, MatchNoSeat, MatchNone,
     MatchNoneRefused, Assign, EndRun, table
<1>3. \A f, S : Own(f, S) => Own(f, S)'
  BY <1>2 DEF Own, Results, Search
<1> QED
  BY <1>2, <1>3

LEMMA ReturnOwn ==
  ASSUME Inv, OwnAnswers, quiet, RunStep, pc \in {"lookup", "match"}, stored' = stored,
         NEW S, Return(S), Own(cur, S)
  PROVE  OwnAnswers'
<1>1. cur \in stored
  BY DEF Inv, InRun
<1>2. ASSUME NEW k \in DOMAIN memo'
      PROVE  \E f \in stored' : Key[f] = k /\ Own(f, memo[k])'
  <2>1. \/ k = Key[cur] /\ memo'[k] = S
        \/ k \in DOMAIN memo /\ memo'[k] = memo[k]
    BY <1>2 DEF Return, CacheKey
  <2>2. PICK f \in stored : Key[f] = k /\ Own(f, memo'[k])
    BY <1>1, <2>1 DEF OwnAnswers
  <2>3. Own(f, memo[k])'
    BY <2>2, DecisionsStay DEF Own, Results, Search
  <2> QED
    BY <2>2, <2>3
<1>3. Own(cur, found)'
  BY DecisionsStay DEF Own, Results, Search, Return
<1>4. \E f \in stored' : Key[f] = Key[cur'] /\ Own(f, found)'
  <2>1. cur' = cur
    BY DEF Return
  <2> QED
    BY <1>1, <1>3, <2>1 DEF Own
<1> QED
  BY <1>2, <1>4 DEF OwnAnswers, Return

LEMMA OwnAnswersInv ==
  ASSUME Inv, OwnAnswers, [Next]_vars
  PROVE  OwnAnswers'
<1>1. CASE StaffStep
  BY <1>1 DEF StaffStep, Staff, SaveAlias, AddAlias, IgnoreAliases, DeleteAlias, AddPerson,
     Reattribute, SetSpeaker, OwnAnswers
<1>2. CASE StartRun
  BY <1>2 DEF StartRun, Inv, InRun, Nobody, OwnAnswers
<1>3. CASE Stopped
  BY <1>3 DEF Stopped, Nobody, OwnAnswers
<1>4. ASSUME stored \subseteq stored', UNCHANGED <<aka, ignored, people>>, memo' = memo, quiet
      PROVE  \A k \in DOMAIN memo' : \E f \in stored' : Key[f] = k /\ Own(f, memo[k])'
  <2> SUFFICES ASSUME NEW k \in DOMAIN memo'
               PROVE  \E f \in stored' : Key[f] = k /\ Own(f, memo[k])'
    OBVIOUS
  <2>1. PICK f \in stored : Key[f] = k /\ Own(f, memo[k])
    BY <1>4 DEF OwnAnswers
  <2>2. Own(f, memo[k])'
    BY <1>4, <2>1 DEF Own, Results, Search
  <2> QED
    BY <1>4, <2>1, <2>2
<1>5. CASE /\ UNCHANGED <<quiet, aka, ignored, people, memo, pc, cur, found>>
           /\ stored \subseteq stored'
  <2>1. ASSUME NEW f \in stored, Key[f] = Key[cur], Own(f, found)
        PROVE  Key[f] = Key[cur'] /\ Own(f, found)' /\ f \in stored'
    BY <1>5, <2>1 DEF Own, Results, Search
  <2>2. pc' = "assign" /\ quiet =>
          \E f \in stored' : Key[f] = Key[cur'] /\ Own(f, found)'
    BY <1>5, <2>1 DEF OwnAnswers
  <2> QED
    BY <1>4, <1>5, <2>2 DEF OwnAnswers, Undecided
<1>6. CASE RunStep /\ ~StartRun /\ ~Stopped /\ quiet
  <2>1. UNCHANGED <<aka, ignored, people, stored>>
    BY <1>6, DecisionsStay DEF RunStep, TakeNext, Lookup, MatchNoSeat, MatchOne, MatchNone,
       MatchNoneRefused, Assign, EndRun
  <2>2. CASE TakeNext
    <3>1. PICK e \in todo :
            /\ cur' = e
            /\ \/ Key[e] \in DOMAIN memo /\ pc' = "assign" /\ found' = memo[Key[e]]
               \/ pc' = "lookup"
      BY <2>2 DEF TakeNext, CacheKey
    <3>2. memo' = memo
      BY <2>2 DEF TakeNext
    <3>3. ASSUME Key[e] \in DOMAIN memo, found' = memo[Key[e]]
          PROVE  \E f \in stored' : Key[f] = Key[cur'] /\ Own(f, found)'
      <4>1. PICK f \in stored : Key[f] = Key[e] /\ Own(f, memo[Key[e]])
        BY <1>6, <3>3 DEF OwnAnswers
      <4>2. Own(f, found)'
        BY <2>1, <3>3, <4>1 DEF Own, Results, Search
      <4> QED
        BY <2>1, <3>1, <4>1, <4>2
    <3> QED
      BY <1>4, <1>6, <2>1, <3>1, <3>2, <3>3 DEF OwnAnswers
  <2>3. CASE Assign
    <3>1. memo' = memo /\ pc' = "next"
      BY <2>3 DEF Assign
    <3> QED
      BY <1>4, <1>6, <2>1, <3>1 DEF OwnAnswers
  <2>4. ASSUME pc \in {"lookup", "match"}, NEW S, Return(S), Own(cur, S)
        PROVE  OwnAnswers'
    BY <1>6, <2>1, <2>4, ReturnOwn
  <2>5. Own(cur, {}) /\ Own(cur, Results(cur))
        /\ (aka[NameOf[cur]] # None => Own(cur, {aka[NameOf[cur]]}))
    BY DEF Own
  <2>6. CASE Lookup
    <3>1. CASE pc' = "match" /\ memo' = memo /\ cur' = cur
               /\ (NameOf[cur] \notin aliases \/ NameOf[cur] \in unassigned)
      <4>1. NameOf[cur] \in Name
        BY <2>6, AssignmentAssumption DEF Lookup, Inv, InRun
      <4>2. Undecided(NameOf[cur])
        BY <3>1, <4>1 DEF unassigned, Undecided, Inv, TypeOK
      <4>3. Undecided(NameOf[cur])'
        BY <2>1, <3>1, <4>2 DEF Undecided
      <4> QED
        BY <1>4, <1>6, <2>1, <3>1, <4>3 DEF OwnAnswers
    <3>2. CASE Return({}) \/ (aka[NameOf[cur]] # None /\ Return({aka[NameOf[cur]]}))
      BY <2>4, <2>5, <2>6, <3>2 DEF Lookup
    <3> QED
      BY <2>6, <3>1, <3>2 DEF Lookup
  <2>7. CASE MatchNoSeat \/ MatchOne \/ MatchNone
    BY <2>4, <2>5, <2>7 DEF MatchNoSeat, MatchOne, MatchNone, NotFoundHere
  <2> QED
    BY <1>6, <2>2, <2>3, <2>6, <2>7 DEF RunStep, EndRun, MatchNoneRefused
<1>7. CASE RunStep /\ ~StartRun /\ ~quiet
  BY <1>7 DEF RunStep, TakeNext, Lookup, MatchNoSeat, MatchOne, MatchNone, MatchNoneRefused,
     Assign, EndRun, OwnAnswers, history
<1>8. \/ RunStep \/ StaffStep \/ Stopped
      \/ /\ UNCHANGED <<quiet, aka, ignored, people, memo, pc, cur, found>>
         /\ stored \subseteq stored'
  BY DEF Next, Crash, Store, vars, run, table, history
<1> QED
  BY <1>1, <1>2, <1>3, <1>5, <1>6, <1>7, <1>8

(* However often answers are remembered, undisturbed a speech gets the     *)
(* person of the alias, or the only match, of a speech of its own date and *)
(* name.  The answer may come from the other house; it never comes from    *)
(* another day or for another name.                                        *)
THEOREM SpeakerOfDateAndName == Spec => MatchesDateAndName
<1> DEFINE Matches == Committed /\ quiet /\ speaker' # speaker =>
             \E f \in Alike :
               \/ speaker'[cur] = aka[NameOf[f]]
               \/ Results(f) = {speaker'[cur]}
<1>1. Init => OwnAnswers
  BY DEF Init, OwnAnswers, Nobody
<1>2. ASSUME Inv, OwnAnswers, [Next]_vars, Committed, quiet, speaker' # speaker
      PROVE  \E f \in Alike :
               \/ speaker'[cur] = aka[NameOf[f]]
               \/ Results(f) = {speaker'[cur]}
  <2>1. Assign
    BY <1>2, CommittedByAssign
  <2>2. PICK f \in stored : Key[f] = Key[cur] /\ Own(f, found)
    BY <1>2 DEF Committed, OwnAnswers
  <2>3. found = {speaker'[cur]}
    BY <1>2, <2>1, Assigned
  <2>4. f \in Alike
    BY <2>2 DEF Alike
  <2>5. speaker'[cur] = aka[NameOf[f]] \/ Results(f) = {speaker'[cur]}
    BY <2>2, <2>3 DEF Own
  <2> QED
    BY <2>4, <2>5
<1>3. Inv /\ OwnAnswers /\ [Next]_vars => OwnAnswers'
  BY OwnAnswersInv
<1>4. Inv /\ OwnAnswers /\ [Next]_vars => [Matches]_vars
  BY <1>2
<1> QED
  BY <1>1, <1>3, <1>4, Invariance, PTL DEF Spec, MatchesDateAndName
=============================================================================
