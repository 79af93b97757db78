------------------------ MODULE QuestionMatching_proofs ------------------------
(***************************************************************************)
(* Proofs about QuestionMatching, for all items and older rows, whatever   *)
(* numbers and terms they have, and any number of failures and kills.      *)
(***************************************************************************)
EXTENDS QuestionMatching, FiniteSetTheorems, TLAPS

Shares(r, s) == Numbers[r] \cap Numbers[s] # {}

(* What the steps of the run have established about what is left to walk:  *)
(* items the API lists, answers that are not read yet, and answers that no *)
(* question has.                                                           *)
InLoop ==
    /\ Scraping => todo \subseteq listed
    /\ pc = "process" => \A a \in todo : a \in answers /\ processed[a] # "OK"
    /\ pc = "match" => \A a \in todo : a \in answers /\ \A q \in Question : answerOf[q] # a

(* An answer that has a text is not processed again.                       *)
TextsRead == \A a \in Answer : text[a] # "none" => processed[a] = "OK"

(* A question shares a number with its answer; the term may be another.    *)
NumbersFit == \A q \in Question : answerOf[q] # None => Shares(q, answerOf[q])

Inv == TypeOK /\ NoHalfImport /\ InLoop /\ TextsRead /\ NumbersFit /\ NoClash(questions)

-----------------------------------------------------------------------------
(* The rows that an item is taken for have all of its numbers.             *)
LEMMA QuestionForItem ==
  ASSUME questions \subseteq Question, NEW i \in Item
  PROVE  /\ QuestionFor(i) \in Question
         /\ Numbers[i] \subseteq Numbers[QuestionFor(i)]
         /\ Term[QuestionFor(i)] = Term[i]
         /\ \/ QuestionFor(i) \in questions
            \/ QuestionFor(i) = i /\ Matching(i, questions) = {}
  BY DEF QuestionFor, Matching, Question

LEMMA AnswerForItem ==
  ASSUME answers \subseteq Answer, NEW i \in Item
  PROVE  /\ AnswerFor(i) \in Answer
         /\ Numbers[i] \subseteq Numbers[AnswerFor(i)]
         /\ Term[AnswerFor(i)] = Term[i]
  BY DEF AnswerFor, Matching, Answer

LEMMA InitInv == Init => Inv
  BY MatchingAssumption
  DEF Init, Inv, TypeOK, NoHalfImport, InLoop, Scraping, TextsRead, NumbersFit, NoClash, Question,
      Answer, Row

(* A step that leaves the rows alone, and what is left to walk, or ends.   *)
LEMMA RowsSameInv ==
  ASSUME Inv, UNCHANGED <<db, processed, text>>,
         listed \subseteq listed', listed' \subseteq Item,
         file' \in [Answer -> {"none", "whole", "torn", "unreadable"}],
         errors' \in 0..MaxErrors, failures' \in 0..MaxFailures,
         \/ Stopped
         \/ UNCHANGED pc /\ todo' \subseteq todo
         \/ pc' \in {"ministers", "members"} /\ todo' \subseteq listed'
         \/ pc' = "process" /\ todo' = unprocessed
         \/ pc' = "match" /\ todo' = unmatched
  PROVE  Inv'
<1> USE DEF Inv, db
<1>1. TypeOK'
  BY DEF TypeOK, Stopped, unprocessed, unmatched, Row, Answer
<1>2. NoHalfImport' /\ TextsRead' /\ NumbersFit' /\ NoClash(questions)'
  BY DEF NoHalfImport, TextsRead, NumbersFit, NoClash, Shares, Clash
<1>3. \A q \in Question : answerOf[q] # None => q \in questions
  BY DEF TypeOK
<1>4. UNCHANGED <<answerOf, answers, processed>>
  OBVIOUS
<1>5. CASE Stopped
  BY <1>1, <1>2, <1>5 DEF InLoop, Scraping, Stopped
<1>6. CASE UNCHANGED pc /\ todo' \subseteq todo
  BY <1>1, <1>2, <1>4, <1>6 DEF InLoop, Scraping
<1>7. CASE pc' \in {"ministers", "members"} /\ todo' \subseteq listed'
  BY <1>1, <1>2, <1>7 DEF InLoop, Scraping
<1>8. CASE pc' = "process" /\ todo' = unprocessed
  BY <1>1, <1>2, <1>4, <1>8 DEF InLoop, Scraping, unprocessed
<1>9. CASE pc' = "match" /\ todo' = unmatched
  <2>1. \A a \in Answer : a # None
    BY MatchingAssumption DEF Answer, Row
  <2> QED
    BY <1>1, <1>2, <1>3, <1>4, <1>9, <2>1 DEF InLoop, Scraping, unmatched, TypeOK
<1> QED
  BY <1>5, <1>6, <1>7, <1>8, <1>9

(* The two ways an item is imported.                                       *)
LEMMA AnsweredInv ==
  ASSUME Inv, NEW i \in Item, Scrape(i), Answered(i)
  PROVE  Inv'
<1> USE DEF Inv, Scrape, Answered
<1>1. TypeOK'
  BY DEF TypeOK
<1>2. InLoop'
  BY DEF InLoop, Scraping
<1>3. NoHalfImport' /\ TextsRead' /\ NumbersFit' /\ NoClash(questions)'
  BY DEF NoHalfImport, TextsRead, NumbersFit, NoClash, Shares, Clash
<1> QED
  BY <1>1, <1>2, <1>3

LEMMA GiveAnswerInv ==
  ASSUME Inv, NEW i \in Item, Scrape(i), GiveAnswer(i)
  PROVE  Inv'
<1> DEFINE q == QuestionFor(i)
           a == AnswerFor(i)
<1> USE DEF Inv
<1>1. questions \subseteq Question /\ answers \subseteq Answer
  BY DEF TypeOK
<1>2. /\ q \in Question /\ a \in Answer /\ a # None
      /\ Numbers[i] \subseteq Numbers[q] /\ Numbers[i] \subseteq Numbers[a]
      /\ Numbers[i] # {}
      /\ q \in questions \/ (q = i /\ Matching(i, questions) = {})
  BY <1>1, QuestionForItem, AnswerForItem, MatchingAssumption DEF Answer, Row
<1>3. /\ answerOf[q] = None
      /\ questions' = questions \cup {q}
      /\ answers' = answers \cup {a}
      /\ answerOf' = [answerOf EXCEPT ![q] = a]
      /\ apiUrl' = [apiUrl EXCEPT ![a] = i]
      /\ \/ UNCHANGED <<processed, text>>
         \/ /\ processed' = [processed EXCEPT ![a] = "OK"]
            /\ text' = [text EXCEPT ![a] = "whole"]
      /\ todo' = todo \ {i}
      /\ UNCHANGED <<listed, file, pc, errors, failures>>
      /\ pc \in {"ministers", "members"}
  BY DEF Scrape, GiveAnswer, Scraping
<1>4. \A r \in Question : answerOf'[r] = IF r = q THEN a ELSE answerOf[r]
  BY <1>2, <1>3 DEF TypeOK
<1> HIDE DEF q, a
<1>5. TypeOK'
  BY <1>2, <1>3, <1>4 DEF TypeOK
<1>6. InLoop'
  BY <1>3 DEF InLoop, Scraping
<1>7. NoHalfImport' /\ NumbersFit'
  BY <1>2, <1>3, <1>4 DEF NoHalfImport, NumbersFit, Shares, Question
<1>8. TextsRead'
  <2>1. CASE UNCHANGED <<processed, text>>
    BY <2>1 DEF TextsRead
  <2>2. CASE processed' = [processed EXCEPT ![a] = "OK"] /\ text' = [text EXCEPT ![a] = "whole"]
    <3>1. processed'[a] = "OK" /\ \A b \in Answer \ {a} : processed'[b] = processed[b] /\ text'[b] = text[b]
      BY <1>2, <2>2 DEF TypeOK
    <3> QED
      BY <3>1 DEF TextsRead
  <2> QED
    BY <1>3, <2>1, <2>2
<1>9. NoClash(questions)'
  <2>1. CASE q \in questions
    BY <1>3, <2>1 DEF NoClash, Clash
  <2>2. CASE q \notin questions
    <3>1. \A r \in questions : ~Clash(q, r) /\ ~Clash(r, q)
      BY <1>2, <2>2 DEF Scrape, Refused, Insertable, Clash
    <3> QED
      BY <1>3, <3>1 DEF NoClash, Clash
  <2> QED
    BY <2>1, <2>2
<1> QED
  BY <1>5, <1>6, <1>7, <1>8, <1>9

(* The steps over older answers: texts are read, and answers are matched.  *)
LEMMA ProcessInv ==
  ASSUME Inv, NEW a \in Answer,
         Process(a) \/ ProcessUnreadable(a) \/ ProcessHttpError(a) \/ ProcessFails(a)
  PROVE  Inv'
<1> USE DEF Inv
<1>1. UNCHANGED <<questions, answers, answerOf, apiUrl, listed, pc, failures>>
  BY DEF Process, ProcessUnreadable, ProcessHttpError, ProcessFails, db
<1>2. TypeOK'
  <2>1. CASE Process(a)
    BY <1>1, <2>1 DEF TypeOK, Process, ReadDocument
  <2>. errors \in 0..MaxErrors
    BY DEF TypeOK
  <2>2. errors < MaxErrors /\ errors' = errors + 1 => errors' \in 0..MaxErrors
    BY MatchingAssumption
  <2>3. CASE ProcessHttpError(a)
    BY <1>1, <2>2, <2>3 DEF TypeOK, ProcessHttpError
  <2>4. CASE ProcessFails(a)
    <3>1. file' \in [Answer -> {"none", "whole", "torn", "unreadable"}]
      BY <2>4 DEF TypeOK, ProcessFails
    <3> QED
      BY <1>1, <2>2, <2>4, <3>1 DEF TypeOK, ProcessFails
  <2>5. CASE ProcessUnreadable(a)
    BY <1>1, <2>5 DEF TypeOK, ProcessUnreadable, work
  <2> QED
    BY <2>1, <2>3, <2>4, <2>5
<1>3. pc = "process" /\ todo' = todo \ {a} /\ a \in todo
  BY DEF Process, ProcessUnreadable, ProcessHttpError, ProcessFails
<1>4. /\ \A b \in Answer \ {a} : processed'[b] = processed[b] /\ text'[b] = text[b]
      /\ \/ processed'[a] = "OK"
         \/ text'[a] = text[a]
  BY DEF TypeOK, Process, ProcessUnreadable, ProcessHttpError, ProcessFails, ReadDocument, work
<1>5. InLoop'
  BY <1>1, <1>3, <1>4 DEF InLoop, Scraping, TypeOK
<1>6. NoHalfImport' /\ NumbersFit' /\ NoClash(questions)'
  BY <1>1 DEF NoHalfImport, NumbersFit, NoClash, Shares, Clash
<1>7. TextsRead'
  BY <1>3, <1>4 DEF TextsRead, InLoop, TypeOK
<1> QED
  BY <1>2, <1>5, <1>6, <1>7

LEMMA MatchInv ==
  ASSUME Inv, NEW a \in Answer, Match(a)
  PROVE  Inv'
<1> USE DEF Inv
<1>1. /\ pc = "match" /\ a \in todo /\ a \in answers
      /\ answerOf' = [q \in Question |-> IF q \in Candidates(a) THEN a ELSE answerOf[q]]
      /\ todo' = todo \ {a}
      /\ UNCHANGED <<questions, answers, apiUrl, listed, processed, file, text, pc,
                     errors, failures>>
  BY DEF Match, work, InLoop
<1>2. a # None
  BY MatchingAssumption DEF Answer, Row
<1>3. Candidates(a) \subseteq questions /\ \A q \in Candidates(a) : Shares(q, a)
  BY DEF Candidates, Shares
<1>4. TypeOK'
  BY <1>1, <1>3 DEF TypeOK
<1>5. InLoop'
  BY <1>1 DEF InLoop, Scraping
<1>6. NoHalfImport' /\ TextsRead' /\ NoClash(questions)'
  BY <1>1, <1>2 DEF NoHalfImport, TextsRead, NoClash, Clash, Question
<1>7. NumbersFit'
  BY <1>1, <1>3 DEF NumbersFit, Shares
<1> QED
  BY <1>4, <1>5, <1>6, <1>7

(* Duplicates are deleted with every question of theirs.                   *)
LEMMA DeleteDuplicatesInv ==
  ASSUME Inv, NEW i \in Item, DeleteDuplicates(i)
  PROVE  Inv'
<1> USE DEF Inv
<1>1. PICK doomed :
        /\ None \notin doomed
        /\ pc = "idle"
        /\ answers' = answers \ doomed
        /\ questions' = {q \in questions : answerOf[q] \notin doomed}
        /\ answerOf' = [q \in Question |->
                          IF answerOf[q] \in doomed THEN None ELSE answerOf[q]]
        /\ apiUrl' = [a \in Answer |-> IF a \in doomed THEN None ELSE apiUrl[a]]
        /\ processed' = [a \in Answer |-> IF a \in doomed THEN "pending" ELSE processed[a]]
        /\ text' = [a \in Answer |-> IF a \in doomed THEN "none" ELSE text[a]]
        /\ file' = [a \in Answer |-> IF a \in doomed THEN "none" ELSE file[a]]
        /\ UNCHANGED <<listed, pc, todo, errors, failures>>
  BY DEF DeleteDuplicates
<1>2. TypeOK'
  BY <1>1 DEF TypeOK
<1>3. InLoop' /\ NoHalfImport' /\ TextsRead'
  BY <1>1 DEF InLoop, Scraping, NoHalfImport, TextsRead, Question
<1>4. NumbersFit' /\ NoClash(questions)'
  BY <1>1 DEF NumbersFit, NoClash, Shares, Clash
<1> QED
  BY <1>2, <1>3, <1>4

LEMMA NextInv ==
  ASSUME Inv, [Next]_vars
  PROVE  Inv'
<1>0. /\ listed \subseteq Item /\ todo \subseteq Row
      /\ file \in [Answer -> {"none", "whole", "torn", "unreadable"}]
      /\ errors \in 0..MaxErrors /\ failures \in 0..MaxFailures
  BY DEF Inv, TypeOK
<1>1. CASE StartRun \/ ScrapeDone \/ ProcessDone \/ MatchDone
  BY <1>0, <1>1, RowsSameInv DEF StartRun, ScrapeDone, ProcessDone, MatchDone, work
<1>2. ASSUME NEW i \in Item, Scrape(i)
      PROVE  Inv'
  BY <1>2, AnsweredInv, GiveAnswerInv DEF Scrape
<1>3. ASSUME NEW i \in Item, ScrapeRefused(i)
      PROVE  Inv'
  BY <1>0, <1>3, RowsSameInv DEF ScrapeRefused, work
<1>4. ASSUME NEW a \in Answer,
             Process(a) \/ ProcessUnreadable(a) \/ ProcessHttpError(a) \/ ProcessFails(a)
      PROVE  Inv'
  BY <1>4, ProcessInv
<1>5. ASSUME NEW a \in Answer, Match(a)
      PROVE  Inv'
  BY <1>5, MatchInv
<1>6. ASSUME NEW a \in Answer, MatchRefused(a)
      PROVE  Inv'
  BY <1>0, <1>6, RowsSameInv DEF MatchRefused, work
<1>7. failures < MaxFailures /\ failures' = failures + 1 => failures' \in 0..MaxFailures
  BY <1>0, MatchingAssumption
<1>8. CASE Crash
  BY <1>0, <1>7, <1>8, RowsSameInv DEF Crash, work
<1>9. ASSUME NEW i \in Item, Publish(i)
      PROVE  Inv'
  BY <1>0, <1>9, RowsSameInv DEF Publish, work
<1>10. ASSUME NEW a \in Answer, NEW left \in {"whole", "torn", "unreadable"},
              CrashWritingFile(a, left)
       PROVE  Inv'
  <2>1. file' \in [Answer -> {"none", "whole", "torn", "unreadable"}]
    BY <1>0, <1>10 DEF CrashWritingFile
  <2> QED
    BY <1>0, <1>7, <1>10, <2>1, RowsSameInv DEF CrashWritingFile
<1>11. ASSUME NEW i \in Item, DeleteDuplicates(i)
       PROVE  Inv'
  BY <1>11, DeleteDuplicatesInv
<1>12. CASE UNCHANGED vars
  BY <1>0, <1>12, RowsSameInv DEF vars, work
<1> QED
  BY <1>1, <1>2, <1>3, <1>4, <1>5, <1>6, <1>8, <1>9, <1>10, <1>11, <1>12
  DEF Next, RunStep

LEMMA Invariance == Spec => []Inv
<1> QED
  BY InitInv, NextInv, PTL DEF Spec

-----------------------------------------------------------------------------
(* At every moment each question refers to one answer that is in the       *)
(* database, and no kill leaves a question from the API without one.       *)
THEOREM WholeImports == Spec => [](TypeOK /\ NoHalfImport)
<1>1. Inv => TypeOK /\ NoHalfImport
  BY DEF Inv
<1> QED
  BY <1>1, Invariance, PTL

(* Whatever terms the rows are of, a question is never shown with the text *)
(* of an answer that has none of its numbers.                              *)
THEOREM NumberInCommon ==
  Spec => [](\A q \in questions : answerOf[q] # None => Shares(q, answerOf[q]))
<1>1. Inv => \A q \in questions : answerOf[q] # None => Shares(q, answerOf[q])
  BY DEF Inv, TypeOK, NumbersFit
<1> QED
  BY <1>1, Invariance, PTL

(* process_answers never replaces a text that is whole by the part of a    *)
(* document that a kill left: only answers without a text are read.        *)
THEOREM TextStays == Spec => TextKept
<1> DEFINE Kept == \A a \in answers \cap answers' : text[a] = "whole" => text'[a] = "whole"
<1>1. ASSUME Inv, [Next]_vars
      PROVE  Kept
  <2> USE <1>1 DEF Inv
  <2>1. CASE UNCHANGED text
    BY <2>1
  <2>2. ASSUME NEW i \in Item, Scrape(i), GiveAnswer(i)
        PROVE  Kept
    BY <2>2, AnswerForItem DEF GiveAnswer, TypeOK
  <2>3. ASSUME NEW a \in Answer, Process(a)
        PROVE  Kept
    <3>1. a \in todo /\ pc = "process" /\ text[a] = "none"
      BY <2>3 DEF Process, InLoop, TextsRead, TypeOK
    <3>2. \A b \in Answer \ {a} : text'[b] = text[b]
      BY <2>3 DEF Process, ReadDocument, TypeOK
    <3> QED
      BY <3>1, <3>2 DEF TypeOK
  <2>4. ASSUME NEW i \in Item, DeleteDuplicates(i)
        PROVE  Kept
    BY <2>4 DEF DeleteDuplicates, TypeOK
  <2>5. Next => \/ UNCHANGED text
                \/ \E i \in Item : Scrape(i) /\ GiveAnswer(i)
                \/ \E a \in Answer : Process(a)
                \/ \E i \in Item : DeleteDuplicates(i)
    BY DEF Next, RunStep, StartRun, ScrapeDone, ProcessDone, MatchDone, Scrape, Answered,
           ScrapeRefused, Match, MatchRefused, Crash, Publish, ProcessUnreadable,
           ProcessHttpError, ProcessFails, CrashWritingFile, work
  <2> QED
    BY <2>1, <2>2, <2>3, <2>4, <2>5 DEF vars, work
<1>2. Inv /\ [Next]_vars => [Kept]_vars
  BY <1>1
<1> QED
  BY <1>2, Invariance, PTL DEF Spec, TextKept

-----------------------------------------------------------------------------
(* The rows change only by an import, a matching or a deletion.            *)
LEMMA RowsChange ==
  ASSUME [Next]_vars
  PROVE  \/ UNCHANGED <<questions, answerOf>>
         \/ \E i \in Item : Scrape(i) /\ GiveAnswer(i)
         \/ \E a \in Answer : Match(a)
         \/ \E i \in Item : DeleteDuplicates(i)
  BY DEF Next, RunStep, StartRun, ScrapeDone, ProcessDone, MatchDone, Scrape, Answered,
         ScrapeRefused, Process, ProcessUnreadable, MatchRefused, Crash, Publish, ProcessHttpError,
         ProcessFails, CrashWritingFile, vars, db, work

(* A deletion takes answers away from questions and gives none.            *)
LEMMA DeletionTakes ==
  ASSUME Inv, NEW i \in Item, DeleteDuplicates(i)
  PROVE  \A q \in questions' : q \in questions /\ answerOf'[q] \in {None, answerOf[q]}
  BY DEF Inv, TypeOK, DeleteDuplicates

(* The rows that an item is taken for have its term and all its numbers.   *)
LEMMA ImportGives ==
  ASSUME Inv, NEW i \in Item, Scrape(i), GiveAnswer(i)
  PROVE  \E q \in Question, a \in Answer :
           /\ i \in listed
           /\ Between(i, q, a)
           /\ Numbers[q] \cap Numbers[a] # {}
           /\ answerOf[q] = None
           /\ questions' = questions \cup {q}
           /\ \A r \in Question : answerOf'[r] = IF r = q THEN a ELSE answerOf[r]
           /\ q \in questions \/ \A r \in questions : ~Clash(i, r)
<1> DEFINE q == QuestionFor(i)
           a == AnswerFor(i)
<1> USE DEF Inv
<1>1. questions \subseteq Question /\ answers \subseteq Answer
  BY DEF TypeOK
<1>2. /\ q \in Question /\ a \in Answer
      /\ Numbers[i] \subseteq Numbers[q] /\ Numbers[i] \subseteq Numbers[a]
      /\ Term[q] = Term[i] /\ Term[a] = Term[i]
      /\ q \in questions \/ Matching(i, questions) = {}
  BY <1>1, QuestionForItem, AnswerForItem
<1>3. Numbers[i] # {}
  BY MatchingAssumption DEF Row
<1>4. /\ answerOf[q] = None
      /\ questions' = questions \cup {q}
      /\ answerOf' = [answerOf EXCEPT ![q] = a]
  BY DEF GiveAnswer
<1>5. \A r \in Question : answerOf'[r] = IF r = q THEN a ELSE answerOf[r]
  BY <1>2, <1>4 DEF TypeOK
<1>6. q \in questions \/ \A r \in questions : ~Clash(i, r)
  BY <1>2 DEF Scrape, Refused, Insertable
<1>7. i \in listed
  BY DEF Scrape, IsNext, InLoop
<1> HIDE DEF q, a
<1>8. Between(i, q, a) /\ Numbers[q] \cap Numbers[a] # {}
  BY <1>2, <1>3 DEF Between
<1> QED
  BY <1>2, <1>4, <1>5, <1>6, <1>7, <1>8

(* get() returns one question or raises.                                   *)
LEMMA OneCandidate ==
  ASSUME Inv, NEW a \in Answer, Match(a)
  PROVE  \A q, r \in Candidates(a) : q = r
<1>1. IsFiniteSet(Candidates(a))
  <2>1. Candidates(a) \subseteq Row
    BY DEF Candidates, Inv, TypeOK, Question, Row
  <2> QED
    BY <2>1, MatchingAssumption, FS_Subset
<1> SUFFICES ASSUME NEW q \in Candidates(a), NEW r \in Candidates(a), q # r
             PROVE  FALSE
  OBVIOUS
<1>2. IsFiniteSet({q}) /\ Cardinality({q}) = 1
  BY FS_Singleton
<1>3. Cardinality({q, r}) = 2
  <2>1. {q, r} = {q} \cup {r} /\ r \notin {q}
    OBVIOUS
  <2>2. Cardinality({q} \cup {r}) = Cardinality({q}) + 1
    BY <1>2, <2>1, FS_AddElement
  <2> QED
    BY <1>2, <2>1, <2>2
<1>4. Cardinality({q, r}) <= Cardinality(Candidates(a))
  BY <1>1, FS_Subset
<1>5. Cardinality(Candidates(a)) \in Nat
  BY <1>1, FS_CardinalityType
<1> QED
  BY <1>3, <1>4, <1>5 DEF Match

(* For all numbers and terms: the import gives a question only an answer   *)
(* of its term, match_answers one of another term only while no other      *)
(* question has a number of it, and neither one with no number in common.  *)
THEOREM AnswersOfTheirNumbers == Spec => AnswersFit
<1> DEFINE Fits == \A q \in questions' : answerOf'[q] \notin {None, answerOf[q]} =>
             LET a == answerOf'[q] IN
               /\ Numbers[q] \cap Numbers[a] # {}
               /\ \/ Term[q] = Term[a]
                  \/ \A r \in questions :
                       Numbers[r] \cap Numbers[a] \cap WrittenOral # {} => r = q
<1>1. ASSUME Inv, [Next]_vars
      PROVE  Fits
  <2> USE <1>1
  <2>1. CASE UNCHANGED <<questions, answerOf>>
    BY <2>1
  <2>2. ASSUME NEW i \in Item, Scrape(i), GiveAnswer(i)
        PROVE  Fits
    <3>1. questions \subseteq Question
      BY DEF Inv, TypeOK
    <3> QED
      BY <2>2, <3>1, ImportGives DEF Between
  <2>3. ASSUME NEW a \in Answer, Match(a)
        PROVE  Fits
    <3>1. /\ answerOf' = [q \in Question |-> IF q \in Candidates(a) THEN a ELSE answerOf[q]]
          /\ questions' = questions /\ questions \subseteq Question
      BY <2>3 DEF Match, Inv, TypeOK
    <3>2. ASSUME NEW q \in questions, answerOf'[q] # answerOf[q]
          PROVE  q \in Candidates(a) /\ answerOf'[q] = a
      BY <3>1, <3>2
    <3>3. ASSUME NEW q \in Candidates(a)
          PROVE  /\ Numbers[q] \cap Numbers[a] # {}
                 /\ \A r \in questions :
                      Numbers[r] \cap Numbers[a] \cap WrittenOral # {} => r = q
      BY <2>3, <3>3, OneCandidate DEF Candidates
    <3> QED
      BY <3>1, <3>2, <3>3
  <2>4. ASSUME NEW i \in Item, DeleteDuplicates(i)
        PROVE  Fits
    BY <2>4, DeletionTakes
  <2> QED
    BY <2>1, <2>2, <2>3, <2>4, RowsChange
<1>2. Inv /\ [Next]_vars => [Fits]_vars
  BY <1>1
<1> QED
  BY <1>2, Invariance, PTL DEF Spec, AnswersFit

(* For all numbers and terms: no answer is given away twice, except by the *)
(* import to the question of an item whose numbers are all among those of  *)
(* the answer; and no import is left half done.                            *)
THEOREM AssociatedOneToOne == Spec => []OneToOne
<1>1. Init => OneQuestionEach
  BY DEF Init, OneQuestionEach, Question
<1>2. ASSUME Inv, OneQuestionEach, [Next]_vars
      PROVE  OneQuestionEach'
  <2> USE DEF Inv
  <2>1. listed \subseteq listed'
    BY <1>2 DEF Next, RunStep, StartRun, ScrapeDone, ProcessDone, MatchDone, Scrape,
       ScrapeRefused, Process, ProcessUnreadable, Match, MatchRefused, Crash, Publish,
       ProcessHttpError, ProcessFails, CrashWritingFile, DeleteDuplicates, vars
  <2>2. ASSUME \A q \in questions' : q \in questions /\ answerOf'[q] \in {None, answerOf[q]}
        PROVE  OneQuestionEach'
    BY <1>2, <2>1, <2>2 DEF OneQuestionEach, Between
  <2>3. CASE UNCHANGED <<questions, answerOf>>
    BY <2>2, <2>3
  <2>4. ASSUME NEW i \in Item, Scrape(i), GiveAnswer(i)
        PROVE  OneQuestionEach'
    <3>1. PICK q \in Question, a \in Answer :
            /\ i \in listed /\ Between(i, q, a)
            /\ questions' = questions \cup {q}
            /\ \A r \in Question : answerOf'[r] = IF r = q THEN a ELSE answerOf[r]
      BY <1>2, <2>4, ImportGives
    <3>2. questions \subseteq Question
      BY <1>2 DEF TypeOK
    <3> SUFFICES ASSUME NEW r \in questions', NEW u \in questions', r # u,
                        answerOf'[r] # None, answerOf'[r] = answerOf'[u]
                 PROVE  \E j \in listed' :
                          Between(j, r, answerOf'[r]) \/ Between(j, u, answerOf'[r])
      BY DEF OneQuestionEach, Between
    <3>3. r \in Question /\ u \in Question
      BY <3>1, <3>2
    <3>4. CASE q \in {r, u}
      <4>1. answerOf'[r] = a
        BY <3>1, <3>3, <3>4
      <4> QED
        BY <2>1, <3>1, <3>4, <4>1
    <3>5. CASE q \notin {r, u}
      <4>1. /\ r \in questions /\ u \in questions
            /\ answerOf'[r] = answerOf[r] /\ answerOf'[u] = answerOf[u]
        BY <3>1, <3>3, <3>5
      <4> QED
        BY <1>2, <2>1, <4>1 DEF OneQuestionEach
    <3> QED
      BY <3>4, <3>5
  <2>5. ASSUME NEW a \in Answer, Match(a)
        PROVE  OneQuestionEach'
    <3>1. /\ answerOf' = [q \in Question |-> IF q \in Candidates(a) THEN a ELSE answerOf[q]]
          /\ questions' = questions /\ listed' = listed /\ questions \subseteq Question
      BY <1>2, <2>5 DEF Match, TypeOK
    <3>2. \A q \in Question : answerOf[q] # a
      BY <1>2, <2>5 DEF Match, InLoop
    <3>3. \A q, r \in Candidates(a) : q = r
      BY <1>2, <2>5, OneCandidate
    <3> SUFFICES ASSUME NEW r \in questions, NEW u \in questions, r # u,
                        answerOf'[r] # None, answerOf'[r] = answerOf'[u]
                 PROVE  \E j \in listed :
                          Between(j, r, answerOf'[r]) \/ Between(j, u, answerOf'[r])
      BY <3>1 DEF OneQuestionEach, Between
    <3>4. answerOf'[r] = answerOf[r] /\ answerOf'[u] = answerOf[u]
      BY <3>1, <3>2, <3>3
    <3> QED
      BY <1>2, <3>4 DEF OneQuestionEach
  <2>6. ASSUME NEW i \in Item, DeleteDuplicates(i)
        PROVE  OneQuestionEach'
    BY <1>2, <2>2, <2>6, DeletionTakes
  <2> QED
    BY <1>2, <2>3, <2>4, <2>5, <2>6, RowsChange
<1>3. Inv /\ OneQuestionEach => OneToOne
  BY DEF Inv, OneToOne
<1> QED
  BY <1>1, <1>2, <1>3, Invariance, PTL DEF Spec
=============================================================================
