--------------------------- MODULE QuestionMatching ---------------------------
(***************************************************************************)
(* The first steps of za_hansard_q_and_a_scraper --run-all-steps, which    *)
(* cron runs once a day: questions and replies come from the PMG API, one  *)
(* transaction each; then documents of older answers are fetched and read; *)
(* then answers without a question are matched to one by number.           *)
(*                                                                         *)
(* Numbers restart every year, and again with a new term.  The model is of *)
(* one house and one year, which may be split between two terms.  The rows *)
(* an earlier scraper left are Legacy; a row born from an item of the API  *)
(* is named after it.  The API may list more items from one run to the     *)
(* next; what it lists during a run is taken as it was at the start.       *)
(***************************************************************************)
EXTENDS FiniteSets, Naturals

CONSTANTS
    Item,               \* items of the API that have a number and a term
    Place,              \* Item -> position in the order the API lists them
    LegacyQuestion, LegacyAnswer,
    Numbers,            \* row or item -> its numbers, each of one sequence
    WrittenOral,        \* numbers of the written and the oral sequence
    Term,               \* row or item -> parliamentary term
    None,
    MaxErrors,          \* bound: downloads and readings that fail
    MaxFailures         \* bound: kills of the command

Row      == Item \cup LegacyQuestion \cup LegacyAnswer
Question == Item \cup LegacyQuestion
Answer   == Item \cup LegacyAnswer

ASSUME MatchingAssumption ==
    /\ Place \in [Item -> Nat]
    /\ \A i, j \in Item : Place[i] = Place[j] => i = j
    /\ DOMAIN Numbers = Row /\ DOMAIN Term = Row
    /\ \A i \in Item : Numbers[i] # {}
    /\ Item \cap LegacyQuestion = {} /\ Item \cap LegacyAnswer = {}
    /\ None \notin Row /\ IsFiniteSet(Row)
    /\ MaxErrors \in Nat /\ MaxFailures \in Nat

VARIABLES
    listed,     \* items the API lists so far
    questions,  \* Question rows
    answers,    \* Answer rows
    answerOf,   \* question.answer
    apiUrl,     \* answer.pmg_api_url
    processed,  \* answer.processed_code
    file,       \* the file of an answer under ANSWER_CACHE
    text,       \* what answer.text holds
    pc,
    todo,       \* rest of the list the current step walks
    errors, failures

db   == <<questions, answers, answerOf, apiUrl>>
work == <<processed, file, text>>
vars == <<listed, db, work, pc, todo, errors, failures>>

TypeOK ==
    /\ listed \subseteq Item
    /\ questions \subseteq Question
    /\ answers \subseteq Answer
    /\ answerOf \in [Question -> Answer \cup {None}]
    /\ \A q \in Question : answerOf[q] # None => q \in questions /\ answerOf[q] \in answers
    /\ apiUrl \in [Answer -> Item \cup {None}]
    /\ processed \in [Answer -> {"pending", "OK", "HTTP error"}]
    /\ file \in [Answer -> {"none", "whole", "torn", "unreadable"}]
    /\ text \in [Answer -> {"none", "whole", "part"}]
    /\ pc \in {"idle", "ministers", "members", "process", "match"}
    /\ todo \subseteq Row
    /\ errors \in 0..MaxErrors /\ failures \in 0..MaxFailures

(* What the unique_together constraints of both models forbid.             *)
Clash(r, s) == Term[r] = Term[s] /\ Numbers[r] \cap Numbers[s] # {}

NoClash(rows) == \A r, s \in rows : r # s => ~Clash(r, s)

Init ==
    /\ listed = {}
    /\ questions \in {qs \in SUBSET LegacyQuestion : NoClash(qs)}
    /\ NoClash(LegacyAnswer) /\ answers = LegacyAnswer
    /\ answerOf = [q \in Question |-> None]
    /\ apiUrl = [a \in Answer |-> None]
    /\ processed = [a \in Answer |-> "pending"]
    /\ file = [a \in Answer |-> "none"]
    /\ text = [a \in Answer |-> "none"]
    /\ pc = "idle" /\ todo = {}
    /\ errors = 0 /\ failures = 0

Stopped == pc' = "idle" /\ todo' = {}

Publish(i) ==
    /\ pc = "idle"
    /\ listed' = listed \cup {i}
    /\ UNCHANGED <<db, work, pc, todo, errors, failures>>

StartRun ==
    /\ pc = "idle"
    /\ pc' = "ministers" /\ todo' = listed
    /\ UNCHANGED <<listed, db, work, errors, failures>>

-----------------------------------------------------------------------------
(* get_qa_from_pmg_api: every question is listed for its minister, and     *)
(* again for the member who asked it.                                      *)

Scraping == pc \in {"ministers", "members"}

IsNext(i) == i \in todo /\ \A j \in todo : Place[i] <= Place[j]

(* Mutant: the term is not looked at, as before terms were recorded.        *)
Matching_NoTerm(i, rows) == {r \in rows : Numbers[i] \subseteq Numbers[r]}

(* existing_kwargs: all the numbers of the item, its house, year and term. *)
Matching(i, rows) == {r \in rows : Term[r] = Term[i] /\ Numbers[i] \subseteq Numbers[r]}

(* The new rows of an item violate no constraint.                          *)
Insertable(i, rows) == \A r \in rows : ~Clash(i, r)

QuestionFor(i) ==
    IF Matching(i, questions) = {} THEN i
    ELSE CHOOSE q \in Matching(i, questions) : TRUE

(* A question without an answer gets the answer row of its numbers, or a   *)
(* new one from the data of the item.                                      *)
AnswerFor(i) ==
    IF Matching(i, answers) = {} THEN i
    ELSE CHOOSE a \in Matching(i, answers) : TRUE

Refused(i) ==
    \/ Matching(i, questions) = {} /\ ~Insertable(i, questions)
    \/ /\ answerOf[QuestionFor(i)] = None
       /\ Matching(i, answers) = {} /\ ~Insertable(i, answers)

(* The question has an answer: only a missing API URL is filled in; an     *)
(* answer with another URL is a conflict, which is logged.                 *)
Answered(i) ==
    LET a == answerOf[QuestionFor(i)] IN
    /\ a # None
    /\ apiUrl' = IF apiUrl[a] = None THEN [apiUrl EXCEPT ![a] = i] ELSE apiUrl
    /\ UNCHANGED <<questions, answers, answerOf, processed, text>>

GiveAnswer(i) ==
    LET q == QuestionFor(i)
        a == AnswerFor(i)
    IN  /\ answerOf[q] = None
        /\ questions' = questions \cup {q}
        /\ answers' = answers \cup {a}
        /\ answerOf' = [answerOf EXCEPT ![q] = a]
        /\ apiUrl' = [apiUrl EXCEPT ![a] = i]
        /\ IF a \in answers
             THEN UNCHANGED <<processed, text>>
             ELSE /\ processed' = [processed EXCEPT ![a] = "OK"]
                  /\ text' = [text EXCEPT ![a] = "whole"]

(* handle_api_question_and_reply, one transaction.                         *)
Scrape(i) ==
    /\ Scraping
    /\ IsNext(i)
    /\ ~Refused(i)
    /\ Answered(i) \/ GiveAnswer(i)
    /\ todo' = todo \ {i}
    /\ UNCHANGED <<listed, file, pc, errors, failures>>

(* IntegrityError: the transaction rolls back and the command ends.        *)
ScrapeRefused(i) ==
    /\ Scraping
    /\ IsNext(i)
    /\ Refused(i)
    /\ Stopped
    /\ UNCHANGED <<listed, db, work, errors, failures>>

(* Mutant: failed downloads are left out.                                  *)
unprocessed_Pending == {a \in answers : processed[a] = "pending"}

unprocessed == {a \in answers : processed[a] # "OK"}

ScrapeDone ==
    /\ Scraping
    /\ todo = {}
    /\ IF pc = "ministers"
         THEN pc' = "members" /\ todo' = listed
         ELSE pc' = "process" /\ todo' = unprocessed
    /\ UNCHANGED <<listed, db, work, errors, failures>>

-----------------------------------------------------------------------------
(* process_answers.                                                        *)

(* The row is saved as it was loaded, with what antiword read.             *)
ReadDocument(a, content) ==
    /\ text' = [text EXCEPT ![a] = content]
    /\ processed' = [processed EXCEPT ![a] = "OK"]

(* A file that exists is not fetched again, whatever it is.                *)
Process(a) ==
    /\ pc = "process"
    /\ a \in todo
    /\ todo' = todo \ {a}
    /\ \/ file[a] \in {"none", "whole"} /\ ReadDocument(a, "whole")
       \/ file[a] = "torn" /\ ReadDocument(a, "part")
    /\ file' = [file EXCEPT ![a] = IF @ = "none" THEN "whole" ELSE @]
    /\ UNCHANGED <<listed, db, pc, errors, failures>>

(* antiword makes nothing of a file that is empty, torn in the wrong place *)
(* or no document of Word, in this run and in every later one: nothing is  *)
(* saved.                                                                  *)
ProcessUnreadable(a) ==
    /\ pc = "process"
    /\ a \in todo
    /\ file[a] = "unreadable"
    /\ todo' = todo \ {a}
    /\ UNCHANGED <<listed, db, work, pc, errors, failures>>

(* The site answers with an error status.                                  *)
ProcessHttpError(a) ==
    /\ pc = "process"
    /\ a \in todo
    /\ file[a] = "none"
    /\ errors < MaxErrors
    /\ errors' = errors + 1
    /\ processed' = [processed EXCEPT ![a] = "HTTP error"]
    /\ todo' = todo \ {a}
    /\ UNCHANGED <<listed, db, file, text, pc, failures>>

(* The site does not answer, or with something antiword cannot read:       *)
(* nothing is saved, but a file that was fetched stays.                    *)
ProcessFails(a) ==
    /\ pc = "process"
    /\ a \in todo
    /\ file[a] = "none"
    /\ errors < MaxErrors
    /\ errors' = errors + 1
    /\ file' \in {file, [file EXCEPT ![a] = "unreadable"]}
    /\ todo' = todo \ {a}
    /\ UNCHANGED <<listed, db, processed, text, pc, failures>>

unmatched == {a \in answers : \A q \in questions : answerOf[q] # a}

ProcessDone ==
    /\ pc = "process"
    /\ todo = {}
    /\ pc' = "match" /\ todo' = unmatched
    /\ UNCHANGED <<listed, db, work, errors, failures>>

-----------------------------------------------------------------------------
(* match_answers: by written or oral number, year and house.               *)

(* Mutant: an answer without usable numbers is not skipped.                *)
Candidates_NoNumber(a) == questions

Candidates(a) ==
    {q \in questions : Numbers[q] \cap Numbers[a] \cap WrittenOral # {}}

(* Mutant: filter() for get(), so every candidate is given the answer.     *)
Match_All(a) ==
    /\ pc = "match"
    /\ a \in todo
    /\ answerOf' = [q \in Question |-> IF q \in Candidates(a) THEN a ELSE answerOf[q]]
    /\ todo' = todo \ {a}
    /\ UNCHANGED <<listed, questions, answers, apiUrl, work, pc, errors, failures>>

Match(a) ==
    /\ pc = "match"
    /\ a \in todo
    /\ Cardinality(Candidates(a)) <= 1
    /\ answerOf' = [q \in Question |-> IF q \in Candidates(a) THEN a ELSE answerOf[q]]
    /\ todo' = todo \ {a}
    /\ UNCHANGED <<listed, questions, answers, apiUrl, work, pc, errors, failures>>

(* MultipleObjectsReturned is not caught.                                  *)
MatchRefused(a) ==
    /\ pc = "match"
    /\ a \in todo
    /\ Cardinality(Candidates(a)) > 1
    /\ Stopped
    /\ UNCHANGED <<listed, db, work, errors, failures>>

MatchDone ==
    /\ pc = "match"
    /\ todo = {}
    /\ Stopped
    /\ UNCHANGED <<listed, db, work, errors, failures>>

-----------------------------------------------------------------------------
Crash ==
    /\ pc # "idle"
    /\ failures < MaxFailures
    /\ failures' = failures + 1
    /\ Stopped
    /\ UNCHANGED <<listed, db, work, errors>>

(* The file is written in place: a kill, or a reply cut short, leaves any  *)
(* part of it, nothing that can be read, or all of it without its text.    *)
CrashWritingFile(a, left) ==
    /\ pc = "process"
    /\ a \in todo
    /\ file[a] = "none"
    /\ failures < MaxFailures
    /\ failures' = failures + 1
    /\ file' = [file EXCEPT ![a] = left]
    /\ Stopped
    /\ UNCHANGED <<listed, db, processed, text, errors>>

(* za_hansard_q_and_a_delete_duplicates, run by hand, for one item: the    *)
(* answer with another URL goes with every question that has it.  Its      *)
(* query has no term.  (Two of its questions with one answer: the second   *)
(* lookup of the answer fails and the transaction rolls back.)             *)
DeleteDuplicates(i) ==
    LET conflicting == {q \in questions : /\ Numbers[i] \subseteq Numbers[q]
                                          /\ answerOf[q] # None
                                          /\ apiUrl[answerOf[q]] \notin {None, i}}
        doomed == {answerOf[q] : q \in conflicting}
    IN  /\ pc = "idle"
        /\ doomed # {}
        /\ \A q, r \in conflicting : answerOf[q] = answerOf[r] => q = r
        /\ answers' = answers \ doomed
        /\ questions' = {q \in questions : answerOf[q] \notin doomed}
        /\ answerOf' = [q \in Question |->
                          IF answerOf[q] \in doomed THEN None ELSE answerOf[q]]
        /\ apiUrl' = [a \in Answer |-> IF a \in doomed THEN None ELSE apiUrl[a]]
        /\ processed' = [a \in Answer |-> IF a \in doomed THEN "pending" ELSE processed[a]]
        /\ text' = [a \in Answer |-> IF a \in doomed THEN "none" ELSE text[a]]
        /\ file' = [a \in Answer |-> IF a \in doomed THEN "none" ELSE file[a]]
        /\ UNCHANGED <<listed, pc, todo, errors, failures>>

RunStep ==
    \/ StartRun \/ ScrapeDone \/ ProcessDone \/ MatchDone
    \/ \E i \in Item : Scrape(i) \/ ScrapeRefused(i)
    \/ \E a \in Answer : Process(a) \/ ProcessUnreadable(a) \/ Match(a) \/ MatchRefused(a)

Next ==
    \/ RunStep \/ Crash
    \/ \E i \in Item \ listed : Publish(i)
    \/ \E a \in Answer : ProcessHttpError(a) \/ ProcessFails(a)
    \/ \E a \in Answer, left \in {"whole", "torn", "unreadable"} : CrashWritingFile(a, left)
    \/ \E i \in Item : DeleteDuplicates(i)

Spec == Init /\ [][Next]_vars

(* cron starts the command every day and the system lets it run.           *)
FairSpec == Spec /\ WF_vars(RunStep)

-----------------------------------------------------------------------------
(* An answer that a question is given has one of its numbers, and is of    *)
(* its term, unless it is given by match_answers, which does not look at   *)
(* the term: then no other question of the year has a number of it.        *)
AnswersFit ==
    [][\A q \in questions' : answerOf'[q] \notin {None, answerOf[q]} =>
         LET a == answerOf'[q] IN
           /\ Numbers[q] \cap Numbers[a] # {}
           /\ \/ Term[q] = Term[a]
              \/ \A r \in questions :
                   Numbers[r] \cap Numbers[a] \cap WrittenOral # {} => r = q]_vars

(* As the tests have it, the same number in another term is another        *)
(* question: a question and its answer are of the same term.               *)
TermsFit == \A q \in questions : answerOf[q] # None => Term[q] = Term[answerOf[q]]

(* An item of the API for which the import takes both rows.                *)
Between(i, q, a) ==
    /\ Term[q] = Term[i] /\ Term[a] = Term[i]
    /\ Numbers[i] \subseteq Numbers[q] \cap Numbers[a]

(* No two questions have the same answer, unless the import has given it   *)
(* to one of them: it takes the answer with all the numbers of an item     *)
(* without asking whether another question has it, so that two items with  *)
(* one each of the numbers of an older answer both get it.                 *)
OneQuestionEach ==
    \A q, r \in questions :
        answerOf[q] # None /\ answerOf[q] = answerOf[r] /\ q # r =>
            \E i \in listed : Between(i, q, answerOf[q]) \/ Between(i, r, answerOf[q])

(* A question taken from the API has an answer at every moment, whatever   *)
(* kills the command.                                                      *)
NoHalfImport == \A q \in questions \cap Item : answerOf[q] # None

(* Both: no step of the import is left half done, and no answer is given   *)
(* away twice but by the import.                                           *)
OneToOne == TypeOK /\ NoHalfImport /\ OneQuestionEach

(* The text of an answer, once it is whole, is never replaced by part of a *)
(* document.                                                               *)
TextKept ==
    [][\A a \in answers \cap answers' : text[a] = "whole" => text'[a] = "whole"]_vars

(* No row has only part of the numbers of an item that comes up to i.      *)
Clear(i) == \A j \in Item : Place[j] <= Place[i] => \A r \in Row :
                r # j /\ Clash(j, r) => Numbers[j] \subseteq Numbers[r]

(* Every older answer gets its whole text in the end, although downloads   *)
(* fail for a while and the command is killed, unless a bad file was left  *)
(* in the cache, which is taken for the document ever after, or an item    *)
(* that clashes ends every run.                                            *)
TextsArrive ==
    \A a \in LegacyAnswer :
        a \in answers ~> \/ text[a] = "whole" \/ a \notin answers
                         \/ file[a] \in {"torn", "unreadable"}
                         \/ \E i \in listed : ~Clear(i)

(* Both: every text whose document is well arrives, and stays.             *)
TextsArriveToStay == TextsArrive /\ TextKept

(* An item is imported in the end if the API lists none before it, or at   *)
(* its place, whose rows clash with another's.                             *)
UnblockedImported ==
    \A i \in Item : Clear(i) =>
        (i \in listed ~> \E q \in questions : /\ Term[q] = Term[i]
                                             /\ Numbers[i] \subseteq Numbers[q])
=============================================================================
