---------------------------- MODULE SayItQuestions ----------------------------
(***************************************************************************)
(* The last two steps of za_hansard_q_and_a_scraper --run-all-steps: every *)
(* question and its answer are written to JSON files, then those without a *)
(* sayit_section are imported, questions first, as the speeches of a SayIt *)
(* section.  Question and answer find the section by the same title.       *)
(*                                                                         *)
(* Nothing here is in a transaction: the section, the speech, its tags and *)
(* the row's sayit_section are committed one by one.                       *)
(***************************************************************************)
EXTENDS Naturals, Sequences, SequencesExt, FiniteSets

CONSTANTS
    Question,       \* questions, each with its answer and its section
    Papered,        \* those whose only source URL is that of their paper
    None,
    MaxErrors,      \* bound: exceptions of the importer
    MaxFailures     \* bound: kills of the command

ASSUME SayItAssumption ==
    /\ Papered \subseteq Question
    /\ None \notin Question
    /\ MaxErrors \in Nat /\ MaxFailures \in Nat

VARIABLES
    asked,          \* Question rows
    answered,       \* those with an answer whose text was read
    sourceless,     \* those whose paper is deleted
    questionJson,   \* the file of a question under QUESTION_JSON_CACHE
    answerJson,     \* the file of its answer under ANSWER_JSON_CACHE
    section,        \* the speeches of its section, by their tags
    questionIn,     \* questions with sayit_section set
    answerIn,       \* those whose answer has it set
    stage, todo, cur, errors, failures

rows  == <<asked, answered, sourceless>>
files == <<questionJson, answerJson>>
marks == <<questionIn, answerIn>>
sayItVars == <<rows, files, section, marks, stage, todo, cur, errors, failures>>

Speech == {"question", "answer"}
File   == {"none", "part", "whole"}

SayItTypeOK ==
    /\ answered \subseteq asked /\ asked \subseteq Question
    /\ sourceless \subseteq Papered
    /\ questionJson \in [Question -> File] /\ answerJson \in [Question -> File]
    /\ section \in [Question -> Seq(Speech)]
    /\ questionIn \subseteq asked /\ answerIn \subseteq answered
    /\ \A q \in questionIn \cup answerIn : section[q] # <<>>
    /\ stage \in {"idle", "save", "questions", "markQuestion", "answers", "markAnswer"}
    /\ todo \subseteq asked
    /\ cur \in asked \cup {None}
    /\ errors \in 0..MaxErrors /\ failures \in 0..MaxFailures

SayItInit ==
    /\ asked = {} /\ answered = {} /\ sourceless = {}
    /\ questionJson = [q \in Question |-> "none"]
    /\ answerJson = [q \in Question |-> "none"]
    /\ section = [q \in Question |-> <<>>]
    /\ questionIn = {} /\ answerIn = {}
    /\ stage = "idle" /\ todo = {} /\ cur = None
    /\ errors = 0 /\ failures = 0

SayItStopped == stage' = "idle" /\ todo' = {} /\ cur' = None

Goto(step, rest) == stage' = step /\ todo' = rest /\ cur' = None

-----------------------------------------------------------------------------
(* Before the run reaches these steps.                                     *)

Ask(q) ==
    /\ stage = "idle"
    /\ asked' = asked \cup {q}
    /\ UNCHANGED <<answered, sourceless, files, section, marks, stage, todo, cur, errors, failures>>

Answer(q) ==
    /\ stage = "idle"
    /\ q \in asked
    /\ answered' = answered \cup {q}
    /\ UNCHANGED <<asked, sourceless, files, section, marks, stage, todo, cur, errors, failures>>

(* question.paper is set to NULL with it.                                  *)
DeletePaper(q) ==
    /\ stage = "idle"
    /\ q \in asked \cap Papered
    /\ sourceless' = sourceless \cup {q}
    /\ UNCHANGED <<asked, answered, files, section, marks, stage, todo, cur, errors, failures>>

-----------------------------------------------------------------------------
(* qa_to_json.                                                             *)

StartRun ==
    /\ stage = "idle"
    /\ Goto("save", asked)
    /\ UNCHANGED <<rows, files, section, marks, errors, failures>>

(* --import-into-sayit, by hand: the last step alone.                      *)
StartImport ==
    /\ stage = "idle"
    /\ Goto("questions", asked \ questionIn)
    /\ UNCHANGED <<rows, files, section, marks, errors, failures>>

(* Mutant: the files of a question are not written again.                  *)
Save_Once(q) ==
    /\ stage = "save"
    /\ q \in todo \ sourceless
    /\ questionJson' = IF questionJson[q] = "none"
                         THEN [questionJson EXCEPT ![q] = "whole"] ELSE questionJson
    /\ answerJson' = IF q \in answered /\ answerJson[q] = "none"
                       THEN [answerJson EXCEPT ![q] = "whole"] ELSE answerJson
    /\ Goto("save", todo \ {q})
    /\ UNCHANGED <<rows, section, marks, errors, failures>>

Save(q) ==
    /\ stage = "save"
    /\ q \in todo \ sourceless
    /\ questionJson' = [questionJson EXCEPT ![q] = "whole"]
    /\ answerJson' = IF q \in answered THEN [answerJson EXCEPT ![q] = "whole"] ELSE answerJson
    /\ Goto("save", todo \ {q})
    /\ UNCHANGED <<rows, section, marks, errors, failures>>

(* "No source URL found for question with ID" ends the command.            *)
SaveRefused(q) ==
    /\ stage = "save"
    /\ q \in todo \cap sourceless
    /\ SayItStopped
    /\ UNCHANGED <<rows, files, section, marks, errors, failures>>

SaveDone ==
    /\ stage = "save"
    /\ todo = {}
    /\ Goto("questions", asked \ questionIn)
    /\ UNCHANGED <<rows, files, section, marks, errors, failures>>

-----------------------------------------------------------------------------
(* import_into_sayit, the questions.                                       *)

(* import_document: the speech is added to the section.                    *)
ImportQuestion(q) ==
    /\ stage = "questions"
    /\ q \in todo
    /\ questionJson[q] = "whole"
    /\ section' = [section EXCEPT ![q] = Append(@, "question")]
    /\ stage' = "markQuestion" /\ cur' = q /\ todo' = todo \ {q}
    /\ UNCHANGED <<rows, files, marks, errors, failures>>

MarkQuestion ==
    /\ stage = "markQuestion"
    /\ questionIn' = questionIn \cup {cur}
    /\ Goto("questions", todo)
    /\ UNCHANGED <<rows, files, section, answerIn, errors, failures>>

(* An exception, logged: the speech may have been stored before it.        *)
ImportQuestionFails(q) ==
    /\ stage = "questions"
    /\ q \in todo
    /\ questionJson[q] = "whole"
    /\ errors < MaxErrors
    /\ errors' = errors + 1
    /\ section' \in {section, [section EXCEPT ![q] = Append(@, "question")]}
    /\ Goto("questions", todo \ {q})
    /\ UNCHANGED <<rows, files, marks, failures>>

(* There is no file, or it does not load.                                  *)
SkipQuestion(q) ==
    /\ stage = "questions"
    /\ q \in todo
    /\ questionJson[q] # "whole"
    /\ Goto("questions", todo \ {q})
    /\ UNCHANGED <<rows, files, section, marks, errors, failures>>

QuestionsDone ==
    /\ stage = "questions"
    /\ todo = {}
    /\ Goto("answers", answered \ answerIn)
    /\ UNCHANGED <<rows, files, section, marks, errors, failures>>

-----------------------------------------------------------------------------
(* import_into_sayit, the answers: at most two speeches in a section.      *)

(* Mutants: no limit; a limit of one.                                      *)
WithAnswer_NoLimit(speeches) == Append(speeches, "answer")
WithAnswer_One(speeches) == IF Len(speeches) >= 1 THEN speeches ELSE Append(speeches, "answer")

WithAnswer(speeches) == IF Len(speeches) >= 2 THEN speeches ELSE Append(speeches, "answer")

ImportAnswer(q) ==
    /\ stage = "answers"
    /\ q \in todo
    /\ answerJson[q] = "whole"
    /\ section' = [section EXCEPT ![q] = WithAnswer(@)]
    /\ stage' = "markAnswer" /\ cur' = q /\ todo' = todo \ {q}
    /\ UNCHANGED <<rows, files, marks, errors, failures>>

MarkAnswer ==
    /\ stage = "markAnswer"
    /\ answerIn' = answerIn \cup {cur}
    /\ Goto("answers", todo)
    /\ UNCHANGED <<rows, files, section, questionIn, errors, failures>>

ImportAnswerFails(q) ==
    /\ stage = "answers"
    /\ q \in todo
    /\ answerJson[q] = "whole"
    /\ errors < MaxErrors
    /\ errors' = errors + 1
    /\ section' \in {section, [section EXCEPT ![q] = WithAnswer(@)]}
    /\ Goto("answers", todo \ {q})
    /\ UNCHANGED <<rows, files, marks, failures>>

SkipAnswer(q) ==
    /\ stage = "answers"
    /\ q \in todo
    /\ answerJson[q] # "whole"
    /\ Goto("answers", todo \ {q})
    /\ UNCHANGED <<rows, files, section, marks, errors, failures>>

AnswersDone ==
    /\ stage = "answers"
    /\ todo = {}
    /\ SayItStopped
    /\ UNCHANGED <<rows, files, section, marks, errors, failures>>

-----------------------------------------------------------------------------
(* Killed; while a file is written, it holds only a part.                  *)
Crash ==
    /\ stage # "idle"
    /\ failures < MaxFailures
    /\ failures' = failures + 1
    /\ SayItStopped
    /\ UNCHANGED <<rows, files, section, marks, errors>>

CrashSaving(q) ==
    /\ stage = "save"
    /\ q \in todo \ sourceless
    /\ failures < MaxFailures
    /\ failures' = failures + 1
    /\ \/ /\ questionJson' = [questionJson EXCEPT ![q] = "part"]
          /\ UNCHANGED answerJson
       \/ /\ q \in answered
          /\ questionJson' = [questionJson EXCEPT ![q] = "whole"]
          /\ answerJson' = [answerJson EXCEPT ![q] = "part"]
    /\ SayItStopped
    /\ UNCHANGED <<rows, section, marks, errors>>

RunStep ==
    \/ StartRun \/ SaveDone \/ QuestionsDone \/ AnswersDone
    \/ MarkQuestion \/ MarkAnswer
    \/ \E q \in Question :
         \/ Save(q) \/ SaveRefused(q)
         \/ ImportQuestion(q) \/ SkipQuestion(q)
         \/ ImportAnswer(q) \/ SkipAnswer(q)

SayItNext ==
    \/ RunStep \/ StartImport \/ Crash
    \/ \E q \in Question :
         \/ Ask(q) \/ Answer(q) \/ DeletePaper(q)
         \/ ImportQuestionFails(q) \/ ImportAnswerFails(q) \/ CrashSaving(q)

SayItSpec == SayItInit /\ [][SayItNext]_sayItVars

(* The system lets a command run, and cron starts all the steps every day, *)
(* whatever is started by hand in between.                                 *)
FairSpec == SayItSpec /\ WF_sayItVars(RunStep) /\ SF_sayItVars(StartRun)

-----------------------------------------------------------------------------
(* Properties.                                                             *)

Copies(speeches, s) == Cardinality({n \in DOMAIN speeches : speeches[n] = s})
Number(q, speech) == Copies(section[q], speech)

(* While nothing goes wrong, a section holds the question and then the     *)
(* answer, each once, exactly if its row says so.                          *)
MarksTrue ==
    errors = 0 /\ failures = 0 =>
        \A q \in Question \ {cur} :
            section[q] = (IF q \in questionIn THEN <<"question">> ELSE <<>>)
                           \o (IF q \in answerIn THEN <<"answer">> ELSE <<>>)

(* Exceptions and kills leave a second question in a section at most once  *)
(* each, and never a second answer after a question: the limit makes the   *)
(* import of an answer repeatable.                                         *)
FewDuplicates ==
    \A q \in Question :
        /\ Number(q, "question") <= 1 + errors + failures
        /\ section[q] # <<>> /\ Head(section[q]) = "question" => Number(q, "answer") <= 1

(* Every question and every answer is marked as imported in the end, in    *)
(* spite of torn files, unless the deletion of a paper stops every run.    *)
EventuallyIn ==
    \A q \in Question :
        /\ q \in asked ~> q \in questionIn \/ sourceless # {}
        /\ q \in answered ~> q \in answerIn \/ sourceless # {}

(* 'limit to 2 speeches per section to avoid duplicating speeches'         *)
(* (import_into_sayit): what the limit leaves out is in the section, so an *)
(* answer that is marked as imported can be read there.                    *)
AnswerReadable == \A q \in answerIn : "answer" \in Range(section[q])
=============================================================================
