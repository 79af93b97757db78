--------------------------- MODULE CommitteeReports ---------------------------
(***************************************************************************)
(* za_hansard_pmg_api_scraper: every day the events of each committee are  *)
(* fetched from the API, the people named in their minutes are stored as   *)
(* appearances of a report, all reports are written to JSON files, and     *)
(* with --delete-existing the speeches of every report's section in SayIt  *)
(* are deleted and added again.                                            *)
(*                                                                         *)
(* Appearances and speeches are deleted in one statement and added one by  *)
(* one: a report is on the way down and up again in each run, and may be   *)
(* killed at any point of it.  A report is the event it comes from; the    *)
(* minutes of an event are the number of appearances in them.  A report    *)
(* without a date is written to no file, reaches no page and is left out.  *)
(***************************************************************************)
EXTENDS Integers, FiniteSets, FiniteSetsExt

CONSTANTS
    Report,         \* reports
    Event,          \* those that the API lists one day
    Old,            \* those that the earlier scraper has stored
    Committee,
    CommitteeOf,    \* the committee of a report
    SectionOf,      \* the SayIt section that its titles lead to
    Before,         \* the number of appearances of an old report
    MaxNames,       \* bound: appearances in the minutes of one event
    MaxEdits,       \* bound: times the site publishes or edits minutes
    MaxErrors,      \* bound: requests and imports that fail
    MaxFailures,    \* bound: kills of the command
    MaxByHand       \* bound: runs of the import by hand

ASSUME ReportAssumption ==
    /\ Event \subseteq Report /\ Old \subseteq Report
    /\ MaxNames \in Nat /\ MaxEdits \in Nat /\ MaxErrors \in Nat
    /\ MaxFailures \in Nat /\ MaxByHand \in Nat
    /\ CommitteeOf \in [Report -> Committee]
    /\ Before \in [Report -> 0..MaxNames]
    /\ \A r \in Report : r \notin Old => Before[r] = 0

NoBody   == -1      \* an event without minutes
Unlisted == -2      \* an event that is not in the API's answer
Torn   == -1        \* a file whose writing was killed
NoFile == -2

VARIABLES
    body,           \* the minutes of the listed events on the site
    stored,         \* reports with a row
    linked,         \* old rows that have been given the API's ids
    rows,           \* the number of appearances of each report
    file,           \* the speeches in its JSON file
    page,           \* its speeches in its section
    marked,         \* reports with sayit_section set
    pc,
    todo,           \* the rest of the loop: committees, then reports
    cur,            \* the set of the report in hand, or none
    seen,           \* the minutes as fetched with the committee in hand
    fresh,          \* appearances found in the minutes in hand
    deleting,       \* the option --delete-existing
    hurt,           \* history: reports whose appearances a kill cut short
    mishap,         \* history: a kill or a failed import has happened
    byHand, edits, errors, failures

site    == <<body, edits>>
reports == <<stored, linked, rows>>
sayit   == <<page, marked>>
hand    == <<todo, cur, seen, fresh, deleting>>
history == <<hurt, mishap, byHand, errors, failures>>
vars    == <<site, reports, file, sayit, pc, hand, history>>

Bodies  == NoBody..MaxNames
Answers == Unlisted..MaxNames

TypeOK ==
    /\ body \in [Event -> Answers]
    /\ Old \subseteq stored /\ stored \subseteq Report
    /\ linked \subseteq Old
    /\ rows \in [Report -> 0..MaxNames] /\ file \in [Report -> NoFile..MaxNames]
    /\ page \in [Report -> Nat]
    /\ marked \subseteq stored
    /\ pc \in {"idle", "fetch", "report", "delete rows", "save rows",
               "json", "import", "delete speeches", "add speeches", "mark"}
    /\ todo \subseteq Report \cup Committee
    /\ cur \subseteq stored /\ Cardinality(cur) <= 1
    /\ seen \in [Event -> Answers]
    /\ fresh \in Nat
    /\ deleting \in BOOLEAN /\ mishap \in BOOLEAN
    /\ hurt \subseteq stored
    /\ byHand \in 0..MaxByHand /\ edits \in 0..MaxEdits
    /\ errors \in 0..MaxErrors /\ failures \in 0..MaxFailures

Nothing == [e \in Event |-> Unlisted]

Init ==
    /\ body = Nothing /\ edits = 0
    /\ stored = Old /\ linked = {} /\ rows = Before
    /\ file = [r \in Report |-> NoFile]
    /\ page = [r \in Report |-> 0] /\ marked = {}
    /\ pc = "idle" /\ todo = {} /\ cur = {} /\ seen = Nothing /\ fresh = 0 /\ deleting = FALSE
    /\ hurt = {} /\ mishap = FALSE /\ byHand = 0 /\ errors = 0 /\ failures = 0

Goto(step, rest) == pc' = step /\ todo' = rest /\ cur' = {} /\ seen' = Nothing /\ fresh' = 0

Stopped == Goto("idle", {}) /\ deleting' = FALSE

(* An event is listed, or its minutes appear or are edited.  Only Fetch    *)
(* reads the site, so a change at another step of the run is one before    *)
(* the next fetch.                                                         *)
Publish(e, names) ==
    /\ pc \in {"idle", "fetch"}
    /\ edits < MaxEdits
    /\ body[e] # names
    /\ body' = [body EXCEPT ![e] = names]
    /\ edits' = edits + 1
    /\ UNCHANGED <<reports, file, sayit, pc, hand, history>>

-----------------------------------------------------------------------------
(* --scrape.                                                               *)

StartRun ==
    /\ pc = "idle"
    /\ Goto("fetch", Committee)
    /\ deleting' = TRUE
    /\ UNCHANGED <<site, reports, file, sayit, history>>

(* One request for all the events of a committee, with their minutes.      *)
Fetch(c) ==
    /\ pc = "fetch" /\ c \in todo
    /\ seen' = [e \in Event |-> IF CommitteeOf[e] = c THEN body[e] ELSE Unlisted]
    /\ pc' = "report" /\ todo' = todo \ {c}
    /\ UNCHANGED <<site, reports, file, sayit, cur, fresh, deleting, history>>

(* The exception ends the command, the other steps are not run.            *)
FetchFails ==
    /\ pc = "fetch" /\ todo # {}
    /\ errors < MaxErrors /\ errors' = errors + 1
    /\ Stopped
    /\ UNCHANGED <<site, reports, file, sayit, hurt, mishap, byHand, failures>>

CommitteeDone ==
    /\ pc = "report" /\ seen = Nothing
    /\ Goto("fetch", todo)
    /\ UNCHANGED <<site, reports, file, sayit, deleting, history>>

ScrapeDone ==
    /\ pc = "fetch" /\ todo = {}
    /\ Goto("json", stored)
    /\ UNCHANGED <<site, reports, file, sayit, deleting, history>>

(* get_meeting_report: by the API's ids, or an old report by its URL, which *)
(* is given the ids, or a new one.  Without minutes that is all.           *)
GetReport(e) ==
    /\ pc = "report" /\ seen[e] # Unlisted
    /\ stored' = stored \cup {e}
    /\ linked' = IF e \in Old THEN linked \cup {e} ELSE linked
    /\ seen' = [seen EXCEPT ![e] = Unlisted]
    /\ IF seen[e] = NoBody
         THEN UNCHANGED <<pc, cur, fresh>>
         ELSE pc' = "delete rows" /\ cur' = {e} /\ fresh' = seen[e]
    /\ UNCHANGED <<site, rows, file, sayit, todo, deleting, history>>

(* Mutant: an old report is not spared.                                    *)
Worse_Never(r) == FALSE

(* A report of the old scraper keeps its appearances when the minutes have *)
(* fewer.                                                                  *)
Worse(r) == r \in Old /\ rows[r] > fresh

KeepRows(r) ==
    /\ pc = "delete rows" /\ cur = {r} /\ Worse(r)
    /\ pc' = "report" /\ cur' = {} /\ fresh' = 0
    /\ UNCHANGED <<site, reports, file, sayit, todo, seen, deleting, history>>

DeleteRows(r) ==
    /\ pc = "delete rows" /\ cur = {r} /\ ~ Worse(r)
    /\ rows' = [rows EXCEPT ![r] = 0]
    /\ pc' = "save rows"
    /\ UNCHANGED <<site, stored, linked, file, sayit, hand, history>>

SaveRow(r) ==
    /\ pc = "save rows" /\ cur = {r} /\ rows[r] < fresh
    /\ rows' = [rows EXCEPT ![r] = @ + 1]
    /\ UNCHANGED <<site, stored, linked, file, sayit, pc, hand, history>>

RowsSaved(r) ==
    /\ pc = "save rows" /\ cur = {r} /\ rows[r] >= fresh
    /\ pc' = "report" /\ cur' = {} /\ fresh' = 0
    /\ UNCHANGED <<site, reports, file, sayit, todo, seen, deleting, history>>

-----------------------------------------------------------------------------
(* --save-json: every report with a date, from its rows, in place.         *)

(* Mutant: a file that is there is left alone.                             *)
SaveJson_Once(r) ==
    /\ pc = "json" /\ r \in todo
    /\ file' = IF file[r] # NoFile THEN file ELSE [file EXCEPT ![r] = rows[r]]
    /\ Goto("json", todo \ {r})
    /\ UNCHANGED <<site, reports, sayit, deleting, history>>

SaveJson(r) ==
    /\ pc = "json" /\ r \in todo
    /\ file' = [file EXCEPT ![r] = rows[r]]
    /\ Goto("json", todo \ {r})
    /\ UNCHANGED <<site, reports, sayit, deleting, history>>

JsonDone ==
    /\ pc = "json" /\ todo = {}
    /\ Goto("import", stored)
    /\ UNCHANGED <<site, reports, file, sayit, deleting, history>>

-----------------------------------------------------------------------------
(* --import-to-sayit.                                                      *)

(* By hand, without --delete-existing: what has no section yet.            *)
StartByHand ==
    /\ pc = "idle" /\ byHand < MaxByHand
    /\ byHand' = byHand + 1
    /\ Goto("import", stored \ marked)
    /\ deleting' = FALSE
    /\ UNCHANGED <<site, reports, file, sayit, hurt, mishap, errors, failures>>

(* There is no file, or it cannot be read: a warning, and the next.        *)
SkipReport(r) ==
    /\ pc = "import" /\ r \in todo /\ file[r] \in {NoFile, Torn}
    /\ Goto("import", todo \ {r})
    /\ UNCHANGED <<site, reports, file, sayit, deleting, history>>

OpenReport(r) ==
    /\ pc = "import" /\ r \in todo /\ file[r] \notin {NoFile, Torn}
    /\ pc' = IF deleting THEN "delete speeches" ELSE "add speeches"
    /\ cur' = {r} /\ todo' = todo \ {r}
    /\ fresh' = IF deleting THEN file[r] ELSE page[r] + file[r]
    /\ UNCHANGED <<site, reports, file, sayit, seen, deleting, history>>

(* section.speech_set.all().delete(), whichever report they came from.     *)
DeleteSpeeches(r) ==
    /\ pc = "delete speeches" /\ cur = {r}
    /\ page' = [x \in Report |-> IF SectionOf[x] = SectionOf[r] THEN 0 ELSE page[x]]
    /\ pc' = "add speeches"
    /\ UNCHANGED <<site, reports, file, marked, hand, history>>

AddSpeech(r) ==
    /\ pc = "add speeches" /\ cur = {r} /\ page[r] < fresh
    /\ page' = [page EXCEPT ![r] = @ + 1]
    /\ UNCHANGED <<site, reports, file, marked, pc, hand, history>>

SpeechesAdded(r) ==
    /\ pc = "add speeches" /\ cur = {r} /\ page[r] = fresh
    /\ pc' = "mark"
    /\ UNCHANGED <<site, reports, file, sayit, hand, history>>

(* Mutant: the row is not saved.                                           *)
Mark_Unsaved(r) ==
    /\ pc = "mark" /\ cur = {r}
    /\ Goto("import", todo)
    /\ UNCHANGED <<site, reports, file, sayit, deleting, history>>

Mark(r) ==
    /\ pc = "mark" /\ cur = {r}
    /\ marked' = marked \cup {r}
    /\ Goto("import", todo)
    /\ UNCHANGED <<site, reports, file, page, deleting, history>>

(* Any exception of the importer is caught and reported.                   *)
ImportFails ==
    /\ pc \in {"delete speeches", "add speeches", "mark"}
    /\ errors < MaxErrors /\ errors' = errors + 1 /\ mishap' = TRUE
    /\ Goto("import", todo)
    /\ UNCHANGED <<site, reports, file, sayit, deleting, hurt, byHand, failures>>

ImportDone ==
    /\ pc = "import" /\ todo = {}
    /\ Stopped
    /\ UNCHANGED <<site, reports, file, sayit, history>>

-----------------------------------------------------------------------------
Killed ==
    /\ pc # "idle"
    /\ failures < MaxFailures /\ failures' = failures + 1 /\ mishap' = TRUE
    /\ Stopped

Crash ==
    /\ Killed
    /\ hurt' = IF pc = "save rows" THEN hurt \cup cur ELSE hurt
    /\ UNCHANGED <<site, reports, file, sayit, byHand, errors>>

CrashWritingFile(r) ==
    /\ pc = "json" /\ r \in todo
    /\ Killed
    /\ file' = [file EXCEPT ![r] = Torn]
    /\ UNCHANGED <<site, reports, sayit, hurt, byHand, errors>>

Scrape ==
    \/ StartRun \/ CommitteeDone \/ ScrapeDone
    \/ \E c \in Committee : Fetch(c)
    \/ \E e \in Event : GetReport(e)
    \/ \E r \in Report : KeepRows(r) \/ DeleteRows(r) \/ SaveRow(r) \/ RowsSaved(r)

ToSayIt ==
    \/ JsonDone \/ ImportDone
    \/ \E r \in Report :
          SaveJson(r) \/ SkipReport(r) \/ OpenReport(r) \/ DeleteSpeeches(r)
          \/ AddSpeech(r) \/ SpeechesAdded(r) \/ Mark(r)

RunStep == Scrape \/ ToSayIt

Next ==
    \/ RunStep
    \/ \E e \in Event, names \in Bodies : Publish(e, names)
    \/ StartByHand \/ FetchFails \/ ImportFails \/ Crash
    \/ \E r \in Report : CrashWritingFile(r)

(* Cron starts the command daily and the system lets it run; the command   *)
(* that staff give may be in its way, never for ever.                      *)
Fairness == WF_vars(RunStep)

Spec == Init /\ [][Next]_vars /\ Fairness

-----------------------------------------------------------------------------
Saving(r) == cur = {r} /\ pc = "save rows"

(* get_appearances never lets a report of the old scraper end up with      *)
(* fewer appearances than it had, except when a kill comes between the     *)
(* deletion of the old and the last of the new ones.                       *)
OldReportsKept == \A r \in Old \ hurt : rows[r] < Before[r] => Saving(r)

(* handle: while no import failed and no process was killed, the section   *)
(* shows all speeches of a report's file or none of them, once it has been *)
(* marked as imported; the deletion of a section is never left standing.   *)
PageWhole ==
    ~ mishap => \A r \in Report :
        pc = "idle" \/ (pc = "import" /\ r \notin todo) => page[r] \in {0, file[r]}

(* import_document deletes by section, not by report: when reports share   *)
(* one (the same committee, day and title), at most one of them is shown,  *)
(* and as long as staff import nothing by hand their speeches never mix.   *)
OneReportPerSection ==
    byHand = 0 => \A r, x \in Report :
        r # x /\ SectionOf[r] = SectionOf[x] => page[r] = 0 \/ page[x] = 0

(* Both: what a section shows is one report, and all of it.                *)
PagesRight == TypeOK /\ PageWhole /\ OneReportPerSection

(* A report whose section is its own shows the minutes in the end, after   *)
(* any kills, failed requests, torn files and doubled imports; one of the  *)
(* old scraper does unless the minutes have fewer appearances.             *)
Shown(r) == body[r] \in {Unlisted, NoBody} \/ page[r] = body[r]
Alone(r) == \A x \in Report \ {r} : SectionOf[x] # SectionOf[r]
EventuallyShown ==
    \A r \in Event : Alone(r) =>
        <>[](pc = "idle" => Shown(r) \/ (r \in Old /\ rows[r] > body[r]))
=============================================================================
