# Pombola in TLA+

Pombola is the Django site behind several parliamentary monitoring projects
(Mzalendo in Kenya, People's Assembly in South Africa, ShineYourEye in
Nigeria).  Most of it shows tables that people edit by hand or import once.
Its own difficult logic is in the **commands**: those that cron starts every
day, which fetch documents from parliaments that change under their feet, keep
them in file caches and turn them into rows and speeches, and those that staff
give to bring people, parties and offices up to date from a file.  They share
the database with the people who edit it meanwhile.  They have few transactions
and no locks, they are killed and restarted, and their tests run them once, on
clean data, from beginning to end.  That is what is modelled here, with the two
places where requests of users meet in the same way: the tasks of volunteers
and the messages to politicians.

1. [Inventory of the system](#1-inventory-of-the-system)
2. [Modules](#2-modules)
3. [Models and code](#3-models-and-code)
4. [Runs: what is checked](#4-runs-what-is-checked)
5. [Fairness](#5-fairness)
6. [Proofs](#6-proofs)
7. [Disagreements between the code and its texts](#7-disagreements-between-the-code-and-its-texts)
8. [What is not modelled](#8-what-is-not-modelled)
9. [Plan](#9-plan)

To check a model: `tlc -config X.cfg M`, with the pairs of the table in
section 4.  To check the proofs: `tlapm M_proofs.tla` for the eight modules
`SourceProcessing`, `ListPages`, `SpeakerAssignment`, `ZAHansardImport`,
`QuestionMatching`, `CommitteeReports`, `PersonRecords` and `Positions`.

Paths below are relative to the repository; `hansard/` stands for
`pombola/hansard/` and `za_hansard/` for `pombola/za_hansard/`.

## 1. Inventory of the system

### The daily runs

`bin/update_hansard.bash` (Kenya) and `bin/update_za_hansard.bash` (South
Africa) are started by cron (`conf/crontab.ugly`) and run their commands one
after the other; `set -e` ends a script at the first command that fails.

    Kenya                               South Africa
    hansard_check_for_new_sources       pombola_sayit_sync_pombola_to_popolo
    hansard_process_sources             popolo_name_resolver_init (external)
    hansard_assign_speakers             za_hansard_check_for_new_sources_from_pmg
                                        za_hansard_run_parsing
                                        za_hansard_load_into_sayit
                                        za_hansard_q_and_a_scraper --run-all-steps
                                        za_hansard_pmg_api_scraper ... --delete-existing

The commands speak to each other only through the database and the file
caches.  Staff act on the same tables through the admin at any moment, and
give the commands by hand with options cron does not use.

### Components with state of their own

**Kenyan Hansard: crawler of the list pages**
(`hansard/management/commands/hansard_check_for_new_sources.py`).
State: the rows of `Source`, one per (name, list page).  Operations: walk the
pages of the Senate's and the National Assembly's list, newest first; create a
row for each unknown link; stop at a page whose last link is known, unless
`--check-all` is given.  Hard: the lists grow while they are walked, so links
move to the next page; an aborted crawl leaves its rows behind.  Correct when
the stop rule never leaves a transcript unknown behind a newer known one.

**Kenyan Hansard: source processing**
(`hansard_process_sources.py`, `hansard/models/source.py`, the end of
`hansard/kenya_parser.py`).
State: `last_processing_attempt` and `last_processing_success` of each source,
the file cache, `Sitting` and `Entry` rows.  Operations: take the unattempted
sources, newest first; fetch or open the document; record the attempt; parse;
skip the second copy of a joint sitting; save the sitting; save the entries and
the success in one transaction.  Hard: exceptions and kills between the writes,
in-place writes of the cache, deletions by staff during a run, joint sittings
that both Houses list.  Correct when transcripts are published whole, at most
once, and none is lost or retried behind anybody's back.

**Kenyan Hansard: speaker assignment**
(`hansard/models/entry.py`, `hansard/models/alias.py`, `hansard/admin.py`,
`hansard_assign_speakers.py`, `hansard_reattribute_entries.py`).
State: the speaker of each entry; the `Alias` table, by unique name, each row
with a person, or ignored, or neither (unassigned).  Operations: look the name
of each unassigned speech up in the table, else search for it; delete the
unassigned alias of a name that now matches one person, create one for a name
that does not; remember the answer for the rest of the run; staff decide,
ignore, add and delete aliases, set speakers and reattribute speeches.  Hard:
remembered answers and rows read long before they are written back.  Correct
when a committed speaker is that of the alias, or of a lookup of that date and
name, no decision of staff is undone and every name that cannot be placed comes
before them.

**South African Hansard**
(`za_hansard_check_for_new_sources_from_pmg.py`, `za_hansard_run_parsing.py`,
`za_hansard_load_into_sayit.py`, `importers/import_za_akomantoso.py`,
`za_hansard/models.py`).
State: rows of `Source` with attempt, success, `is404`, `sayit_section`; the
cached document and the XML beside it; sections and tagged speeches in SayIt.
Operations: list, fetch, parse, write the XML, import, mark, tag; `--retry`,
`--retry-download`, `--redo`, `--reimport`, `--delete-existing`.  Hard: three
commits per imported document with kills in between, torn files, commands of
staff between cron's.  Correct when a mark on a row is true of the files and
of SayIt, and undisturbed sources arrive.

**South African questions: API import, documents and matching**
(`za_hansard_q_and_a_scraper.py` lines 160-540, `za_hansard/models.py`,
`za_hansard_q_and_a_delete_duplicates.py`).
State: `Question` and `Answer` rows with up to four numbers, year, term and
house; the association; `processed_code` and text of an answer; the file cache.
Operations: get or create each question and its answer from the API, in one
transaction per item; fetch and read the documents of older answers; match
answers to questions by number; remove duplicates by hand.  Hard: overlapping
numbers, unique constraints that end a run, torn downloads.  Correct when an
answer belongs to its question, to no other, is never worse than before, and
gets there in the end.

**South African questions: JSON files and import into SayIt**
(`za_hansard_q_and_a_scraper.py` lines 542-822, `importers/import_json.py`).
State: JSON files, the speeches of a section, `sayit_section` of questions and
answers.  Operations: write the files, import the question, mark it, import the
answer unless the section has two speeches, mark it.  Hard: nothing is in a
transaction, so what was imported and not marked is imported again.  Correct
when the marks are true, duplicates are rare and explained, and everything is
imported in the end.

**South African committee reports**
(`za_hansard_pmg_api_scraper.py`, `importers/import_json.py`).
State: a row per report with its appearances, a JSON file, the speeches of its
section, the mark.  Operations: fetch the events of each committee and match
them with rows, also those of an earlier scraper; delete the appearances and
save the new ones one by one; write the files; delete the speeches of each
section and add them again; import by hand without deleting.  Hard: every run
takes all reports down and up again without a transaction, and reports may
share a section.  Correct when no run ends with less than it began with, a page
shows one report as a whole, and recovers from anything within a run.

**Tasks of the volunteers** (`pombola/tasks`).
State: `Task` rows, one for each contact detail that a person lacks, with
`defer_until` and `attempt_count`.  Operations: the `post_save` and
`post_delete` signals make and delete tasks with every edit; a page of the admin
shows a task, defers it for some days when it is posted, or for half an hour
when it is only looked at.  Hard: no unique constraint, requests that overlap,
a page that saves a row which is gone.  Correct when tasks and contacts agree
and no deferral is lost.

**Merging people, and the copy of people to SayIt**
(`pombola/core/management/merge.py`, `core_merge_people.py`,
`pombola_sayit_sync_pombola_to_popolo.py`, `pombola_sayit/models.py`).
State: people, slug redirects, the join of a person and a SayIt speaker, the
identifiers by which importers resolve slugs, the speaker of each speech.
Operations: a merge that asks for confirmation and moves everything in one
transaction; a daily synchronisation that deletes the identifiers of all people
in one commit and makes them again person by person.  Correct when the speeches
of a person stay together through any number of both.

**Core positions and the commands over them** (`pombola/core/models.py`,
`kenya_update_aspirants_from_iebc.py`, `kenya_assign_aspirants_to_coalitions.py`,
`kenya_remove_duplicate_aspirants.py`, `kenya_check_for_recurring_problems.py`,
`kenya_apply_updates.py`, `nigeria_update_party_memberships.py`, `core_*.py`).
State: the rows of `Position`, with approximate dates and the strings they are
sorted by; the file of names that were checked by hand.  Operations: each
command reads rows, and then ends, creates, moves or deletes them one save at a
time.  Correct when the queries mean what the dates mean, runs that end leave
what their source says, and nobody falls out between two saves.

**Constituency offices** (`south_africa_update_constituency_offices.py`).
State: offices with party, contacts and place; positions there; phone numbers of
people.  Operations: go through the offices of a file, find, rename, reopen or
create each, bring what belongs to it up to date, add people, and in the end
close a party's other offices.  Correct when a run that ends has brought about
what the file says, whatever an earlier one left half done, and nothing is there
twice.

**Write to politicians** (`pombola/writeinpublic`).
State: the answers of a wizard in the session, and what the external message
service has accepted.  Operations: choose recipients, write a draft, solve a
captcha, send.  Hard: requests that overlap, a service whose answer is lost, two
wizards over one part of the session.  Correct when a message is sent once, paid
for by a captcha, and to nobody who is not on offer.

The other parts (pages, serialisers, parsers of documents, one-off imports,
search, scorecards, surveys and so on) are listed in `PROJECT.json` with the
reason why they are left out; section 8 sums them up.

## 2. Modules

| Module | Models | Extends or uses |
|---|---|---|
| `TranscriptArchive` | what the Kenyan import promises: each transcript is unlisted, waiting, tried or published | abstract |
| `SourceProcessing` | `hansard_process_sources` with crawler, staff, kills | refines `TranscriptArchive` |
| `SourceProcessing_proofs` | theorems about it and about `ConstituencyOffices` | `SourceProcessing`, `ConstituencyOffices`, `TLAPS` |
| `ListPages` | `hansard_check_for_new_sources` over growing lists | |
| `ListPages_proofs` | theorems about it and about `SayItQuestions` | `ListPages`, `SayItQuestions`, `TLAPS` |
| `SpeakerAssignment` | `hansard_assign_speakers` with the alias table and staff | |
| `SpeakerAssignment_proofs` | theorems about it | `SpeakerAssignment`, `TLAPS` |
| `ZAHansardImport` | the three commands of the South African Hansard | |
| `ZAHansardImport_proofs` | theorems about it | `ZAHansardImport`, `TLAPS` |
| `QuestionMatching` | API import, documents and matching of questions | |
| `QuestionMatching_proofs` | theorems about it | `QuestionMatching`, `TLAPS` |
| `SayItQuestions` | JSON files and SayIt import of questions | |
| `CommitteeReports` | `za_hansard_pmg_api_scraper` with all its steps | |
| `CommitteeReports_proofs` | theorems about it and about `MessageWizard` | `CommitteeReports`, `MessageWizard`, `TLAPS` |
| `People` | the table of persons | |
| `Tasks` | signals, edits and the tasks page | extends `People` |
| `PersonRecords` | `core_merge_people` and the synchronisation with SayIt, composed | extends `People` |
| `PersonRecords_proofs` | theorems about it and about `Tasks` | `PersonRecords`, `Tasks`, `TLAPS` |
| `Positions` | approximate dates, sort strings and the queries over them | |
| `PositionCommands` | ten commands over positions | extends `Positions` |
| `Positions_proofs` | theorems about the queries and the commands | `PositionCommands`, `TLAPS` |
| `ConstituencyOffices` | `south_africa_update_constituency_offices` | extends `Positions` |
| `MessageWizard` | the wizard of WriteInPublic, its session and its service | |
| `MC...` | instances for TLC | each extends its module |

`QuestionMatching` and `SayItQuestions` are the first and the last steps of one
command: the second takes "a question is created" and "its answer is read",
which the first models in detail, as actions of an environment (`Ask`,
`Answer`), and neither changes a row the other's properties speak of.
`ListPages` and `SourceProcessing` meet in the action `List` in the same way.
`PersonRecords` composes two commands and the importers that rely on both, and
`PositionCommands` lets any of its commands follow any other over the same rows.

## 3. Models and code

Conventions that hold for all modules:

- **A table** is a set of the ids that have a row, or a function of them, one
  variable per column that matters.  A **date column** that code only compares
  with NULL is a set.
- **A command** is a program counter `pc` (`"idle"` while it does not run), the
  rest of the queryset it loaded (`todo`) and the row in hand (`cur`).  A step
  of the model ends where the code commits or calls out: between two steps
  others act and the process may be killed.
- **`Stopped`** is the end of the process, normal or not: memory is lost, the
  tables and files stay.  An exception that the code does not catch, and a
  kill, are `Stopped` with nothing else changed; when the statement is inside a
  transaction its writes are not there.
- **A file** is `"none"`, `"whole"`, or what is left when the process is killed
  after opening it for writing.  Nothing in the code compares a file with its
  source, so a bad file is served like a good one.
- **Mutants**: a definition with a suffix (`Mark_NoAttempt`) before the one it
  varies is a plausible bug.  It is not part of the specification; it documents
  which mistake each property catches.
- **Grouped properties**: where several invariants say one thing together
  (`NothingTwice`, `PagesRight`, `OneToOne`, ...), the run checks the
  conjunction, which includes the module's `TypeOK` in most cases; the parts are
  defined and explained before it.
- **Names**: a proofs module that is about two components extends both, so one
  of the two has a prefix to its `Init`, `Next`, `Spec` and so on (`SayItSpec`,
  `TasksSpec`, `WizardSpec`, `OfficesSpec`).  The components have nothing else in common.
- Every model of commands has one run at a time.  Nothing in the code
  enforces that (there is no lock); cron's interval does.

### SourceProcessing

| Model | Code |
|---|---|
| `listed`, `attempted`, `succeeded` | `Source` rows, `last_processing_attempt`, `last_processing_success` |
| `cache` | the file of `cache_file_path()`; its name has the row's id, so a row listed anew has none |
| `ghosts` | instances the run loaded whose row staff have deleted since; `source.save()` inserts them again |
| `StartRun`, `TakeNext`, `EndRun` | the loop over `requires_processing()` in `Meta.ordering` |
| `FileFromCache`, `FileFetched`, `FileFails` | `Source.file()`; the exception leaves the whole command |
| `Mark`, `MarkRefused` | `source.save()`; refused by the unique constraint when the row was listed again |
| `ParseOk`, `ParseFails` | `KenyaParser.convert_pdf_to_html` and on, up to the rows |
| `SkipDuplicate`, `SaveSitting`, `SaveEntries`, `SaveRefused` | `create_entries_from_data_and_source` |
| `Crash`, `CrashWritingFile` | a kill, or a refused statement, at any step; a kill while the cache is written |
| `List`, `Delete` | the crawler; `Source.delete()` from the admin |

### ListPages

A transcript is its rank of publication, 1 for the oldest, so the page `k` of
a list with `n` transcripts is computed (`OnPage`).  `Publish` lets the site
grow at any moment.  `Fetch` is one request with the links and the pager read
from it, `Link` one link looked up and perhaps created, `Decide` the choice
after the last link.  The model keeps the code's peculiarity that
`get_next_page` is the answer for the *last* link of the page.

### SpeakerAssignment

`Lookup` is `Alias.objects.get` and the two early returns, `MatchNoSeat`,
`MatchOne`, `MatchNone`, `MatchNoneRefused` are the outcomes of the search with
their writes to the alias table, `Return` the entry in the cache, `Assign` the
save.  The search itself (names, constituencies, parties) is constant data:
`Found`, `House`, `ByPlace`.  What narrows it, the house, the joint sitting and
the matching algorithm of the site, is in `Search` and `Results`.  `hand` is
the alias instance in memory: `alias.delete()` goes by its id, so a row that
staff deleted and added again is another one.

### ZAHansardImport

`tagged` and `untagged` count the copies of a document in SayIt by whether the
tag has been added; `Import`, `MarkImported`, `TagSpeeches` are the three
commits of the loader.  `FileFails` is an answer other than 200 (`is404` is
set) or none at all.  `hurt` is a history variable for the liveness property.

### QuestionMatching

Rows born from an item of the API have the item's name; rows of the earlier
scraper are `Legacy`.  `Numbers` is the set of the numbers of a row, tagged by
their sequence; `Matching` is `existing_kwargs`, `Clash` what the
`unique_together` constraints forbid, `Candidates` the lookup of
`match_answers`, which goes by written and oral numbers only and does not ask
for the term.  Each item is handled twice, for its minister and for its member.

### SayItQuestions

`section[q]` is the sequence of the speeches in the section of a question,
by their tags; `WithAnswer` is the limit of two speeches.  `SaveRefused` is the
exception for a question without a source URL, which ends the command in every
run.

### CommitteeReports

A report is the event it comes from; minutes are the number of their
appearances, because what the code loses or doubles are whole appearances.
`Fetch` is one request for a committee, `GetReport` the lookup by ids, by URL
and the creation, `KeepRows` the guard for reports of the earlier scraper
(`Worse`), `DeleteRows`, `SaveRow` and `RowsSaved` the loop over appearances;
`SaveJson` the second, `OpenReport` to `Mark` the third option of the command.
`DeleteSpeeches` empties the section, so it takes down every report that shares
it.  `ImportFails` is the importer's `except`, which goes on with the next report.

### Tasks

Django runs each request in a transaction (`ATOMIC_REQUESTS`) at read committed,
so a request is two steps: what it reads (`SaveContact`, `SavePerson`, ...), kept
in `request[e]`, and what it commits.  `Multiple` is `MultipleObjectsReturned`,
which rolls the request back.  A page is `GET`, then maybe `POST`, each with a
copy of the task it has loaded; `stale` remembers copies that were overtaken.

### PersonRecords

A slug is the person it was made for; `now` is the history of who that person
has become.  A merge is asked for, answered and done in one step, as in the
code's `transaction.atomic`.  The synchronisation is `Begin` (the commit that
deletes), then a step per person in a transaction of its own; it ends early when
a join it is about to refer to was deleted by a merge.  Importers give a speech
to the speaker that its slug is resolved to at that moment, or to none.

### Positions and PositionCommands

`Positions` has the dates as records that compare like their strings, so that
`High` is the 99 and the plain date the 00 of `_set_sorting_dates`;
`Earliest` and `Latest` are `approximate_date_to_date`, and each query is one
operator.  In `PositionCommands` a command is what it has read to do: `todo` is a
set of items, each with the number of its loop in the code, since a queryset has
no order that matters while the loops have (`First`); `next` is what the item in
hand still needs.  A save writes the row as it was read.  The rows of `--fix` are
items too, but the command is one transaction: nothing comes between them
(`InTransaction`), and a kill undoes all, as if it had not begun.

The assumptions (`PositionAssumption`, `FeedAssumption`) say that parties are
none of the other organisations, that the calendar has the days the commands
write (the day before the first day and before `SwitchDay`), that the rows there
are at first have the right type, and that a code of the IEBC stays with its
candidate.

### ConstituencyOffices

An item of `agenda` is done by one step that saves at most one row, or becomes
further items.  The file, its options and the lookup of people are data.  A
slug is the name it was made of, so a renamed office keeps another name's slug.
`Abort` is each exception that nobody catches (`Fails`), `Kill` the process's
end; both leave what was saved.  A title that the command does not know ends the
run where the person is known and is left out where not (`OtherTitle`).  Leavers
get the end date that the command is called with, which is none (section 7).
`served` is a history: the office that each entry of the file was given.

The assumptions say what a file and a database may be.  The offices of a file
have titles and identifiers of their own, and the dates it gives lie behind: it
starts people by today and ends them before today, with the whole of an
approximate date.  At first no name, slug or held title is there twice, nobody
is at an office that has ended, and a position without a title is of somebody
whom a file lists without one, which is how the command itself makes them.

### MessageWizard

A request holds a copy of the session from its beginning and replaces all of it
with its response, which is what Django's session does; so of two tabs the later
response wins.  `CreateMessage` is the call to the service: accepted and told,
accepted and not told, or not accepted.  Two things end a request without saving
the session: a worker that is killed (`Drop`), and an accepted answer that is not
JSON or has no id (`Raise`, `views.py` line 241).  The forms are validated again
before sending (`Validate`), except for the captcha (`FailedStep`); somebody may
leave between that and the call.  A draft is a number; ids of persons and of committees are the
same numbers, as in the code.

## 4. Runs: what is checked

| Run | Module, cfg |
|---|---|
| source_processing | `MCSourceProcessing`, `SourceProcessing.cfg` |
| list_pages | `MCListPages`, `ListPages.cfg` |
| speaker_assignment | `MCSpeakerAssignment`, `SpeakerAssignment.cfg` |
| za_hansard_import | `MCZAHansardImport`, `ZAHansardImport.cfg` |
| question_matching | `MCQuestionMatching`, `QuestionMatching.cfg` |
| sayit_questions | `MCSayItQuestions`, `SayItQuestions.cfg` |
| committee_reports | `MCCommitteeReports`, `CommitteeReports.cfg` |
| tasks | `MCTasks`, `Tasks.cfg` |
| person_records | `MCPersonRecords`, `PersonRecords.cfg` |
| position_commands | `MCPositionCommands`, `PositionCommands.cfg` |
| constituency_offices | `MCConstituencyOffices`, `ConstituencyOffices.cfg` |
| message_wizard | `MCMessageWizard`, `MessageWizard.cfg` |

All of them hold, and each property has a mutant of the code in its module that
breaks it.

**source_processing.**  Four sources: `s1` and `s3` are the two Houses' copies
of one joint sitting, `s2` has a meeting of its own between them, `s4`, the
oldest, is gone from the site.  Two kills or refused statements, one outage,
one deletion.  `PublishedWhole`: entries and success come together.
`JointSittingOnce`: at most one copy has a sitting.  `NothingLost`: without a
kill or a deletion each attempted source that parses is published, itself or
its copy.  `TriedOnce`: no attempted source is taken up again.
`UnblockedAttempted`: what is newer than the dead link is attempted in the end.
`ImplementsArchive`: the import refines `TranscriptArchive`.
Two copies are enough for the joint sitting, since there are two Houses; a
third source between them in the order lets a run end, or a deletion happen,
between the copies; two failures make a failure followed by a failing recovery.
*Not* covered: after one failure between `SaveSitting` and `SaveEntries` a
sitting stays empty, and the other copy of a joint sitting is skipped because
of it.  `NothingLost` says precisely that nothing less than that loses a
transcript.

**list_pages.**  Two lists, pages of two links, up to five transcripts on each
list (three pages, the last one not full), one new transcript between two
requests, one abort.  `NoHole`: without aborts, everything older than a known
transcript is known.  `CheckAllComplete`: a crawl with `--check-all` knows, at
its end, all that was listed at its start.  `MaxBetween` is below the page size
because the property needs it: if a whole page of transcripts appears between
two requests, the page that follows repeats known links and the crawl stops
before the older unknown ones.  On the site a page has many links and a request
takes seconds.

**speaker_assignment.**  An ambiguous name three times: on one day in the Senate
and in the National Assembly, where one of the two politicians sits in each, and
on an older day in a house of neither; and a seat with a party.  The two
politicians may be added while the command runs; two edits by staff of any kind;
one kill.  The second speech of the newer day is given the answer remembered for
the first.  `AliasRespected`: what is committed follows a verdict that the alias
table had during the run (`said`), whatever staff change in which step.
`MatchesDateAndName`: undisturbed (`quiet`), a remembered answer is that of a
speech of the same date and name; it may be the one of the other house, so that
`MatchesItself` is violated in this instance (section 7).  `OnlyUnassignedFilled`:
a speaker is replaced only if staff set it in the form of the entry since the run
began (`byHand`, which each run resets).  `EventuallyListed`: a name without a
person is in the table from some time on.  Two edits make an alias change after
another, or a deletion and an addition around the row in hand.  The run starts
from days on which processing has ended normally (see the hazard at
`bin/update_hansard.bash`).

**za_hansard_import.**  Three documents, one of which does not parse; one failed
request or import, one kill, two commands of staff.  `XmlBehindSuccess`: a
success has an XML file, and the whole one unless a kill tore something.
`ImportedOnce`: undisturbed, marks and copies agree.  `FewUntagged`: each
mishap leaves at most one copy that `--delete-existing` cannot find, and the
commands of staff leave none.  `EventuallyImported`: a source whose attempt met
no mishap is imported in the end, whatever happens to others.  Documents only
meet in `todo` and in `--delete-existing`, so a third one is there to be the
bad one among good ones; two commands are what a redo and a reimport take.

**question_matching.**  Four items in two successive terms: two with one number,
a transferred one that shares one of two numbers with the second and so clashes
with it, and one that may be a question scraped before.  An older question and
two older answers; one answer has a number of the first term's item, of the
second term's and of the third item, so that the import may give it to two
questions and `match_answers` to a question of the other term.  `AnswersFit`:
what a question is given has a number of it, and is of its term or has no other
question to go to.  `OneToOne` is `NoHalfImport` (a question of the API has its
answer at every moment) and `OneQuestionEach`, which excepts what the import
does: it takes the first answer that has all the numbers of an item
(`za_hansard_q_and_a_scraper.py` line 387) without asking for its question.
`TextsArriveToStay` is `TextsArrive` and `TextKept`.  A bad file in the cache,
left by a kill or by what the site answered, is never fetched again: its answer
gets part of its text, or none in any run; `TextsArrive` excepts those answers
by the state of their file.  `UnblockedImported` is stated for what is listed up
to the item that clashes: the clash ends every run at the same item, and that is
the code's behaviour.

**sayit_questions.**  Two questions, one of which has only its paper as source;
two exceptions, two kills, all the steps by cron or the last one by hand.
`MarksTrue`, `FewDuplicates` (a mishap doubles a question at most once; an
answer is never doubled), `EventuallyIn`.  Sections are independent of each
other; the second question is there because `SaveRefused` ends the run for all.

**committee_reports.**  An old report that the mapping leads to, an old one
that it does not lead to, and the API's report of the same meeting, in one
section; two committees; minutes of up to two appearances that change twice; one
failed request or import, one kill, one import by hand.  `OldReportsKept`: an
old report never ends with fewer appearances, except when a kill fell between
its deletion and its last save.  `PagesRight`: a marked page shows its file as a
whole or nothing (`PageWhole`), and never two reports at a time
(`OneReportPerSection`).  `EventuallyShown`: whatever happened, the minutes are
shown in the end.  Two appearances make a report half saved; two edits make
minutes shrink after they grew.

**tasks.**  One person, two kinds of contact, two requests of staff and two of
volunteers at a time, four edits, two views of the page.  `TasksMatch`: one task
for each missing contact and no other, until two requests on the person overlap
or a page saves a task that was deleted under it; the next save that nothing
overtakes repairs it.  `DeferralsStand`: attempts are counted (`AttemptsCounted`)
and a deferral of days is not cut short (`DeferralKept`), except from a copy
that was overtaken.  Editors are alike and so are volunteers, hence the symmetry.

**person_records.**  Three people, of whom one is added while the commands run,
and a speech of each of the other two; any merges, one kill.  `SpeechesTogether`:
a speech stays with the speaker of the person its author has become, and nobody
has two speakers or half of one (`OneSpeakerEach`); what is excepted is counted
in `strayed`.  `SlugsFollow`: after a synchronisation that nothing disturbed a
slug resolves to that speaker, through one redirect.  `EventuallyKnown`: the
aborts that merges cause do not keep anybody unknown.  Three people are what a
chain of two merges takes.

**position_commands.**  Any three commands over five tables of rows: duplicates,
a missing, a changed and a withdrawn code, a coalition that was left, broken rows
of a member of parliament; three states of the IEBC's site, one with two
candidates of one name; one kill, edit, new candidate or new day.  `RaceInOrder`
says what undisturbed runs of the aspirants' update bring about.  After two,
every candidate who is nobody else (`Sure`) stands under the code and in the
party that the IEBC gives (`CandidatesStand`, `InOneParty`); two, because the
first run ends what it read before it changed it.  Nobody stands under a code
that was withdrawn after as many runs as there are rows with it (`WithdrawnEnd`),
because a run reads one of them (lines 201 and 291-295); the instance has three.
From the third run on nothing else changes (`RunsSettle`).
`CoalitionsFollow`, `NobodyLost` (all but one for each kill and edit are in the
new party, unless the IEBC has decided since), and
`RowsMeanDays`, that every row a command leaves is found by the queries on the
days its dates mean.  The calendar has one year of one month of three days, which
is enough for a day before and a day after today; `Positions_proofs` is about
all calendars.

**constituency_offices.**  Four runs with any of six files over three
databases, two of them killed.  The files have an office that another one
contests by name or code, one that a later entry of the same file takes, one of a
party that is not there, one without a contact, a title the command does not
know, old offices to end, and searches.  `FileInPlace`: of each entry whose office
no later entry of the file took (`Lasting`), a run that ends leaves the office as
the file has it (`OfficesThere`) and its people in their positions, also those
who were new (`PeopleThere`); everybody has the last number given (`NumbersThere`);
and the same file again changes nothing (`RunsSettle`).  An entry without an
identifier that finds an office by its name, and a later one with that office's
identifier and another name, get one office, and the file's first office is gone
(lines 190-204 and 227-232): that is the code's behaviour, and the instance has
such a file.  `NothingTwice`: no name, slug or held title is there twice, and
positions without a title are left by kills only.  `OldOfficesEnd`.  Four runs are
two files against each other, each followed by its repetition.

**message_wizard.**  Two tabs, both wizards, six requests (a whole message takes
four), two drafts, one overlap, one request that leaves its session unsaved, one
recipient who leaves.  `NoneTwice`: a draft is sent once (`OncePerDraft`) and each
message is paid for with a captcha (`CaptchaEach`), but for overlaps and unsaved
sessions.  `NoStranger`: nobody is written to whom the form did not offer when the
page "done" was asked for, though they were chosen before somebody left, or in
the other wizard.  An id that is on offer in both may still be taken for its
counterpart (section 7).

**Bounds.**  `MaxFailures`, `MaxOutages`, `MaxDeletes`, `MaxErrors`,
`MaxCommands`, `MaxStaff`, `MaxAborts`, `MaxPublished`, `MaxBetween`,
`MaxNames`, `MaxByHand`, `MaxEvents` and `MaxKills` only bound how often the
environment acts; the daily commands run again and again in every behaviour.
Where all that happens is somebody's doing, what is done is bounded: `MaxRuns`
of commands in `PositionCommands` and `ConstituencyOffices`, `MaxEdits`,
`MaxViews` and `MaxTasks` in `Tasks`, `MaxRequests`, `MaxDrafts`, `MaxOverlaps`,
`MaxDrops` and `MaxLeaving` in `MessageWizard`.

**Deadlock.**  Checked wherever cron can always start a command.
`SourceProcessing` and `SpeakerAssignment` start a run only when there is work,
so their systems may rest, and the check is off.  It is off as well for `Tasks`,
`PositionCommands`, `ConstituencyOffices` and `MessageWizard`, which end with
the last of the bounded commands or requests; they have no queue in which
anybody could wait for ever.

## 5. Fairness

- `WF_vars(RunStep)`: cron starts the commands daily and the operating system
  lets them run.  It says nothing about requests that fail, kills or staff.
- `WF_vars(FileFails /\ cur \in Gone)` in `SourceProcessing`: a request for a
  page that is gone is answered, with an error.  No other failure is fair.
- `WF_vars(RunStep \/ \E d \in Doc : ImportFails(d))` in `ZAHansardImport`: a
  file that does not load makes the loader log and go on.
- `SF_vars(StartRun)` in `SayItQuestions`, `SF_vars(StartParsing)` and
  `SF_vars(StartLoading)` in `ZAHansardImport`: staff or the other command may
  occupy the process again and again, so the start is not continuously
  possible; cron starts it every day all the same.
- `WF_vars(RunStep)` in `CommitteeReports`, and of the synchronisation's steps in
  `PersonRecords`: cron again.
- `Tasks`, `PositionCommands`, `ConstituencyOffices` and `MessageWizard` assume
  no fairness and state no liveness: they are used by people.
- Nothing is assumed of the sites, of the crawler's luck, or of staff.

## 6. Proofs

`SourceProcessing_proofs` proves, for every set of sources, every order, every
set of dead and unparseable ones and any number of failures:

| Theorem | States |
|---|---|
| `TypeCorrect` | `Spec => []TypeOK` |
| `Publication` | `Spec => []PublishedWhole` |
| `JointOnce` | `Spec => []JointSittingOnce` |
| `NeverRetried` | `Spec => TriedOnce` |
| `LossNeedsAMishap` | `Spec => []NothingLost` |
| `Refinement` | `Spec => ImplementsArchive` |

The assumptions are those of the module: ranks are numbers and distinct, `Gone`
and `Unparseable` are sets of sources, `None` is not one.

`PublishedWhole` and `JointSittingOnce` are not inductive.  A step
`SaveEntries` keeps them only if the source in hand has a sitting and no
entries; `SaveSitting` only if it has no sitting yet; and that goes back to the
moment the source was taken from the queryset.  The invariant `Inv` therefore
adds two parts: `InHand` (the source in hand is not in the rest of the
queryset, is unattempted until `Mark` and attempted or deleted after it, and
nothing in the rest is attempted) and `Sat` (only attempted sources have a
sitting, at most one; the one in hand has none before `SaveSitting` and one
without entries after it).  `TypeOK` is a conjunct because the steps need it.
There is one lemma per kind of step (`ListInv`, `DeleteInv`, `StoppedInv` for
all the ways to end, `RunStepInv` with one case per action).

`NothingLost` needs a second invariant, `Clean`, on top of `Inv`: as long as
no mishap happened there are no ghosts, no bad files, and a sitting without
entries belongs to the source in hand, so that `SkipDuplicate` skips only what
is published.  `Refinement` maps each action to a step of the archive or to a
stutter: `Mark` is `Try` (from `"unlisted"` for a ghost), `SaveEntries` is
`Publish`, whose guard is what `Inv` gives.

The second part of `SourceProcessing_proofs` is about `ConstituencyOffices`, for
any files and databases of section 3, any calendar, and any number of runs,
exceptions and kills (`OfficeAssumption`, `FilesAssumption`,
`DatabasesAssumption`, those of `Positions`):

| Theorem | States |
|---|---|
| `NothingStaysTwice` | `OfficesSpec => []NothingTwice` |
| `OldOfficesStayEnded` | `OfficesSpec => []OldOfficesEnd` |

An item is right because of what was read when it was put on `agenda`, so the
invariant (`OfficesInv`) says what an item may still rely on when its turn
comes.  `Ordered`: items stand in the order of `Turn` (ends, the save of an
office, its people, the next office, the old offices), a rename, a new person's
position and a title only at the front, and each is about rows and entries that
are there (`Grounded`).  `Visited`: the office that is visited goes on and has a
name of the file, or will.  `Unique`: the name, the person or the title that is
saved next is not there yet; with `Single` and `OneOfficeEach` this is what
keeps rows from being there twice.  `UntitledFew` and `HauntedFew` count the
positions without their title and the ended offices with people, but for the
one that the next items are about; a kill adds that one and nothing else does.
`Ending` says that each office that remains to be ended is on `agenda`.  TLC has
checked each part on the instance of the run.

`ZAHansardImport_proofs` proves, for every set of documents and any number of
failed requests, kills and commands of staff:

| Theorem | States |
|---|---|
| `TypeCorrect` | `Spec => []TypeOK` |
| `SuccessHasXml` | `Spec => []XmlBehindSuccess` |
| `ImportsOnce` | `Spec => []ImportedOnce` |
| `FewCopiesStay` | `Spec => []FewUntagged` |

The only assumption is `ImportAssumption`.  The invariant has four parts.
`InHand` says what the steps before the present one have left: a document
before it is converted, an XML file before the success is saved, a parsed
source and an untagged copy before the row is marked.  `HasXml` is the core of
`XmlBehindSuccess`.  `Whole` adds that without a kill no file is torn, and
`Once` that undisturbed the loader's queryset and the imported rows are
disjoint, so that no step adds a second copy.  `FewUntagged` counts the copies
that have no tag by numbering those of each document (`Untagged`), so that a
step adds or removes one element, or all of a document, and the cardinality of
a finite set (`Few`) does the rest.

`Positions_proofs` proves, for every calendar of whole years with up to twelve
months and every position, and then for any number of commands, kills, edits and
news, any rows at first and anything the IEBC may publish:

| Theorem | States |
|---|---|
| `QueriesAgree` | the queries of `PositionQuerySet` over sort strings, and `is_active_at_date`, select by the days that `approximate_date_to_date` gives |
| `OverlapsAgree` | `overlapping_dates` finds a position just if a day of the range may lie within it |
| `RowsAgree` | `TypeOK => RowsMeanDays`, so the invariant of the run follows from the type of the rows |
| `TypesHold` | `Spec => []TypeInv`, which implies `[]TypeOK` |
| `RowsKeepMeaning` | `Spec => []RowsMeanDays` |
| `CoalitionsStayTrue` | `Spec => []CoalitionsFollow` |
| `NobodyStaysOut` | `Spec => []NobodyLost` |

The argument compares strings and days case by case: unknown days and months
are 00 at the start and 99 at the end, which are below the first and above the
last day (`StartsAgree`, `EndsAgree`), and the words lie outside of all years.
The assumptions are that years lie between 2 and 9998, since `past` and `future`
are stored as the years 1 and 9999 or more, and that months have up to 31 days.
The calendar is a constant; the run uses a small one.

The types are not inductive by themselves: a save may write a row that is gone,
and a step of `--fix` needs one that is not.  `TypeInv` adds what the items of
the command in hand are (`Work`): of `--fix`, rows that are there; of any other,
ids that have been given and codes that are published.  Since each command makes
its items from the rows it reads, what it may make is stated once, for any set
of items that contains them (`Closed`), and each command and each item that
becomes others is shown to stay in it (`CommandsBegin`, `StepTakes`).  The same
lemmas, with `Named(key)` for the set, then show that an item carries the
person, organisation, title and start that its row has (`KeyInv`: there is one
such key for each id), also when the row was deleted in between.  So no stale
save makes a row another's or another party's.

`LossCount` counts those of `NobodyLost` between two steps.  Of all that were to
change party, those are provided for who are in the new one from the day on
(`Arrives`), or whose old membership the command will find (`Waits`), or whose
new one is the next to be saved (`Moves`); the others are no more than the kills
and edits.  A row only counts if no command is about to delete it (`Doomed`).
`LossWork` says what the commands have left to do: that of `--fix` is about
members of parliament, the change of party has at most the two saves of one
person in hand (`SwitchWork`), and what else is saved ends no membership of a
party (`OtherWork`), so that a row that was found before is found again, or the
one like it that removing duplicates leaves (`RowsOn`).  A kill then costs the
person in hand (`KillLoses`) and an edit the person of the row (`ApplyLoses`).
After the aspirants' update the count begins anew, since that gives and ends
memberships as the IEBC has it.

`CoalitionInv` says, while nothing disturbs
the command for coalitions, what is on its way: its items are of its own kind and
for coalitions that are due (`LoopItems`, `HandItems`), a coalition that is not
due is held only if the second loop will end it (`NoneOver`), and one that is due
is still to come or is held and will not be ended (`NoneMissing`); at the end,
with nothing left to do, that is `CoalitionsFollow`.  TLC has checked `TypeInv`,
`CoalitionInv` and what `LossCount` and `LossWork` say on the instance of the run.

`ListPages_proofs` proves, for any number of lists, pages of any size and any
number of transcripts and crawls:

| Theorem | States |
|---|---|
| `TypeCorrect` | `Spec => []TypeOK` |
| `LeavesNoHole` | `MaxBetween < PageSize` implies `Spec => []NoHole` |
| `ChecksAll` | `Spec => CheckAllComplete` |

`NoHole` speaks of the moments between crawls; within one there is a hole,
because the newest transcripts are stored first.  `GapOnly` says that it is one
hole and where: below some transcript `f` which is still to come on the page in
hand (`LinkGap`), which the next page starts with, or starts above (`FetchGap`),
or which is the last of the page that was walked (`PageGap`).  A page is
counted from what the list held when it was requested (`AtRequest`), since the
list grows while the page is walked: when the next one is requested, up to
`MaxBetween` transcripts have come in between, so it starts that many links above
`f`.  If they are fewer than a page has links, its last link is at `f` or below,
and the stop rule sees it.  That hypothesis is needed: with a page or more
between two requests all links of the next page are known, and the crawl ends
above the gap.  It holds of the instance of the run (1 against 2), and of a site
that adds a few transcripts a day.  `CheckAllComplete` needs no such bound: its
invariant, `Passed`, says that all between the oldest link handled and the
newest at the start of the walk is known, and `EmptyFirst` that only the first
page of a list can be empty.  `TypeCorrect` adds that no page is requested that
the list does not have (`Bounded`, `PageExists`).

The second part of `ListPages_proofs` is about `SayItQuestions`, for any number of
questions, exceptions, kills and deletions of papers (`SayItAssumption`):

| Theorem | States |
|---|---|
| `SectionsMarked` | `SayItSpec => []MarksTrue` |
| `DuplicatesStayFew` | `SayItSpec => []FewDuplicates` |

`ImportInHand` says what the row in hand has had done and what the rest of the
queryset has not.  `ImportClean` is `MarksTrue` with the row in hand and with
what makes it last: undisturbed, an answer has a file only if its question has,
so that the first loop leaves no question for which the second would be too
early.  `QuestionsCounted` gives each section one question for its mark, set or
about to be set, and one for each mishap; `AnswersCounted` is the limit of
two speeches, which an import repeats without adding a second answer.

`SpeakerAssignment_proofs` proves, for all speeches, names and politicians, any
outcome of the search, and any number of edits and kills:

| Theorem | States |
|---|---|
| `TypeCorrect` | `Spec => []TypeOK` |
| `NoneReplaced` | `Spec => OnlyUnassignedFilled` |
| `DecisionsRespected` | `Spec => AliasRespected` |
| `SpeakerOfDateAndName` | `Spec => MatchesDateAndName` |

`Pending` carries the first from the loading of the speeches to their commits:
what is still to be saved had no speaker when it was loaded, and only staff
gave it one since.  The others are about the cache, for any keys: `Remembered`
says that each remembered answer follows a verdict of this run on the name of a
speech with that key, `Noted` that the history `said` knows the table of now, and
`OwnAnswers` that, undisturbed, each remembered answer is the one that the lookup
of some speech with that key would give now (`DecisionsStay`: the aliases that an
undisturbed run deletes were undecided).  "Some speech with that key" cannot be
made "the speech itself": that is where the code fails (section 7).

`QuestionMatching_proofs` proves, for all items of the API and older rows,
whatever their numbers and terms, and any number of failures and kills:

| Theorem | States |
|---|---|
| `WholeImports` | `Spec => [](TypeOK /\ NoHalfImport)` |
| `NumberInCommon` | at every moment a question shares a number with its answer |
| `TextStays` | `Spec => TextKept` |
| `AnswersOfTheirNumbers` | `Spec => AnswersFit` |
| `AssociatedOneToOne` | `Spec => []OneToOne` |

The invariant is `TypeOK`, `NoHalfImport` and four parts: `InLoop` (what is left
to walk is listed, is unread, or has no question yet: this goes stale only
through the command's own steps), `TextsRead` (an answer with a text is not
processed again), `NumbersFit`, and `NoClash` (no two questions in the table have
numbers in common within a term).  `AnswersFit` splits by what gives an answer:
the import takes rows of the item's term that have all its numbers
(`ImportGives`), and `match_answers` goes on only with a single candidate
(`OneCandidate`).  `OneQuestionEach` is then inductive: a matched answer had no
question (`InLoop`), and an imported one is between the item's own rows.
Nothing is assumed of numbers and terms.

`CommitteeReports_proofs` proves, for all committees, reports and sections, and
any number of edits of the minutes, failures, kills and imports by hand:

| Theorem | States |
|---|---|
| `TypeCorrect` | `Spec => []TypeOK` |
| `OldKept` | `Spec => []OldReportsKept` |
| `SectionsRight` | `Spec => []PagesRight` |

`Replaced` carries the guard of `get_appearances` over the deletion: as long as
no kill hurt the report, the appearances that are about to be saved are as many
as it ever had.  `Whole` says which sections show which file at each step of the
importer, and which show nothing; `EmptySection` that a report is added to an
empty section, which `OneReportPerSection` needs for the step that adds it.
`Origins` and `InHand` say where files, pages and the report in hand come from.

The second part of `CommitteeReports_proofs` is about `MessageWizard`, for any finite
number of tabs, any recipients, and any number of requests, drafts, overlaps and
lost answers (`WizardAssumption`):

| Theorem | States |
|---|---|
| `SentOnce` | `WizardSpec => []NoneTwice` |
| `SentToOffered` | `WizardSpec => []NoStranger` |

The argument is a budget for each draft and one for captchas (`Budget`): the
messages sent with it, the requests in flight that could still send it or leave
it in the session (`Holders`), and the session itself when no request is about
to replace it (`Kept`), are together no more than what was given out, plus
the overlaps and the lost answers.  A page "done" moves a unit from the request
to the messages; two requests that overlap have both loaded it, and that is the
unit the overlap pays for.  For `SentToOffered`, `ChecksMade` carries what the
forms found from `Validate` to the call, and from the moment the page was asked
for that whoever is on offer was on offer then.

`PersonRecords_proofs` proves, for any finite number of people that may ever
have a record, any speeches, merges, kills and aborts:

| Theorem | States |
|---|---|
| `SpeechesStay` | `Spec => []SpeechesTogether` |
| `SlugsLead` | `Spec => []SlugsFollow` |

That the people are finitely many is what counting them takes: `lastSpeaker` is
at most the number of people who ever had a record.  This is not inductive; the
people who have a record and no speaker are taken off (`SpeakersCounted`), so
that a new speaker is paid for by the person it is made for.  `Past` says that
`now` leads to somebody alive or to a record that is gone for good, `Imported`
that only speeches of people with a record are credited.  `Synced` carries
`SlugsFollow` through a synchronisation: what holds at its end for all slugs
holds at each of its steps for the people it has gone through, while nothing has
unsettled it.

Its second part is about `Tasks`, for any number of requests, pages, rows and
edits, finitely many people and kinds of contact (`TasksAssumption`):

| Theorem | States |
|---|---|
| `TasksStayMatched` | `TasksSpec => []TasksMatch` |
| `DeferralsCounted` | `TasksSpec => DeferralsStand` |

A request commits what it has read earlier.  `UpToDate` says what that is worth:
what a request that nothing has overtaken is to make and to drop is what it
would find now.  `Fresh` is the same for a page: its copy has the attempts of
the task and knows of a deferral by days, unless another save has made it
stale.  `Match` states `TasksMatch` without counting, as one task at least and
one at most (`Settled`, `OneEach`), for that is what steps preserve; the lemma
`MatchCounts` turns it into cardinalities at the end.

The refinement is stated with `INSTANCE TranscriptArchive WITH stage <- StageOf`,
checked as a property of source_processing and proved as `Refinement`.

Only model-checked: all liveness (the prover does not treat fairness and
`ENABLED`): `UnblockedAttempted`, `UnblockedImported`, `EventuallyListed`,
`EventuallyIn`, `EventuallyImported`, `EventuallyShown`, `EventuallyKnown`, and
the part of `TextsArriveToStay` that says that texts arrive (`TextStays` proves
the other); `FileInPlace` of `ConstituencyOffices`, which says what a whole run
brings about, and of `PositionCommands` `RaceInOrder`, which does so for several
runs of the aspirants' update.

## 7. Disagreements between the code and its texts

Each of these has a definition in its module, after a comment, a help text or a
test, that the code violates.  The runs do not list them; with the definition as
an additional property TLC shows a counterexample.

- **A dead link stops the import** (`SourceProcessing!AllAttempted`).  The
  attempt is recorded after the download (`hansard_process_sources.py` lines
  22-25), so the newest unattempted source with a dead URL ends every run and
  nothing older is ever processed, against "Process all sources that have not
  been done".
- **The cache forgets the house** (`SpeakerAssignment!MatchesItself`).  Its key is the date and the name
  (`entry.py` line 110), the answer depends on the house: the second of two
  speeches gets the member of the other house.  The tests for the two houses look
  the speeches up one at a time.  Nor does it tell two nominated members apart: it
  takes the speaker's name, which need say no more than "Nominated", while the name
  that is looked up is then the title (line 147).
- **A decision is deleted** (`SpeakerAssignment!DecisionsKept`).  The alias is
  deleted by id (`entry.py` line 230) after staff have assigned or ignored it;
  the comment speaks of "an unassigned alias", but the condition beside it names
  the method `is_unassigned` without calling it, so it is always true.
- **Answers cross terms** (`QuestionMatching!TermsFit`, violated in the run's own
  instance).  `match_answers` looks for number, year and house
  (`za_hansard_q_and_a_scraper.py` lines 526-530); the tests say that the same
  number in another term is another question.
- **The limit drops an answer** (`SayItQuestions!AnswerReadable`).  After a kill
  between import and mark the question is there twice, which is the limit; the
  answer is left out and marked as imported (`import_json.py` line 97).
- **Deleted and not reloaded** (`ZAHansardImport!ImportedReadable`).
  `--delete-existing` deletes the speeches and leaves the marks
  (`za_hansard_load_into_sayit.py` lines 59-81), so without `--reimport` nothing
  that was imported comes back.
- **A chain of merges loses a slug** (`PersonRecords!OldSlugsLead`).  "Make sure
  the old slug redirects to the object to keep" (`merge.py` line 137): redirects
  to the object that is merged away are left, and lead nowhere.
- **"Different" counts as "Same"** (`PositionCommands!NamesakesApart`).
  `check_same_and_update` answers true, false or nothing, the caller asks only
  whether it answered (`kenya_update_aspirants_from_iebc.py` line 250): a
  candidate whom staff found to be a different person of the same name gets that
  person's party and position, against "be careful that we're not mismatching".
- **The party is not represented** (`PositionCommands!BothRepresented`).  The
  overlap of two positions ends at the later of their ends
  (`core/models.py` line 1523), so an old membership keeps the fix from creating
  the one for the same period, against "We want to make sure that both of the
  positions are still represented afterwards"
  (`kenya_check_for_recurring_problems.py`).
- **Leavers stay** (`ConstituencyOffices!LeaversEnd`).  "find the positions to
  end" (`south_africa_update_constituency_offices.py` line 685): the command
  passes `None` as the end date (line 779), so the positions that are ended stay
  active.
- **One wizard sends to the other's recipients** (`MessageWizard!ChosenHere`).
  The storage is named after the class, which is the same for both.

Smaller observations made on the way: the blacklist of Pombola ids in
`importers/import_base.py` holds strings and is asked for integers, so it never
matches; the command for coalitions ends the memberships of people who are in a
coalition's party only, against its comment at line 296; an aspirant whose code
has changed is ended by the first run and stands again after the second; of
several rows of a withdrawn code each run ends one; two candidates of one name in
one race take turns, each run giving their rows another code; the
committees' `get_by_id` raises `Organisation.DoesNotExist`, and only
`Person.DoesNotExist` is caught; two items of the API that have one each of the
two numbers of an older answer are both given that answer, so that one answer
has two questions (`OneQuestionEach` excepts it); a document that antiword
refuses stays in the cache, so its answer has no text however often the command
runs (`TextsArrive` excepts it).

## 8. What is not modelled

- Conversions of documents (the rest of `kenya_parser.py`, `za_hansard/parse.py`,
  the committee reports' names): pure text processing; models take them as
  functions that answer or raise.
- The search for people by name in `SpeakerAssignment`, and the resolver of
  names in SayIt: constant relations, or left out.
- In `QuestionMatching`: papers, `correct_existing_sayit_import` and the log of
  conflicts.  In `ZAHansardImport`: `--id`, `--limit`, `--since`, languages
  other than English and the parsing log.
- Two instances of one command at once.
- In `ConstituencyOffices`: information sources, alternative names, the second
  kinds of contacts, and the municipality's place, which are saved like what is
  modelled; the first import and the commands that repaired it once.  The fuzzy
  lookup of people is exact.
- In `PositionCommands`: alternative names and photos; the gazette's file; the
  second half of `kenya_remove_duplicate_aspirants` (lines 111-180), which puts
  one person in the place of another whose legal name is an alternative name of
  the first, deletes the other and leaves a redirect.  In
  `MessageWizard`: the pages that only show what the service has.
- Merging of organisations and places, which move other tables the same way.
- Web pages, serialisers, search, geocoding, scorecards, experiments, surveys,
  budgets, bills, the register of interests, phone messages: they show tables,
  or store one row per request.
- One-off imports: sequential, run once, mostly data.

## 9. Plan

In this order, the behaviour that matters most first.

Done: `TranscriptArchive`, `SourceProcessing` and its proofs,
`SpeakerAssignment`, `ListPages`, `QuestionMatching`, `SayItQuestions`,
`ZAHansardImport` and its proofs, `CommitteeReports`, `Tasks`, `PersonRecords`,
`Positions` and its proofs, `PositionCommands`, `ConstituencyOffices`,
`MessageWizard`.

To model:

1. `HansardDay`: the three Kenyan commands composed under `set -e`, from a link
   on the list page to a speech with a speaker.
2. The Kenyan parser's state over lines, as a pure function against a grammar.
3. The election results of 2017 and the South African lists of candidates, which
   make positions like those of `PositionCommands`.

The number of runs is kept to a dozen and that of their properties to forty: a
new module's run takes the place of another or joins it.

Proved: the safety of `SourceProcessing`, `ListPages`, `SpeakerAssignment`,
`ZAHansardImport`, `QuestionMatching`, `SayItQuestions`, `CommitteeReports`,
`PersonRecords`, `Tasks` and `MessageWizard`, two invariants of
`ConstituencyOffices`, the queries of `Positions`, and of `PositionCommands` the
types, `CoalitionsFollow` and `NobodyLost`.

To prove, with an inductive invariant that TLC has checked first:

1. `ConstituencyOffices`: `OfficesThere` and `PeopleThere`, first for the files in
   which no entry takes an office from an earlier one.
2. `PositionCommands`: `RaceInOrder`.
