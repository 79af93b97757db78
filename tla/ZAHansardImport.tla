---------------------------- MODULE ZAHansardImport ----------------------------
(***************************************************************************)
(* The South African Hansard, from the sources of the PMG API to the       *)
(* sections and speeches of SayIt:                                         *)
(*   za_hansard_check_for_new_sources_from_pmg   lists the sources         *)
(*   za_hansard_run_parsing                      document -> XML file      *)
(*   za_hansard_load_into_sayit                  XML file -> SayIt         *)
(* Cron runs them daily without options; staff run them with --retry,      *)
(* --redo, --reimport or --delete-existing.  Nothing is in a transaction.  *)
(***************************************************************************)
EXTENDS Naturals, FiniteSets

CONSTANTS
    Doc,            \* document numbers of the API
    Garbled,        \* documents ZAHansardParser cannot parse
    None,
    MaxErrors,      \* bound: failed requests and imports
    MaxFailures,    \* bound: kills of a command
    MaxCommands     \* bound: commands given by staff

ASSUME ImportAssumption ==
    /\ Garbled \subseteq Doc /\ IsFiniteSet(Doc) /\ None \notin Doc
    /\ MaxErrors \in Nat /\ MaxFailures \in Nat /\ MaxCommands \in Nat

VARIABLES
    listed,         \* Source rows
    attempted,      \* last_processing_attempt is set
    succeeded,      \* last_processing_success is set
    is404,
    imported,       \* sayit_section is set
    doc,            \* the cached document of a row
    xml,            \* the XML file beside it
    tagged,         \* Doc -> copies in SayIt whose speeches have the tag
    untagged,       \* Doc -> copies with speeches that lack it
    pc, todo, cur,
    hurt,           \* history: an attempt met a failed request or a kill
    errors, failures, commands

rows  == <<listed, attempted, succeeded, is404, imported>>
cache == <<doc, xml>>
sayit == <<tagged, untagged>>
run   == <<pc, todo, cur>>
vars  == <<rows, cache, sayit, run, hurt, errors, failures, commands>>

TypeOK ==
    /\ succeeded \subseteq attempted /\ attempted \subseteq listed /\ listed \subseteq Doc
    /\ imported \subseteq succeeded
    /\ doc \in [Doc -> {"none", "part", "whole"}]
    /\ xml \in [Doc -> {"none", "torn", "part", "whole"}]
    /\ \A d \in is404 : d \in attempted /\ doc[d] = "none"
    /\ tagged \in [Doc -> Nat] /\ untagged \in [Doc -> Nat]
    /\ pc \in {"idle", "parse", "fetch", "convert", "save", "load", "mark", "tag"}
    /\ todo \subseteq listed /\ cur \in listed \cup {None}
    /\ hurt \subseteq Doc
    /\ errors \in 0..MaxErrors /\ failures \in 0..MaxFailures /\ commands \in 0..MaxCommands

Init ==
    /\ listed = {} /\ attempted = {} /\ succeeded = {} /\ is404 = {} /\ imported = {}
    /\ doc = [d \in Doc |-> "none"] /\ xml = [d \in Doc |-> "none"]
    /\ tagged = [d \in Doc |-> 0] /\ untagged = [d \in Doc |-> 0]
    /\ pc = "idle" /\ todo = {} /\ cur = None
    /\ hurt = {} /\ errors = 0 /\ failures = 0 /\ commands = 0

Start(step, sources) == pc = "idle" /\ pc' = step /\ todo' = sources /\ cur' = None

Goto(step) == pc' = step /\ UNCHANGED <<todo, cur>>

(* With the source in hand done, or left with a log entry.                 *)
Continue(step) == pc' = step /\ cur' = None /\ todo' = todo

End(step) ==
    /\ pc = step /\ todo = {}
    /\ pc' = "idle" /\ todo' = {} /\ cur' = None
    /\ UNCHANGED <<rows, cache, sayit, hurt, errors, failures, commands>>

ByStaff == commands < MaxCommands /\ commands' = commands + 1

Error == errors < MaxErrors /\ errors' = errors + 1

-----------------------------------------------------------------------------
(* za_hansard_check_for_new_sources_from_pmg.                              *)

List(d) ==
    /\ pc = "idle"
    /\ d \notin listed
    /\ listed' = listed \cup {d}
    /\ UNCHANGED <<attempted, succeeded, is404, imported, cache, sayit, run, hurt,
                   errors, failures, commands>>

(* --delete-existing; a row that is created anew has a new id, and with it *)
(* new names for its files.                                                *)
DeleteSources ==
    /\ pc = "idle"
    /\ ByStaff
    /\ listed' = {} /\ attempted' = {} /\ succeeded' = {} /\ is404' = {} /\ imported' = {}
    /\ doc' = [d \in Doc |-> "none"] /\ xml' = [d \in Doc |-> "none"]
    /\ hurt' = {}
    /\ UNCHANGED <<sayit, run, errors, failures>>

-----------------------------------------------------------------------------
(* za_hansard_run_parsing.                                                 *)

requires_processing == listed \ attempted

requires_completion(retry_download) ==
    listed \ (succeeded \cup (IF retry_download THEN {} ELSE is404))

StartParsing ==
    /\ Start("parse", requires_processing)
    /\ UNCHANGED <<rows, cache, sayit, hurt, errors, failures, commands>>

StartParsingAgain(redo, retry_download) ==
    /\ ByStaff
    /\ Start("parse", IF ~redo THEN requires_completion(retry_download)
                      ELSE IF retry_download THEN listed ELSE listed \ is404)
    /\ UNCHANGED <<rows, cache, sayit, hurt, errors, failures>>

Attempt(d) ==
    /\ pc = "parse" /\ d \in todo
    /\ attempted' = attempted \cup {d}
    /\ pc' = "fetch" /\ cur' = d /\ todo' = todo \ {d}
    /\ UNCHANGED <<listed, succeeded, is404, imported, cache, sayit, hurt,
                   errors, failures, commands>>

FileFromCache ==
    /\ pc = "fetch" /\ doc[cur] # "none"
    /\ Goto("convert")
    /\ UNCHANGED <<rows, cache, sayit, hurt, errors, failures, commands>>

FileFetched ==
    /\ pc = "fetch" /\ doc[cur] = "none"
    /\ is404' = is404 \ {cur}
    /\ doc' = [doc EXCEPT ![cur] = "whole"]
    /\ Goto("convert")
    /\ UNCHANGED <<listed, attempted, succeeded, imported, xml, sayit, hurt,
                   errors, failures, commands>>

(* Any status but 200 sets is404; without an answer nothing is saved.      *)
FileFails ==
    /\ pc = "fetch" /\ doc[cur] = "none"
    /\ Error
    /\ is404' \in {is404, is404 \cup {cur}}
    /\ hurt' = hurt \cup {cur}
    /\ Continue("parse")
    /\ UNCHANGED <<listed, attempted, succeeded, imported, cache, sayit, failures, commands>>

(* The XML is that of the document, or of the part that is in the cache.   *)
WriteXml ==
    /\ pc = "convert" /\ cur \notin Garbled
    /\ xml' = [xml EXCEPT ![cur] = doc[cur]]
    /\ Goto("save")
    /\ UNCHANGED <<rows, doc, sayit, hurt, errors, failures, commands>>

ParseFails ==
    /\ pc = "convert" /\ (cur \in Garbled \/ doc[cur] = "part")
    /\ Continue("parse")
    /\ UNCHANGED <<rows, cache, sayit, hurt, errors, failures, commands>>

(* Mutant: the row is not saved after the file is written.                 *)
SaveSuccess_NotSaved ==
    /\ pc = "save"
    /\ Continue("parse")
    /\ UNCHANGED <<rows, cache, sayit, hurt, errors, failures, commands>>

SaveSuccess ==
    /\ pc = "save"
    /\ succeeded' = succeeded \cup {cur}
    /\ Continue("parse")
    /\ UNCHANGED <<listed, attempted, is404, imported, cache, sayit, hurt,
                   errors, failures, commands>>

-----------------------------------------------------------------------------
(* za_hansard_load_into_sayit.                                             *)

(* Mutant: sources that have a section are loaded again.                   *)
unloaded_All == succeeded

unloaded == succeeded \ imported

StartLoading ==
    /\ Start("load", unloaded)
    /\ UNCHANGED <<rows, cache, sayit, hurt, errors, failures, commands>>

(* With delete_existing, every speech with the tag is deleted before.      *)
StartLoadingAgain(reimport, delete_existing) ==
    /\ ByStaff
    /\ Start("load", IF reimport THEN succeeded ELSE unloaded)
    /\ tagged' = IF delete_existing THEN [d \in Doc |-> 0] ELSE tagged
    /\ UNCHANGED <<rows, cache, untagged, hurt, errors, failures>>

(* import_document makes a new section for every import.                   *)
Import(d) ==
    /\ pc = "load" /\ d \in todo
    /\ xml[d] \in {"part", "whole"}
    /\ untagged' = [untagged EXCEPT ![d] = @ + 1]
    /\ pc' = "mark" /\ cur' = d /\ todo' = todo \ {d}
    /\ UNCHANGED <<rows, cache, tagged, hurt, errors, failures, commands>>

(* An exception, which may leave a part of the speeches behind.            *)
ImportFails(d) ==
    /\ pc = "load" /\ d \in todo
    /\ xml[d] # "none"
    /\ \/ /\ xml[d] = "torn"
          /\ UNCHANGED <<untagged, errors>>
       \/ /\ xml[d] # "torn" /\ Error
          /\ untagged' \in {untagged, [untagged EXCEPT ![d] = @ + 1]}
    /\ pc' = "load" /\ cur' = None /\ todo' = todo \ {d}
    /\ UNCHANGED <<rows, cache, tagged, hurt, failures, commands>>

MarkImported ==
    /\ pc = "mark"
    /\ imported' = imported \cup {cur}
    /\ Goto("tag")
    /\ UNCHANGED <<listed, attempted, succeeded, is404, cache, sayit, hurt,
                   errors, failures, commands>>

(* Mutant: the speeches of the subsections are left out.                   *)
TagSpeeches_SectionOnly ==
    /\ pc = "tag"
    /\ Continue("load")
    /\ UNCHANGED <<rows, cache, sayit, hurt, errors, failures, commands>>

TagSpeeches ==
    /\ pc = "tag"
    /\ tagged' = [tagged EXCEPT ![cur] = @ + 1]
    /\ untagged' = [untagged EXCEPT ![cur] = @ - 1]
    /\ Continue("load")
    /\ UNCHANGED <<rows, cache, hurt, errors, failures, commands>>

-----------------------------------------------------------------------------
Killed ==
    /\ pc # "idle" /\ failures < MaxFailures
    /\ failures' = failures + 1
    /\ hurt' = IF pc \in {"fetch", "convert", "save"} THEN hurt \cup {cur} ELSE hurt
    /\ pc' = "idle" /\ todo' = {} /\ cur' = None
    /\ UNCHANGED <<errors, commands>>

Crash ==
    /\ Killed
    /\ UNCHANGED <<rows, cache, sayit>>

(* is404 is saved before the file is opened and written.                   *)
CrashWritingFile ==
    /\ pc = "fetch" /\ doc[cur] = "none"
    /\ Killed
    /\ is404' = is404 \ {cur}
    /\ doc' \in {doc, [doc EXCEPT ![cur] = "part"]}
    /\ UNCHANGED <<listed, attempted, succeeded, imported, xml, sayit>>

(* Mutant: the row is saved before the file is written.                    *)
CrashWritingXml_SavedBefore ==
    /\ pc = "convert" /\ cur \notin Garbled
    /\ Killed
    /\ succeeded' = succeeded \cup {cur}
    /\ UNCHANGED <<listed, attempted, is404, imported, cache, sayit>>

CrashWritingXml ==
    /\ pc = "convert" /\ cur \notin Garbled
    /\ Killed
    /\ xml' = [xml EXCEPT ![cur] = "torn"]
    /\ UNCHANGED <<rows, doc, sayit>>

RunStep ==
    \/ FileFromCache \/ FileFetched \/ WriteXml \/ ParseFails \/ SaveSuccess
    \/ MarkImported \/ TagSpeeches
    \/ End("parse") \/ End("load")
    \/ \E d \in Doc : Attempt(d) \/ Import(d)

Next ==
    \/ RunStep \/ FileFails \/ Crash \/ CrashWritingFile \/ CrashWritingXml
    \/ StartParsing \/ StartLoading \/ DeleteSources
    \/ \E d \in Doc : List(d) \/ ImportFails(d)
    \/ \E again, option \in BOOLEAN :
         \/ StartParsingAgain(again, option)
         \/ StartLoadingAgain(again, option)

Spec == Init /\ [][Next]_vars

(* A command that the system lets run goes on, and cron starts the two     *)
(* commands every day, whatever staff start in between.                    *)
FairSpec ==
    /\ Spec
    /\ WF_vars(RunStep \/ \E d \in Doc : ImportFails(d))
    /\ SF_vars(StartParsing) /\ SF_vars(StartLoading)

-----------------------------------------------------------------------------
(* A source whose parse is recorded as a success has an XML file, without  *)
(* which the loader would skip it in silence for ever; it is the whole     *)
(* transcript, unless a kill tore the document or the file.                *)
XmlBehindSuccess ==
    \A d \in succeeded : /\ xml[d] # "none"
                         /\ failures = 0 => xml[d] = "whole"

(* Without exceptions, kills and commands of staff, a source is in SayIt   *)
(* once if it is marked as imported and else not at all.                   *)
ImportedOnce ==
    errors = 0 /\ failures = 0 /\ commands = 0 =>
        \A d \in Doc \ {cur} : /\ tagged[d] = (IF d \in imported THEN 1 ELSE 0)
                               /\ untagged[d] = 0

Untagged == UNION {{d} \X (1..untagged[d]) : d \in Doc}

(* Each exception and each kill leaves at most one copy without the tag,   *)
(* which no later --delete-existing removes; the commands of staff, such   *)
(* as a reimport, leave none.                                              *)
FewUntagged ==
    Cardinality(Untagged) <= errors + failures + (IF pc \in {"mark", "tag"} THEN 1 ELSE 0)

(* What the daily runs attempt without a failed request or a kill, they    *)
(* import in the end, whatever happens to the other sources.               *)
EventuallyImported ==
    \A d \in Doc \ Garbled :
        d \in listed ~> d \in imported \/ d \in hurt \/ d \notin listed

(* 'Import available hansards into sayit' (help of the command): a source  *)
(* marked as imported, which is not imported again, has its speeches in    *)
(* SayIt.                                                                  *)
ImportedReadable == \A d \in imported : tagged[d] + untagged[d] > 0
=============================================================================
