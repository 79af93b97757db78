-------------------------- MODULE SourceProcessing --------------------------
(***************************************************************************)
(* The Kenyan Hansard import: hansard_process_sources takes each listed    *)
(* Source that was never attempted, newest first, fetches its PDF through  *)
(* a file cache, parses it and stores a Sitting with its Entries.          *)
(*                                                                         *)
(* The command is one sequential process that cron starts once a day; it   *)
(* shares the database with the crawler that lists new sources and with    *)
(* staff who delete sources in the admin.  It may be killed between any    *)
(* two of its writes.                                                      *)
(***************************************************************************)
EXTENDS Naturals

CONSTANTS
    Source,         \* transcripts parliament publishes, one per (name, list_page)
    Rank,           \* position in Meta.ordering: newest date first, then name
    Meeting,        \* (name, venue, date, start time) the transcript reports
    Joint,          \* the meetings whose name contains 'Joint Sitting'
    Gone,           \* sources whose URL answers every request with a non-200
    Unparseable,    \* sources whose transcript KenyaParser cannot convert
    None,
    MaxFailures,    \* bound: kills of the process and database errors
    MaxOutages,     \* bound: requests that fail for a source that is not Gone
    MaxDeletes      \* bound: deletions by staff

ASSUME SourceAssumption ==
    /\ Rank \in [Source -> Nat]
    /\ \A s, t \in Source : Rank[s] = Rank[t] => s = t
    /\ Gone \subseteq Source
    /\ Unparseable \subseteq Source
    /\ None \notin Source

ASSUME BoundAssumption ==
    /\ MaxFailures \in Nat
    /\ MaxOutages \in Nat
    /\ MaxDeletes \in Nat

VARIABLES
    listed,     \* rows of the Source table
    attempted,  \* rows with last_processing_attempt set
    succeeded,  \* rows with last_processing_success set
    cache,      \* the file under HANSARD_CACHE for each row
    sittings,   \* number of Sitting rows of each source
    entries,    \* what the Entry rows of a source hold
    pc,         \* where the running command is
    todo,       \* rest of the queryset the command iterates over
    cur,        \* the source in hand
    ghosts,     \* loaded objects whose row was deleted since
    doc,        \* what the open file of `cur` holds
    failures, outages, deletes

db   == <<listed, attempted, succeeded, sittings, entries>>
run  == <<pc, todo, cur, ghosts, doc>>
caps == <<failures, outages, deletes>>
vars == <<db, cache, run, caps>>

Steps == {"idle", "next", "file", "mark", "parse", "sitting", "entries"}

TypeOK ==
    /\ listed \subseteq Source
    /\ attempted \subseteq listed
    /\ succeeded \subseteq attempted
    /\ cache \in [Source -> {"none", "whole", "bad"}]
    /\ sittings \in [Source -> Nat]
    /\ entries \in [Source -> {"none", "whole", "bad"}]
    /\ pc \in Steps
    /\ todo \subseteq Source
    /\ cur \in Source \cup {None}
    /\ ghosts \subseteq Source
    /\ doc \in {"none", "whole", "bad"}
    /\ failures \in Nat /\ outages \in Nat /\ deletes \in Nat

Init ==
    /\ listed = {} /\ attempted = {} /\ succeeded = {}
    /\ cache = [s \in Source |-> "none"]
    /\ sittings = [s \in Source |-> 0]
    /\ entries = [s \in Source |-> "none"]
    /\ pc = "idle" /\ todo = {} /\ cur = None /\ ghosts = {} /\ doc = "none"
    /\ failures = 0 /\ outages = 0 /\ deletes = 0

(* The process is gone, by a normal end, an exception or a kill: all that  *)
(* it held in memory is lost.                                              *)
Stopped == pc' = "idle" /\ todo' = {} /\ cur' = None /\ ghosts' = {} /\ doc' = "none"

Goto(step) == pc' = step /\ UNCHANGED <<todo, cur, ghosts>>

-----------------------------------------------------------------------------
(* The other users of the tables.                                          *)

(* The crawler creates the row of a source it has not seen; the new row    *)
(* has a new id, so no cache file.                                         *)
List(s) ==
    /\ s \notin listed
    /\ listed' = listed \cup {s}
    /\ cache' = [cache EXCEPT ![s] = "none"]
    /\ UNCHANGED <<attempted, succeeded, sittings, entries, run, caps>>

(* Source.delete(): the row with its sittings and entries, then the file.  *)
Delete(s) ==
    /\ s \in listed
    /\ deletes < MaxDeletes
    /\ listed' = listed \ {s}
    /\ attempted' = attempted \ {s}
    /\ succeeded' = succeeded \ {s}
    /\ sittings' = [sittings EXCEPT ![s] = 0]
    /\ entries' = [entries EXCEPT ![s] = "none"]
    /\ cache' = [cache EXCEPT ![s] = "none"]
    /\ ghosts' = IF s \in todo \cup {cur} THEN ghosts \cup {s} ELSE ghosts
    /\ deletes' = deletes + 1
    /\ UNCHANGED <<pc, todo, cur, doc, failures, outages>>

-----------------------------------------------------------------------------
(* The command.                                                            *)

(* Mutant: a source is done only when it succeeded.                        *)
requires_processing_Retry == listed \ succeeded

requires_processing == listed \ attempted

StartRun ==
    /\ pc = "idle"
    /\ requires_processing # {}
    /\ todo' = requires_processing
    /\ pc' = "next"
    /\ UNCHANGED <<db, cache, cur, ghosts, doc, caps>>

TakeNext ==
    /\ pc = "next"
    /\ \E s \in todo :
        /\ \A t \in todo : Rank[s] <= Rank[t]
        /\ cur' = s
        /\ todo' = todo \ {s}
    /\ pc' = "file"
    /\ UNCHANGED <<db, cache, ghosts, doc, caps>>

EndRun ==
    /\ pc = "next"
    /\ todo = {}
    /\ Stopped
    /\ UNCHANGED <<db, cache, caps>>

(* A cached file is served as it is.  A row listed again under the same    *)
(* name is not the row in hand: its file is another one.                   *)
CachedFile == IF cur \in ghosts /\ cur \in listed THEN "none" ELSE cache[cur]

FileFromCache ==
    /\ pc = "file"
    /\ CachedFile # "none"
    /\ doc' = CachedFile
    /\ Goto("mark")
    /\ UNCHANGED <<db, cache, caps>>

StoreFile(content) ==
    cache' = IF cur \in ghosts /\ cur \in listed
               THEN cache ELSE [cache EXCEPT ![cur] = content]

FileFetched ==
    /\ pc = "file"
    /\ CachedFile = "none"
    /\ cur \notin Gone
    /\ StoreFile("whole")
    /\ doc' = "whole"
    /\ Goto("mark")
    /\ UNCHANGED <<db, caps>>

(* SourceUrlCouldNotBeRetrieved, or an exception of httplib2, leaves the   *)
(* whole command before the attempt is recorded.                           *)
FileFails ==
    /\ pc = "file"
    /\ CachedFile = "none"
    /\ \/ cur \in Gone /\ UNCHANGED outages
       \/ cur \notin Gone /\ outages < MaxOutages /\ outages' = outages + 1
    /\ Stopped
    /\ UNCHANGED <<db, cache, failures, deletes>>

(* Mutant: the attempt is not recorded before the parser runs.             *)
Mark_NoAttempt ==
    /\ pc = "mark"
    /\ ~(cur \in ghosts /\ cur \in listed)
    /\ pc' = "parse"
    /\ UNCHANGED <<db, cache, todo, cur, ghosts, doc, caps>>

(* source.save(): an UPDATE, or an INSERT under the old id when the row is *)
(* gone, which (name, list_page) refuses when it was listed again.         *)
Mark ==
    /\ pc = "mark"
    /\ ~(cur \in ghosts /\ cur \in listed)
    /\ listed' = listed \cup {cur}
    /\ attempted' = attempted \cup {cur}
    /\ ghosts' = ghosts \ {cur}
    /\ pc' = "parse"
    /\ UNCHANGED <<succeeded, sittings, entries, cache, todo, cur, doc, caps>>

MarkRefused ==
    /\ pc = "mark"
    /\ cur \in ghosts /\ cur \in listed
    /\ Stopped
    /\ UNCHANGED <<db, cache, caps>>

(* A bad file may still convert, to the part of the transcript it holds.   *)
ParseOk ==
    /\ pc = "parse"
    /\ cur \notin Unparseable
    /\ Goto("sitting")
    /\ UNCHANGED <<db, cache, doc, caps>>

ParseFails ==
    /\ pc = "parse"
    /\ cur \in Unparseable \/ doc = "bad"
    /\ Stopped
    /\ UNCHANGED <<db, cache, caps>>

(* Mutant: the check looks for a sitting of the same row only.             *)
AlreadySat_OwnRow(s) == Meeting[s] \in Joint /\ sittings[s] > 0

(* Mutant: the check leaves out the name, the venue and the start.         *)
AlreadySat_AnyMeeting(s) == \E t \in Source : sittings[t] > 0

(* The identical document the other House published has its sitting.       *)
AlreadySat(s) ==
    /\ Meeting[s] \in Joint
    /\ \E t \in Source : Meeting[t] = Meeting[s] /\ sittings[t] > 0

(* Mutant: a skipped duplicate is recorded as a success.                   *)
SkipDuplicate_Success ==
    /\ pc = "sitting"
    /\ AlreadySat(cur)
    /\ succeeded' = succeeded \cup {cur}
    /\ pc' = "next" /\ cur' = None /\ doc' = "none"
    /\ UNCHANGED <<listed, attempted, sittings, entries, cache, todo, ghosts, caps>>

SkipDuplicate ==
    /\ pc = "sitting"
    /\ AlreadySat(cur)
    /\ pc' = "next" /\ cur' = None /\ doc' = "none"
    /\ UNCHANGED <<db, cache, todo, ghosts, caps>>

SaveSitting ==
    /\ pc = "sitting"
    /\ ~AlreadySat(cur)
    /\ cur \notin ghosts
    /\ sittings' = [sittings EXCEPT ![cur] = @ + 1]
    /\ Goto("entries")
    /\ UNCHANGED <<listed, attempted, succeeded, entries, cache, doc, caps>>

(* One transaction: all entries and last_processing_success.               *)
SaveEntries ==
    /\ pc = "entries"
    /\ cur \notin ghosts
    /\ entries' = [entries EXCEPT ![cur] = doc]
    /\ succeeded' = succeeded \cup {cur}
    /\ pc' = "next" /\ cur' = None /\ doc' = "none"
    /\ UNCHANGED <<listed, attempted, sittings, cache, todo, ghosts, caps>>

(* The foreign key of the sitting, or of the entries, names a deleted row. *)
SaveRefused ==
    /\ \/ pc = "sitting" /\ ~AlreadySat(cur)
       \/ pc = "entries"
    /\ cur \in ghosts
    /\ Stopped
    /\ UNCHANGED <<db, cache, caps>>

(* Mutant: the entries are saved without a transaction.                    *)
Crash_NoTransaction ==
    /\ pc # "idle"
    /\ failures < MaxFailures
    /\ failures' = failures + 1
    /\ entries' = IF pc = "entries" THEN [entries EXCEPT ![cur] = "bad"] ELSE entries
    /\ Stopped
    /\ UNCHANGED <<listed, attempted, succeeded, sittings, cache, outages, deletes>>

(* The process is killed, or the database refuses a statement (a speaker   *)
(* name over 200 characters does): an open transaction rolls back.         *)
Crash ==
    /\ pc # "idle"
    /\ failures < MaxFailures
    /\ failures' = failures + 1
    /\ Stopped
    /\ UNCHANGED <<db, cache, outages, deletes>>

(* Killed between opening the cache file for writing and closing it.       *)
CrashWritingFile ==
    /\ pc = "file"
    /\ CachedFile = "none"
    /\ cur \notin Gone
    /\ failures < MaxFailures
    /\ failures' = failures + 1
    /\ StoreFile("bad")
    /\ Stopped
    /\ UNCHANGED <<db, outages, deletes>>

RunStep ==
    \/ StartRun \/ TakeNext \/ EndRun
    \/ FileFromCache \/ FileFetched
    \/ Mark \/ MarkRefused
    \/ ParseOk \/ ParseFails
    \/ SkipDuplicate \/ SaveSitting \/ SaveEntries \/ SaveRefused

Next ==
    \/ RunStep \/ FileFails \/ Crash \/ CrashWritingFile
    \/ \E s \in Source : List(s) \/ Delete(s)

Spec == Init /\ [][Next]_vars

(* cron starts the command again every day and the operating system lets   *)
(* it run; a request for a Gone source is answered, with an error.         *)
Fairness == WF_vars(RunStep) /\ WF_vars(FileFails /\ cur \in Gone)

FairSpec == Spec /\ Fairness

-----------------------------------------------------------------------------
(* Properties.                                                             *)

(* The entries of a transcript and its last_processing_success appear in   *)
(* one transaction, under the only sitting the source ever gets: no kill,  *)
(* error or deletion leaves a source that is marked done without entries,  *)
(* or entries of a source that is not marked done.                         *)
PublishedWhole ==
    \A s \in Source :
        /\ s \in succeeded <=> entries[s] # "none"
        /\ entries[s] # "none" => sittings[s] = 1

(* A joint sitting, published by both Houses, has at most one Sitting: the *)
(* check in create_entries_from_data_and_source, whatever failed before.   *)
JointSittingOnce ==
    \A s, t \in Source :
        s # t /\ Meeting[s] = Meeting[t] /\ Meeting[s] \in Joint
            => sittings[s] = 0 \/ sittings[t] = 0

(* While no process was killed, no statement failed and nothing was        *)
(* deleted, every source the command is done with and could parse has its  *)
(* transcript in the archive, its own or that of the identical document,   *)
(* and it is the document the site served.                                 *)
NothingLost ==
    failures = 0 /\ deletes = 0 =>
        \A s \in attempted \ (Unparseable \cup {cur}) :
            \E t \in Source :
                /\ t = s \/ (Meeting[t] = Meeting[s] /\ Meeting[s] \in Joint)
                /\ entries[t] = "whole"

(* A source that was attempted, with or without success, is not taken up   *)
(* again (test_requires_processing), by this run or a later one.           *)
TriedOnce == [][\A s \in attempted : cur' = s => cur = s]_vars

(* No URL of a newer source is dead: nothing can end every run before s.   *)
Unblocked(s) == \A g \in Gone : Rank[s] < Rank[g]

(* Every listed source is attempted or deleted in the end, as long as no   *)
(* newer source, nor itself, is gone from the site: errors of the sources  *)
(* before it, kills and outages only delay it to a later run.              *)
UnblockedAttempted ==
    \A s \in Source :
        Unblocked(s) => (s \in listed ~> s \in attempted \/ s \notin listed)

(* 'Process all sources that have not been done', the help of the command: *)
(* the same for every source that can be fetched.                          *)
AllAttempted ==
    \A s \in Source \ Gone : s \in listed ~> s \in attempted \/ s \notin listed

(* The stage of each transcript, as the archive's specification sees it.   *)
StageOf ==
    [s \in Source |->
        CASE s \notin listed -> "unlisted"
          [] s \in listed \ attempted -> "waiting"
          [] s \in attempted \ succeeded -> "tried"
          [] OTHER -> "published"]

Archive == INSTANCE TranscriptArchive WITH stage <- StageOf

(* The import implements the archive: one attempt, one publication.        *)
ImplementsArchive == Archive!Spec
=============================================================================
