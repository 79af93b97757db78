-------------------------- MODULE SpeakerAssignment --------------------------
(***************************************************************************)
(* hansard_assign_speakers: the command that links each speech of the      *)
(* Kenyan Hansard to a Person, by the alias table staff keep or by a       *)
(* search on the name, and lists the names it cannot place as aliases for  *)
(* staff to inspect.                                                       *)
(*                                                                         *)
(* The command loads the unassigned speeches once, remembers the answer    *)
(* for each (date, speaker_name) while it runs, and commits every write on *)
(* its own; staff edit aliases and speeches in the admin meanwhile.        *)
(***************************************************************************)
EXTENDS FiniteSets, Naturals

CONSTANTS
    Entry,          \* speeches with a speaker name
    Name,           \* names after Alias.clean_up_name
    Person,
    Key,            \* Entry -> cache_key: (sitting date, speaker_name)
    Order,          \* Entry -> Nat, Meta.ordering: newest sitting first
    NameOf,         \* Entry -> Name; the title, for 'Nominated ...'
    Found,          \* Entry -> politicians of that date whose name matches
    House,          \* Entry -> those who ever sat in the sitting's house
    JointSitting,   \* entries of joint sittings
    Substring,      \* HANSARD_NAME_MATCHING_ALGORITHM is NAME_SUBSTRING_MATCH
    PlaceParty,     \* names that read as a place and party initials
    ByPlace,        \* Entry -> who holds that seat for that party
    Ignorable,      \* names Alias.can_ignore_name drops
    None,
    MaxStaff,       \* bound: edits by staff
    MaxFailures     \* bound: kills of the command

ASSUME AssignmentAssumption ==
    /\ DOMAIN Key = Entry
    /\ Order \in [Entry -> Nat]
    /\ \A e, f \in Entry : Order[e] = Order[f] => e = f
    /\ NameOf \in [Entry -> Name]
    /\ Found \in [Entry -> SUBSET Person]
    /\ House \in [Entry -> SUBSET Person]
    /\ ByPlace \in [Entry -> SUBSET Person]
    /\ \A e \in Entry : Cardinality(ByPlace[e]) <= 1
    /\ Substring \in BOOLEAN
    /\ MaxStaff \in Nat /\ MaxFailures \in Nat
    /\ None \notin Person /\ None \notin Entry
    /\ IsFiniteSet(Person)

VARIABLES
    stored,     \* Entry rows the import has saved
    speaker,    \* Entry -> Person or None
    people,     \* Person rows
    aliases,    \* Alias rows, by their unique name
    aka,        \* Name -> the person of the row, or None
    ignored,    \* names whose row has ignored set
    pc,
    todo,       \* rest of the loaded speeches
    cur,        \* the speech in hand
    hand,       \* the unassigned row Alias.objects.get returned, if any
    found,      \* what possible_matching_speakers returned
    memo,       \* the cache: key -> list of people, for the keys seen
    byHand,     \* history: speeches whose speaker staff set since the run began
    said,       \* history: verdicts of the table since the run began
    quiet,      \* history: no edit by staff since the run began
    edits, failures

table == <<aliases, aka, ignored>>
run   == <<pc, todo, cur, hand, found, memo>>
history == <<byHand, said, quiet>>
vars  == <<stored, speaker, people, table, run, history, edits, failures>>

Keys == {Key[e] : e \in Entry}

TypeOK ==
    /\ stored \subseteq Entry
    /\ speaker \in [Entry -> Person \cup {None}]
    /\ people \subseteq Person
    /\ aliases \subseteq Name
    /\ aka \in [Name -> Person \cup {None}]
    /\ ignored \subseteq aliases
    /\ \A n \in Name \ aliases : aka[n] = None
    /\ pc \in {"idle", "next", "lookup", "match", "assign"}
    /\ todo \subseteq stored
    /\ cur \in Entry \cup {None}
    /\ hand \in {"none", "row", "deleted"}
    /\ found \subseteq Person
    /\ DOMAIN memo \subseteq Keys
    /\ \A k \in DOMAIN memo : memo[k] \subseteq Person
    /\ byHand \subseteq Entry /\ quiet \in BOOLEAN
    /\ said \subseteq Name \X SUBSET (Person \cup {None})
    /\ edits \in 0..MaxStaff /\ failures \in 0..MaxFailures

Nobody == [k \in {} |-> {}]

Init ==
    /\ stored = {}
    /\ speaker = [e \in Entry |-> None]
    /\ people \in SUBSET Person
    /\ aliases = {} /\ aka = [n \in Name |-> None] /\ ignored = {}
    /\ pc = "idle" /\ todo = {} /\ cur = None
    /\ hand = "none" /\ found = {} /\ memo = Nobody
    /\ byHand = {} /\ said = {} /\ quiet = TRUE
    /\ edits = 0 /\ failures = 0

unassigned == {n \in aliases \ ignored : aka[n] = None}

(* What the table says of the speaker of each name: nobody, this person,   *)
(* or nothing yet.                                                         *)
Verdicts == {<<n, IF n \in ignored THEN {} ELSE {aka[n]}>> : n \in Name}

NoteVerdicts == said' = said \cup Verdicts'

-----------------------------------------------------------------------------
(* The import and the staff.                                               *)

Store(e) ==
    /\ pc = "idle"
    /\ e \notin stored
    /\ stored' = stored \cup {e}
    /\ UNCHANGED <<speaker, people, table, run, history, edits, failures>>

Staff ==
    /\ edits < MaxStaff
    /\ edits' = edits + 1
    /\ quiet' = FALSE
    /\ UNCHANGED <<stored, pc, todo, cur, found, memo, failures>>

(* The admin form of an alias: any person, ignored or not.                 *)
SaveAlias(n, p, ignore) ==
    /\ Staff
    /\ n \in aliases
    /\ p \in people \cup {None}
    /\ aka' = [aka EXCEPT ![n] = p]
    /\ ignored' = IF ignore THEN ignored \cup {n} ELSE ignored \ {n}
    /\ UNCHANGED <<hand, aliases, speaker, people, byHand>>
    /\ NoteVerdicts

AddAlias(n, p, ignore) ==
    /\ Staff
    /\ n \notin aliases
    /\ p \in people \cup {None}
    /\ aliases' = aliases \cup {n}
    /\ aka' = [aka EXCEPT ![n] = p]
    /\ ignored' = IF ignore THEN ignored \cup {n} ELSE ignored
    /\ UNCHANGED <<hand, speaker, people, byHand>>
    /\ NoteVerdicts

(* The ignore_aliases action on a selection.                               *)
IgnoreAliases(names) ==
    /\ Staff
    /\ names # {} /\ names \subseteq aliases
    /\ ignored' = ignored \cup names
    /\ UNCHANGED <<hand, aliases, aka, speaker, people, byHand>>
    /\ NoteVerdicts

DeleteAlias(n) ==
    /\ Staff
    /\ n \in aliases
    /\ aliases' = aliases \ {n}
    /\ aka' = [aka EXCEPT ![n] = None]
    /\ ignored' = ignored \ {n}
    /\ hand' = IF hand = "row" /\ n = NameOf[cur] THEN "deleted" ELSE hand
    /\ UNCHANGED <<speaker, people, byHand>>
    /\ NoteVerdicts

AddPerson(p) ==
    /\ Staff
    /\ p \notin people
    /\ people' = people \cup {p}
    /\ UNCHANGED <<hand, table, speaker, byHand, said>>

(* hansard_reattribute_entries, over any choice of dates: one transaction. *)
Reattribute(p, q, dates) ==
    /\ Staff
    /\ p # q /\ {p, q} \subseteq people
    /\ speaker' = [e \in Entry |->
                     IF speaker[e] = p /\ Key[e] \in dates THEN q ELSE speaker[e]]
    /\ UNCHANGED <<hand, table, people, byHand, said>>

(* The admin form of an entry.                                             *)
SetSpeaker(e, p) ==
    /\ Staff
    /\ e \in stored
    /\ p \in people \cup {None}
    /\ speaker' = [speaker EXCEPT ![e] = p]
    /\ byHand' = byHand \cup {e}
    /\ UNCHANGED <<hand, table, people, said>>

-----------------------------------------------------------------------------
(* Entry.assign_speakers.                                                  *)

(* Mutant: the filter on the speaker is dropped.                           *)
unassigned_speeches_All == stored

unassigned_speeches == {e \in stored : speaker[e] = None}

StartRun ==
    /\ pc = "idle"
    /\ unassigned_speeches # {}
    /\ todo' = unassigned_speeches
    /\ pc' = "next"
    /\ quiet' = TRUE /\ byHand' = {}
    /\ said' = Verdicts
    /\ UNCHANGED <<stored, speaker, people, table, cur, hand, found, memo, edits, failures>>

Stopped ==
    /\ pc' = "idle" /\ todo' = {} /\ cur' = None
    /\ hand' = "none" /\ found' = {} /\ memo' = Nobody

(* Mutant: the cache outlives the run, as a cache of the class would.      *)
EndRun_KeepsCache ==
    /\ pc = "next"
    /\ todo = {}
    /\ pc' = "idle" /\ cur' = None /\ hand' = "none" /\ found' = {}
    /\ UNCHANGED <<stored, speaker, people, table, todo, memo, history, edits, failures>>

EndRun ==
    /\ pc = "next"
    /\ todo = {}
    /\ Stopped
    /\ UNCHANGED <<stored, speaker, people, table, history, edits, failures>>

(* Mutant: the cache is keyed by the name alone.                           *)
CacheKey_NameOnly(e) == Key[CHOOSE f \in Entry : NameOf[f] = NameOf[e]]

CacheKey(e) == Key[e]

TakeNext ==
    /\ pc = "next"
    /\ \E e \in todo :
        /\ \A f \in todo : Order[e] <= Order[f]
        /\ cur' = e
        /\ todo' = todo \ {e}
        /\ IF CacheKey(e) \in DOMAIN memo
             THEN pc' = "assign" /\ found' = memo[CacheKey(e)]
             ELSE pc' = "lookup" /\ found' = {}
    /\ UNCHANGED <<stored, speaker, people, table, hand, memo, history, edits, failures>>

Return(people_found) ==
    /\ found' = people_found
    /\ memo' = [k \in DOMAIN memo \cup {CacheKey(cur)} |->
                  IF k = CacheKey(cur) THEN people_found ELSE memo[k]]
    /\ pc' = "assign"
    /\ hand' = "none"
    /\ UNCHANGED <<todo, cur>>

(* Alias.objects.get, and the answers that need no search.                 *)
Lookup ==
    /\ pc = "lookup"
    /\ LET n == NameOf[cur] IN
         \/ n \in ignored /\ Return({})
         \/ n \in aliases \ ignored /\ aka[n] # None /\ Return({aka[n]})
         \/ /\ n \notin aliases \/ n \in unassigned
            /\ hand' = IF n \in aliases THEN "row" ELSE "none"
            /\ pc' = "match"
            /\ UNCHANGED <<todo, cur, found, memo>>
    /\ UNCHANGED <<stored, speaker, people, table, history, edits, failures>>

(* The search on the name, narrowed to the house when it is ambiguous.     *)
Search(e) ==
    LET all  == Found[e] \cap people
        here == all \cap House[e]
    IN IF Substring /\ Cardinality(all) > 1 /\ e \notin JointSitting /\ here # {}
         THEN here ELSE all

Results(e) ==
    IF Search(e) = {} /\ NameOf[e] \in PlaceParty
      THEN ByPlace[e] \cap people ELSE Search(e)

(* A place and party nobody is found for: get_or_create.                   *)
MatchNoSeat ==
    /\ pc = "match"
    /\ NameOf[cur] \in PlaceParty
    /\ Results(cur) = {}
    /\ aliases' = aliases \cup {NameOf[cur]}
    /\ Return({})
    /\ UNCHANGED <<aka, ignored, stored, speaker, people, history, edits, failures>>

(* One person: the alias row read before goes, by its id, whatever it says *)
(* by now.                                                                 *)
MatchOne ==
    /\ pc = "match"
    /\ Cardinality(Results(cur)) = 1
    /\ LET goes == IF hand = "row" THEN {NameOf[cur]} ELSE {} IN
        /\ aliases' = aliases \ goes
        /\ aka' = [n \in Name |-> IF n \in goes THEN None ELSE aka[n]]
        /\ ignored' = ignored \ goes
    /\ Return(Results(cur))
    /\ UNCHANGED <<stored, speaker, people, byHand, quiet, edits, failures>>
    /\ NoteVerdicts

NotFoundHere ==
    /\ pc = "match"
    /\ Cardinality(Results(cur)) # 1
    /\ Results(cur) = {} => NameOf[cur] \notin PlaceParty

(* Mutant: an ambiguous name makes no alias.                               *)
MatchNone_NoMatchOnly ==
    /\ NotFoundHere
    /\ LET creates == hand = "none" /\ NameOf[cur] \notin Ignorable /\ Results(cur) = {} IN
        /\ creates => NameOf[cur] \notin aliases
        /\ aliases' = IF creates THEN aliases \cup {NameOf[cur]} ELSE aliases
    /\ Return(Results(cur))
    /\ UNCHANGED <<aka, ignored, stored, speaker, people, history, edits, failures>>

(* No match, or several: an alias for staff, unless one was read before.   *)
MatchNone ==
    /\ NotFoundHere
    /\ LET creates == hand = "none" /\ NameOf[cur] \notin Ignorable IN
        /\ creates => NameOf[cur] \notin aliases
        /\ aliases' = IF creates THEN aliases \cup {NameOf[cur]} ELSE aliases
    /\ Return(Results(cur))
    /\ UNCHANGED <<aka, ignored, stored, speaker, people, history, edits, failures>>

(* Alias.objects.create when the row has appeared since: IntegrityError.   *)
MatchNoneRefused ==
    /\ NotFoundHere
    /\ hand = "none" /\ NameOf[cur] \notin Ignorable /\ NameOf[cur] \in aliases
    /\ Stopped
    /\ UNCHANGED <<stored, speaker, people, table, history, edits, failures>>

(* entry.save() writes the row as it was loaded, with the speaker.         *)
Assign ==
    /\ pc = "assign"
    /\ speaker' = IF Cardinality(found) = 1
                    THEN [speaker EXCEPT ![cur] = CHOOSE p \in found : TRUE]
                    ELSE speaker
    /\ pc' = "next" /\ cur' = None /\ found' = {}
    /\ UNCHANGED <<stored, people, table, todo, hand, memo, history, edits, failures>>

Crash ==
    /\ pc # "idle"
    /\ failures < MaxFailures
    /\ failures' = failures + 1
    /\ Stopped
    /\ UNCHANGED <<stored, speaker, people, table, history, edits>>

RunStep ==
    \/ StartRun \/ TakeNext \/ Lookup
    \/ MatchNoSeat \/ MatchOne \/ MatchNone \/ MatchNoneRefused
    \/ Assign \/ EndRun

StaffStep ==
    \/ \E n \in Name, p \in Person \cup {None}, ignore \in BOOLEAN :
         SaveAlias(n, p, ignore) \/ AddAlias(n, p, ignore)
    \/ \E names \in SUBSET Name : IgnoreAliases(names)
    \/ \E n \in Name : DeleteAlias(n)
    \/ \E p \in Person : AddPerson(p)
    \/ \E p, q \in Person, dates \in SUBSET Keys : Reattribute(p, q, dates)
    \/ \E e \in Entry, p \in Person \cup {None} : SetSpeaker(e, p)

Next == RunStep \/ Crash \/ StaffStep \/ \E e \in Entry : Store(e)

Spec == Init /\ [][Next]_vars

(* cron starts the command every day and the system lets it run.           *)
FairSpec == Spec /\ WF_vars(RunStep)

-----------------------------------------------------------------------------
(* Properties.                                                             *)

Committed == pc = "assign" /\ pc' = "next"

(* The speeches whose answer the cache may give the one in hand: for it,   *)
(* speeches of one date and one speaker_name are the same.                 *)
Alike == {f \in stored : Key[f] = Key[cur]}

(* What the command commits for a speech follows the table of the          *)
(* docstring of Alias, as it stood at some moment of this run, whatever    *)
(* staff change before, between or after the lookup it is remembered from: *)
(* a name that was ignored all the time gets no speaker, one that was      *)
(* assigned gets a person it was assigned to, and only a name that was     *)
(* undecided for a while may be searched for.                              *)
AliasRespected ==
    [][Committed =>
         \E f \in Alike, verdict \in said :
           /\ verdict[1] = NameOf[f]
           /\ \/ verdict[2] = {None}
              \/ verdict[2] = {} /\ speaker' = speaker
              \/ verdict[2] = {speaker'[cur]}]_vars

(* A speaker whom the command commits undisturbed is the person of the     *)
(* alias, or the only match of a search for a speech of that date and that *)
(* name: a remembered answer crosses neither dates nor names.              *)
MatchesDateAndName ==
    [][Committed /\ quiet /\ speaker' # speaker =>
         \E f \in Alike :
           \/ speaker'[cur] = aka[NameOf[f]]
           \/ Results(f) = {speaker'[cur]}]_vars

(* As test_multiple_politician_name_matches_senate and its like have it: a *)
(* speech gets a speaker only if its own lookup, in its own house, returns *)
(* that one person.                                                        *)
MatchesItself ==
    [][Committed /\ quiet /\ speaker' # speaker =>
         \/ speaker'[cur] = aka[NameOf[cur]]
         \/ Results(cur) = {speaker'[cur]}]_vars

(* The command fills in missing speakers and replaces none, whatever staff *)
(* reattribute while it runs; only a speaker that staff gave a speech in   *)
(* its form after the run had loaded it may be overwritten.                *)
OnlyUnassignedFilled ==
    [][Committed =>
         \A e \in Entry : speaker'[e] # speaker[e] => speaker[e] = None \/ e \in byHand]_vars

Listed(e) ==
    speaker[e] # None \/ NameOf[e] \in Ignorable \/ NameOf[e] \in aliases

(* In the end every name without a person stands in the alias table for    *)
(* staff, and stays there.                                                 *)
EventuallyListed == \A e \in Entry : <>[](e \in stored => Listed(e))

(* 'If there is a single matching speaker and an unassigned alias delete   *)
(* it': the command deletes no alias that staff have decided.              *)
DecisionsKept ==
    [][pc = "match" /\ pc' = "assign" => aliases \ aliases' \subseteq unassigned]_vars
=============================================================================
