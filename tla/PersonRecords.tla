---------------------------- MODULE PersonRecords ----------------------------
(***************************************************************************)
(* Who a slug, a SayIt speaker and a speech stand for, while people are    *)
(* merged.  core_merge_people moves what belongs to one person to another, *)
(* leaves a redirect behind and deletes the first; each morning            *)
(* pombola_sayit_sync_pombola_to_popolo deletes the identifiers that slugs *)
(* are resolved by, and makes them again from people and redirects; the    *)
(* importers give a speech to the speaker that has its slug.               *)
(*                                                                         *)
(* A slug is the person it was made for.  A speaker is the number of its   *)
(* row, 0 for none.                                                        *)
(***************************************************************************)
EXTENDS People, Naturals, FiniteSets

CONSTANTS
    Known,          \* those who have a record to begin with
    Speech,
    Author,         \* the person whose slug a speech comes with
    MaxFailures     \* bound: kills of the synchronisation

ASSUME RecordsAssumption ==
    /\ Known \subseteq Person /\ IsFiniteSet(Known) /\ None \notin Person
    /\ Author \in [Speech -> Person]
    /\ MaxFailures \in Nat

VARIABLES
    born,           \* those that have ever had one
    redirect,       \* SlugRedirect: old slug to the id of a person
    link,           \* PombolaSayItJoin: the speaker of a person
    lastSpeaker,    \* the number of Speaker rows made
    identifier,     \* popolo Identifier: the speaker a slug is resolved to
    credit,         \* the speaker of a speech, 0 before its import
    prompt,         \* the merge that waits for an answer
    pc, todo,
    cached,         \* person_to_slug_redirects
    now,            \* history: the person that a slug's person has become
    strayed,        \* history: speeches that were resolved or left by mistake
    calm,           \* history: no merge or new person since the last start
    settled,        \* history: nor since the last complete synchronisation
    failures

records == <<people, born, redirect, now>>
sayit   == <<link, lastSpeaker>>
speech  == <<credit, strayed>>
sync    == <<pc, todo, cached>>
peace   == <<calm, settled>>
vars    == <<records, sayit, identifier, speech, prompt, sync, peace, failures>>

Speaker == 0..lastSpeaker

TypeOK ==
    /\ people \subseteq born /\ born \subseteq Person
    /\ redirect \in [Person -> Person \cup {None}] /\ now \in [Person -> Person]
    /\ lastSpeaker \in Nat /\ link \in [Person -> Speaker]
    /\ \A p \in Person \ people : link[p] = 0
    /\ identifier \in [Person -> Speaker] /\ credit \in [Speech -> Speaker]
    /\ strayed \subseteq Speech
    /\ prompt \in (Person \X Person) \cup {<<>>}
    /\ pc \in {"idle", "clear", "people"} /\ todo \subseteq Person
    /\ cached \in [Person -> Person \cup {None}]
    /\ calm \in BOOLEAN /\ settled \in BOOLEAN /\ failures \in 0..MaxFailures

Nowhere == [p \in Person |-> None]

Init ==
    /\ people = Known /\ born = Known
    /\ redirect = Nowhere /\ now = [p \in Person |-> p]
    /\ link = [p \in Person |-> 0] /\ lastSpeaker = 0
    /\ identifier = [p \in Person |-> 0]
    /\ credit = [s \in Speech |-> 0] /\ strayed = {}
    /\ prompt = <<>> /\ pc = "idle" /\ todo = {} /\ cached = Nowhere
    /\ calm = FALSE /\ settled = FALSE /\ failures = 0

Disturb == calm' = FALSE /\ settled' = FALSE

Create(p) ==
    /\ p \notin born
    /\ people' = people \cup {p} /\ born' = born \cup {p}
    /\ Disturb
    /\ UNCHANGED <<redirect, now, sayit, identifier, speech, prompt, sync, failures>>

-----------------------------------------------------------------------------
(* core_merge_people: one transaction, which reads both records before it  *)
(* asks whether to go on.                                                  *)

AskMerge(keep, delete) ==
    /\ prompt = <<>>
    /\ keep # delete /\ keep \in people /\ delete \in people
    /\ prompt' = <<keep, delete>>
    /\ UNCHANGED <<records, sayit, identifier, speech, sync, peace, failures>>

(* Mutant: the speeches stay where they are.                               *)
Moved_None(keep, delete) == credit

(* Speeches go from speaker to speaker, if both people have one.           *)
Moved(keep, delete) ==
    [s \in Speech |->
        IF credit[s] # 0 /\ credit[s] = link[delete] /\ link[keep] # 0
          THEN link[keep] ELSE credit[s]]

Unlinked(delete) == [link EXCEPT ![delete] = 0]

(* The join of the deleted person goes with it, its speaker stays.  If the *)
(* one to keep has been merged away during the prompt, its id is used all  *)
(* the same, unless a foreign key refuses it.                              *)
Merge(keep, delete) ==
    /\ delete \in people
    /\ people' = people \ {delete}
    /\ redirect' = [redirect EXCEPT ![delete] = keep]
    /\ now' = [p \in Person |-> IF now[p] = delete THEN now[keep] ELSE now[p]]
    /\ credit' = Moved(keep, delete)
    /\ strayed' = strayed \cup {s \in Speech : link[delete] # 0 /\ link[keep] = 0
                                                /\ credit[s] = link[delete]}
    /\ link' = Unlinked(delete)
    /\ Disturb
    /\ UNCHANGED <<born, lastSpeaker, identifier, sync, failures>>

Confirm == prompt # <<>> /\ prompt' = <<>> /\ Merge(prompt[1], prompt[2])

(* Another merge in the meantime, in another terminal.                     *)
MergeBehind(keep, delete) ==
    /\ prompt # <<>> /\ keep # delete /\ keep \in people
    /\ Merge(keep, delete)
    /\ UNCHANGED prompt

(* Any other answer; a mismatch of fields; a foreign key to a person that  *)
(* is gone, or a second redirect for one slug: everything is rolled back.  *)
Refused ==
    /\ prompt # <<>> /\ prompt' = <<>>
    /\ UNCHANGED <<records, sayit, identifier, speech, sync, peace, failures>>

-----------------------------------------------------------------------------
(* pombola_sayit_sync_pombola_to_popolo.                                   *)

Stopped == pc' = "idle" /\ todo' = {} /\ cached' = Nowhere

StartSync ==
    /\ pc = "idle"
    /\ pc' = "clear" /\ cached' = redirect /\ todo' = {}
    /\ calm' = TRUE /\ settled' = FALSE
    /\ UNCHANGED <<records, sayit, identifier, speech, prompt, failures>>

(* Mutant: only people without a speaker are gone through.                 *)
Queryset_New == {p \in people : link[p] = 0}

Queryset == people

(* Committed by itself, before the people are read.                        *)
Clear ==
    /\ pc = "clear"
    /\ identifier' = [p \in Person |-> 0]
    /\ pc' = "people" /\ todo' = Queryset
    /\ UNCHANGED <<records, sayit, speech, prompt, cached, peace, failures>>

SpeakerOf(p) == IF link[p] # 0 THEN link[p] ELSE lastSpeaker + 1

(* Mutant: redirects are left out.                                         *)
Slugs_Own(p) == {p}

Slugs(p) == {p} \cup {s \in Person : cached[s] = p}

(* One transaction.                                                        *)
SyncPerson(p) ==
    /\ pc = "people" /\ p \in todo \cap people
    /\ link' = [link EXCEPT ![p] = SpeakerOf(p)]
    /\ lastSpeaker' = IF SpeakerOf(p) > lastSpeaker THEN SpeakerOf(p) ELSE lastSpeaker
    /\ identifier' = [s \in Person |-> IF s \in Slugs(p) THEN SpeakerOf(p) ELSE identifier[s]]
    /\ todo' = todo \ {p}
    /\ UNCHANGED <<records, speech, prompt, pc, cached, peace, failures>>

(* A person merged away since the list was read has no join: one is made,  *)
(* its foreign key is refused, and the exception ends the command.         *)
SyncGone(p) ==
    /\ pc = "people" /\ p \in todo \ people
    /\ Stopped
    /\ UNCHANGED <<records, sayit, identifier, speech, prompt, peace, failures>>

SyncDone ==
    /\ pc = "people" /\ todo = {}
    /\ Stopped
    /\ settled' = calm
    /\ UNCHANGED <<records, sayit, identifier, speech, prompt, calm, failures>>

Crash ==
    /\ pc # "idle"
    /\ failures < MaxFailures /\ failures' = failures + 1
    /\ Stopped
    /\ UNCHANGED <<records, sayit, identifier, speech, prompt, peace>>

(* get_person by the slug in the URL.  Without an identifier the name      *)
(* decides, which is not modelled: the speech counts as strayed.           *)
Import(s) ==
    LET found == identifier[Author[s]] IN
    /\ credit[s] = 0 /\ s \notin strayed /\ Author[s] \in born
    /\ credit' = [credit EXCEPT ![s] = found]
    /\ strayed' = IF found # 0 /\ found = link[now[Author[s]]] THEN strayed ELSE strayed \cup {s}
    /\ UNCHANGED <<records, sayit, identifier, prompt, sync, peace, failures>>

SyncStep ==
    \/ StartSync \/ Clear \/ SyncDone
    \/ \E p \in Person : SyncPerson(p) \/ SyncGone(p)

Next ==
    \/ SyncStep \/ Crash \/ Confirm \/ Refused
    \/ \E p \in Person : Create(p)
    \/ \E keep, delete \in Person : AskMerge(keep, delete) \/ MergeBehind(keep, delete)
    \/ \E s \in Speech : Import(s)

(* Cron starts the synchronisation every day and lets it run.              *)
Fairness == WF_vars(SyncStep)

Spec == Init /\ [][Next]_vars /\ Fairness

-----------------------------------------------------------------------------
(* core_merge_people moves the speeches: a speech that once had the right  *)
(* speaker has that of the person its author has become, through any       *)
(* number of merges, synchronisations and kills of them; it strays only if *)
(* it was imported from identifiers that a merge had made old, or a merge  *)
(* left it because the person to keep had no speaker yet.                  *)
SpeechesFollow ==
    \A s \in Speech \ strayed : credit[s] # 0 => credit[s] = link[now[Author[s]]]

(* The synchronisation, when nothing was merged or added since it began,   *)
(* leaves each slug with the speaker of the person it leads to, and a slug *)
(* whose person was merged twice with none.                                *)
SlugsFollow ==
    settled => \A s \in born :
        identifier[s] = IF s \in people \/ redirect[s] \in people THEN link[now[s]] ELSE 0

(* Kills, aborts and repetitions never give a person a second speaker, or  *)
(* two people the same one, so that speeches are not split between them.   *)
OneSpeakerEach ==
    /\ lastSpeaker <= Cardinality(born)
    /\ \A p, q \in people : p # q /\ link[p] = link[q] => link[p] = 0

(* Both: the speeches of a person are with one speaker, who is hers alone. *)
SpeechesTogether == TypeOK /\ SpeechesFollow /\ OneSpeakerEach

(* After the aborts that merges cause, every person is known to the        *)
(* importers in the end.                                                   *)
EventuallyKnown ==
    \A p \in Person :
        <>[](pc = "idle" /\ p \in people => link[p] # 0 /\ identifier[p] = link[p])

(* merge.py line 137: "Make sure the old slug redirects to the object to   *)
(* keep".  The slug of somebody who was merged leads to somebody.          *)
OldSlugsLead == \A s \in born \ people : redirect[s] \in people
=============================================================================
