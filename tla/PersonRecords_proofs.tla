------------------------ MODULE PersonRecords_proofs ------------------------
(***************************************************************************)
(* Proofs about PersonRecords, for all people and speeches, any sequence   *)
(* of merges, additions and imports, and any number of kills; and about    *)
(* Tasks, which every save of a person brings up to date.                  *)
(***************************************************************************)
EXTENDS PersonRecords, Tasks, Sequences, FiniteSetTheorems, TLAPS

(* What stays of somebody who was merged away: a record is never made      *)
(* again, and the slug leads to the person it was merged into, or nowhere. *)
Past ==
    /\ IsFiniteSet(born)
    /\ \A p \in people \cup (Person \ born) : now[p] = p
    /\ \A s \in Person : redirect[s] # None => s \in born \ people /\ redirect[s] \in born
    /\ \A s \in Person : redirect[s] \in people => now[s] = redirect[s]
    /\ \A s \in born : now[s] \in born
    /\ prompt # <<>> => prompt[1] # prompt[2] /\ prompt[1] \in born /\ prompt[2] \in born

(* Each speaker was made for another person, who has it, or had a record.  *)
Unspoken == {p \in people : link[p] = 0}
SpeakersCounted ==
    /\ lastSpeaker <= Cardinality(born \ Unspoken)
    /\ \A p, q \in people : p # q /\ link[p] = link[q] => link[p] = 0

(* Only speeches of people who have had a record are imported.             *)
Imported == \A s \in Speech : credit[s] # 0 => Author[s] \in born

Inv == TypeOK /\ Past /\ SpeakersCounted /\ Imported /\ SpeechesFollow

(* The speakers that the slugs lead to, but for the people in S.           *)
Follows(s, S) ==
    identifier[s] = IF s \in people \ S \/ redirect[s] \in people \ S THEN link[now[s]] ELSE 0

(* A synchronisation that nothing has disturbed has given their speakers   *)
(* to the slugs of the people it has gone through.                         *)
Synced ==
    /\ settled => pc = "idle" /\ \A s \in born : Follows(s, {})
    /\ pc # "idle" /\ calm => cached = redirect
    /\ pc = "people" /\ calm => \A s \in born : Follows(s, todo)

-----------------------------------------------------------------------------
LEMMA InitInv == Init => Inv /\ Synced
<1> SUFFICES ASSUME Init
             PROVE  Inv /\ Synced
  OBVIOUS
<1> USE RecordsAssumption DEF Init
<1>1. TypeOK
  <2>1. 0 \in Speaker /\ failures \in 0..MaxFailures
    BY DEF Speaker
  <2>2. redirect \in [Person -> Person \cup {None}] /\ cached \in [Person -> Person \cup {None}]
    BY DEF Nowhere
  <2>3. link \in [Person -> Speaker] /\ identifier \in [Person -> Speaker] /\ credit \in [Speech -> Speaker]
    BY <2>1
  <2>4. now \in [Person -> Person] /\ \A p \in Person \ people : link[p] = 0
    OBVIOUS
  <2> QED
    BY <2>1, <2>2, <2>3, <2>4 DEF TypeOK
<1>2. Past
  BY DEF Past, Nowhere
<1>3. SpeakersCounted
  <2>1. IsFiniteSet(born \ Unspoken)
    BY FS_Subset
  <2> QED
    BY <2>1, FS_CardinalityType DEF SpeakersCounted
<1>4. Imported /\ SpeechesFollow /\ Synced
  BY DEF Imported, SpeechesFollow, Synced
<1> QED
  BY <1>1, <1>2, <1>3, <1>4 DEF Inv

(* The steps that change neither records, nor speakers, nor speeches.      *)
LEMMA SameInv ==
  ASSUME Inv, UNCHANGED <<records, sayit, speech>>,
         identifier' \in [Person -> Speaker],
         prompt' \in {<<>>, prompt} \cup (people \X people),
         prompt' # <<>> => prompt'[1] # prompt'[2],
         pc' \in {"idle", "clear", "people"}, todo' \subseteq Person,
         cached' \in [Person -> Person \cup {None}],
         calm' \in BOOLEAN, settled' \in BOOLEAN, failures' \in 0..MaxFailures
  PROVE  Inv'
<1> USE DEF Inv, records, sayit, speech
<1>1. TypeOK'
  BY DEF TypeOK, Speaker
<1>2. Past'
  BY DEF Past, TypeOK
<1>3. SpeakersCounted' /\ Imported' /\ SpeechesFollow'
  BY DEF SpeakersCounted, Unspoken, Imported, SpeechesFollow
<1> QED
  BY <1>1, <1>2, <1>3

LEMMA CreateInv ==
  ASSUME Inv, NEW p \in Person, Create(p)
  PROVE  Inv'
<1> USE DEF Inv, Create, Disturb, sayit, speech, sync
<1>1. TypeOK'
  BY DEF TypeOK, Speaker
<1>2. IsFiniteSet(born')
  BY FS_AddElement DEF Past
<1>3. Past'
  <2>1. /\ people \subseteq born /\ born \subseteq Person /\ p \notin born
        /\ people' = people \cup {p} /\ born' = born \cup {p}
        /\ redirect' = redirect /\ now' = now /\ prompt' = prompt
    BY DEF TypeOK
  <2>2. now[p] = p
    BY <2>1 DEF Past
  <2>3. \A s \in Person : redirect[s] # None => s \in born \ people /\ redirect[s] \in born
    BY DEF Past
  <2>4. /\ \A s \in Person : redirect'[s] # None => s \in born' \ people' /\ redirect'[s] \in born'
        /\ \A s \in Person : redirect'[s] \in people' => now'[s] = redirect'[s]
    BY <2>1, <2>3, RecordsAssumption DEF Past
  <2>5. (\A q \in people' : now'[q] = q) /\ (\A s \in born' : now'[s] \in born')
    BY <2>1, <2>2 DEF Past
  <2>6. prompt' # <<>> => prompt'[1] # prompt'[2] /\ prompt'[1] \in born' /\ prompt'[2] \in born'
    BY <2>1 DEF Past
  <2> QED
    BY <1>2, <2>4, <2>5, <2>6 DEF Past
<1>4. (born \ Unspoken)' = born \ Unspoken
  BY DEF Unspoken, TypeOK
<1>5. SpeakersCounted'
  <2>1. /\ people' = people \cup {p} /\ p \notin people /\ link[p] = 0
        /\ UNCHANGED <<link, lastSpeaker>> /\ SpeakersCounted
    BY DEF TypeOK
  <2> HIDE DEF Inv, Create, Disturb, sayit, speech, sync
  <2> QED
    BY <1>4, <2>1 DEF SpeakersCounted
<1> QED
  BY <1>1, <1>3, <1>5 DEF Imported, SpeechesFollow, TypeOK

(* A merge takes over what the deleted person has become, and her          *)
(* speeches, or counts them as strayed.                                    *)
LEMMA MergeInv ==
  ASSUME Inv, NEW keep \in born, NEW delete \in Person, keep # delete,
         Merge(keep, delete), prompt' \in {<<>>, prompt}
  PROVE  Inv'
<1> USE DEF Inv
<1>1. /\ delete \in people /\ people' = people \ {delete} /\ born' = born
      /\ redirect' = [redirect EXCEPT ![delete] = keep]
      /\ now' = [p \in Person |-> IF now[p] = delete THEN now[keep] ELSE now[p]]
      /\ credit' = Moved(keep, delete)
      /\ strayed' = strayed \cup {s \in Speech : link[delete] # 0 /\ link[keep] = 0
                                                  /\ credit[s] = link[delete]}
      /\ link' = [link EXCEPT ![delete] = 0]
      /\ calm' = FALSE /\ settled' = FALSE
      /\ UNCHANGED <<lastSpeaker, identifier, sync, failures>>
  BY DEF Merge, Disturb, Unlinked
<1>2. keep \in Person /\ delete \in born /\ now[delete] = delete
  BY <1>1 DEF TypeOK, Past
<1>3. credit' \in [Speech -> Speaker]
  BY <1>1, <1>2 DEF Moved, TypeOK, Speaker
<1>4. TypeOK'
  <2>1. /\ people' \subseteq born' /\ born' \subseteq Person
        /\ redirect' \in [Person -> Person \cup {None}]
    BY <1>1, <1>2 DEF TypeOK
  <2>2. now' \in [Person -> Person]
    BY <1>1, <1>2 DEF TypeOK
  <2>3. 0 \in Speaker /\ Speaker' = Speaker /\ lastSpeaker' \in Nat
    BY <1>1 DEF TypeOK, Speaker
  <2>4. link' \in [Person -> Speaker'] /\ \A p \in Person \ people' : link'[p] = 0
    BY <1>1, <1>2, <2>3 DEF TypeOK
  <2>5. identifier' \in [Person -> Speaker'] /\ credit' \in [Speech -> Speaker']
    BY <1>1, <1>3, <2>3 DEF TypeOK
  <2>6. strayed' \subseteq Speech /\ prompt' \in (Person \X Person) \cup {<<>>}
    BY <1>1 DEF TypeOK
  <2>7. /\ pc' \in {"idle", "clear", "people"} /\ todo' \subseteq Person
        /\ cached' \in [Person -> Person \cup {None}]
        /\ calm' \in BOOLEAN /\ settled' \in BOOLEAN /\ failures' \in 0..MaxFailures
    BY <1>1 DEF TypeOK, sync
  <2> QED
    BY <2>1, <2>2, <2>3, <2>4, <2>5, <2>6, <2>7 DEF TypeOK
<1>5. Past'
  BY <1>1, <1>2 DEF Past, TypeOK
<1>6. SpeakersCounted'
  <2>1. Cardinality(born \ Unspoken) <= Cardinality((born \ Unspoken)')
    <3>1. born \ Unspoken \subseteq (born \ Unspoken)' /\ IsFiniteSet((born \ Unspoken)')
      <4>1. IsFiniteSet(born')
        BY <1>5 DEF Past
      <4>2. IsFiniteSet((born \ Unspoken)')
        BY <4>1, FS_Subset
      <4> QED
        BY <1>1, <4>2 DEF Unspoken, TypeOK
    <3> QED
      BY <3>1, FS_Subset
  <2>2. Cardinality(born \ Unspoken) \in Nat /\ Cardinality((born \ Unspoken)') \in Nat
    <3>1. IsFiniteSet(born \ Unspoken) /\ IsFiniteSet((born \ Unspoken)')
      BY <1>5, FS_Subset DEF Past
    <3> QED
      BY <3>1, FS_CardinalityType
  <2> QED
    BY <1>1, <1>2, <2>1, <2>2 DEF SpeakersCounted, TypeOK
<1>7. \A s \in Speech : credit'[s] = IF credit[s] # 0 /\ credit[s] = link[delete] /\ link[keep] # 0
                                       THEN link[keep] ELSE credit[s]
  BY <1>1 DEF Moved
<1>8. Imported'
  BY <1>1, <1>7 DEF Imported
<1>9. SpeechesFollow'
  <2> SUFFICES ASSUME NEW s \in Speech, s \notin strayed', credit'[s] # 0
               PROVE  credit'[s] = link'[now'[Author[s]]]
    BY DEF SpeechesFollow
  <2>1. credit[s] # 0 /\ credit[s] = link[now[Author[s]]] /\ Author[s] \in Person
        /\ now[Author[s]] \in Person
    BY <1>1, <1>7, RecordsAssumption DEF SpeechesFollow, TypeOK
  <2>2. CASE now[Author[s]] = delete
    <3>1. link[keep] # 0
      BY <1>1, <2>1, <2>2
    <3>2. keep \in people /\ now[keep] = keep
      BY <1>2, <3>1 DEF TypeOK, Past
    <3> QED
      BY <1>1, <1>2, <1>7, <2>1, <2>2, <3>1, <3>2 DEF TypeOK
  <2>3. CASE now[Author[s]] # delete
    <3>1. now[Author[s]] \in people
      BY <2>1 DEF TypeOK
    <3>2. credit[s] # link[delete]
      BY <1>1, <2>1, <2>3, <3>1 DEF SpeakersCounted
    <3> QED
      BY <1>1, <1>7, <2>1, <2>3, <3>2 DEF TypeOK
  <2> QED
    BY <2>2, <2>3
<1> QED
  BY <1>4, <1>5, <1>6, <1>8, <1>9

(* A person without a speaker gets a new one, so no speech has it.         *)
LEMMA SyncPersonInv ==
  ASSUME Inv, NEW p \in Person, SyncPerson(p)
  PROVE  Inv'
<1> USE DEF Inv
<1>1. /\ pc = "people" /\ p \in todo /\ p \in people
      /\ link' = [link EXCEPT ![p] = SpeakerOf(p)]
      /\ lastSpeaker' = IF SpeakerOf(p) > lastSpeaker THEN SpeakerOf(p) ELSE lastSpeaker
      /\ identifier' = [s \in Person |-> IF s \in Slugs(p) THEN SpeakerOf(p) ELSE identifier[s]]
      /\ todo' = todo \ {p}
      /\ UNCHANGED <<records, speech, prompt, pc, cached, peace, failures>>
  BY DEF SyncPerson
<1>2. /\ lastSpeaker \in Nat /\ link \in [Person -> 0..lastSpeaker] /\ SpeakerOf(p) \in Nat
      /\ SpeakerOf(p) # 0 /\ SpeakerOf(p) <= lastSpeaker' /\ lastSpeaker <= lastSpeaker'
      /\ lastSpeaker' \in Nat
      /\ link[p] # 0 => SpeakerOf(p) = link[p] /\ lastSpeaker' = lastSpeaker
      /\ link[p] = 0 => SpeakerOf(p) = lastSpeaker + 1 /\ lastSpeaker' = lastSpeaker + 1
  BY <1>1 DEF TypeOK, Speaker, SpeakerOf
<1> HIDE DEF SpeakerOf
<1>3. Speaker \subseteq Speaker' /\ SpeakerOf(p) \in Speaker'
  BY <1>2 DEF Speaker
<1>4. TypeOK'
  <2>1. link' \in [Person -> Speaker'] /\ identifier' \in [Person -> Speaker']
        /\ credit' \in [Speech -> Speaker']
    BY <1>1, <1>3 DEF TypeOK, speech
  <2>2. \A q \in Person \ people' : link'[q] = 0
    BY <1>1 DEF TypeOK, records
  <2> QED
    BY <1>1, <1>2, <2>1, <2>2 DEF TypeOK, records, speech, peace
<1>5. Past'
  BY <1>1 DEF Past, records
<1>6. SpeakersCounted'
  <2>1. \A q \in people : q # p => link'[q] = link[q] /\ link[q] \in 0..lastSpeaker
    BY <1>1, <1>2 DEF TypeOK
  <2>2. link'[p] = SpeakerOf(p)
    BY <1>1, <1>2
  <2>3. \A q, r \in people' : q # r /\ link'[q] = link'[r] => link'[q] = 0
    <3> SUFFICES ASSUME NEW q \in people, NEW r \in people, q # r, link'[q] = link'[r]
                 PROVE  link'[q] = 0
      BY <1>1 DEF records
    <3>1. CASE link[p] = 0
      BY <1>2, <2>1, <2>2, <3>1 DEF SpeakersCounted
    <3>2. CASE link[p] # 0
      BY <1>1, <1>2, <2>1, <2>2, <3>2 DEF SpeakersCounted
    <3> QED
      BY <3>1, <3>2
  <2>4. CASE link[p] # 0
    <3>1. Unspoken' = Unspoken
      BY <1>1, <1>2, <2>1, <2>2, <2>4 DEF Unspoken, records
    <3> QED
      BY <1>1, <1>2, <2>3, <2>4, <3>1 DEF SpeakersCounted, records
  <2>5. CASE link[p] = 0
    <3>1. Unspoken' = Unspoken \ {p} /\ p \in Unspoken
      BY <1>1, <1>2, <2>1, <2>2, <2>5 DEF Unspoken, records
    <3>2. (born \ Unspoken)' = (born \ Unspoken) \cup {p} /\ p \notin born \ Unspoken
      BY <1>1, <3>1 DEF records, TypeOK
    <3>3. IsFiniteSet(born \ Unspoken)
      BY FS_Subset DEF Past
    <3>4. /\ Cardinality((born \ Unspoken)') = Cardinality(born \ Unspoken) + 1
          /\ Cardinality(born \ Unspoken) \in Nat
      BY <3>2, <3>3, FS_AddElement, FS_CardinalityType
    <3> QED
      BY <1>2, <2>3, <2>5, <3>4 DEF SpeakersCounted
  <2> QED
    BY <2>4, <2>5
<1>7. SpeechesFollow'
  <2> SUFFICES ASSUME NEW s \in Speech \ strayed, credit[s] # 0
               PROVE  credit[s] = link'[now[Author[s]]]
    BY <1>1 DEF SpeechesFollow, records, speech
  <2>1. credit[s] = link[now[Author[s]]] /\ now[Author[s]] \in Person
    BY RecordsAssumption DEF SpeechesFollow, TypeOK
  <2> QED
    BY <1>1, <1>2, <2>1 DEF TypeOK
<1>8. Imported'
  BY <1>1 DEF Imported, records, speech
<1> QED
  BY <1>4, <1>5, <1>6, <1>7, <1>8

LEMMA ImportInv ==
  ASSUME Inv, NEW s \in Speech, Import(s)
  PROVE  Inv'
<1> USE DEF Inv, Import, records, sayit, sync, peace
<1>1. TypeOK'
  BY RecordsAssumption DEF TypeOK, Speaker
<1>2. Past' /\ SpeakersCounted'
  BY DEF Past, SpeakersCounted, Unspoken
<1>3. Imported'
  BY DEF Imported, TypeOK
<1>4. SpeechesFollow'
  BY RecordsAssumption DEF SpeechesFollow, TypeOK
<1> QED
  BY <1>1, <1>2, <1>3, <1>4

LEMMA NextInv ==
  ASSUME Inv, [Next]_vars
  PROVE  Inv'
<1> USE DEF Inv
<1>1. CASE StartSync \/ Clear \/ SyncDone \/ (\E p \in Person : SyncGone(p)) \/ Crash \/ Refused
  <2>1. /\ prompt' \in {<<>>, prompt} /\ todo' \subseteq Person
        /\ prompt' # <<>> => prompt'[1] # prompt'[2]
        /\ pc' \in {"idle", "clear", "people"}
    BY <1>1 DEF StartSync, Clear, SyncDone, SyncGone, Crash, Refused, Stopped, Queryset, sync,
                TypeOK, Past
  <2>2. identifier' \in [Person -> Speaker]
    BY <1>1 DEF StartSync, Clear, SyncDone, SyncGone, Crash, Refused, TypeOK, Speaker
  <2>3. cached' \in [Person -> Person \cup {None}]
    BY <1>1 DEF StartSync, Clear, SyncDone, SyncGone, Crash, Refused, Stopped, Nowhere, sync, TypeOK
  <2>4. calm' \in BOOLEAN /\ settled' \in BOOLEAN /\ failures' \in 0..MaxFailures
    <3>1. calm \in BOOLEAN /\ settled \in BOOLEAN /\ failures \in 0..MaxFailures
      BY DEF TypeOK
    <3>2. calm' \in BOOLEAN /\ settled' \in BOOLEAN
      BY <1>1, <3>1 DEF StartSync, Clear, SyncDone, SyncGone, Crash, Refused, peace
    <3>3. \/ failures' = failures
          \/ failures < MaxFailures /\ failures' = failures + 1
      BY <1>1 DEF StartSync, Clear, SyncDone, SyncGone, Crash, Refused
    <3> QED
      BY <3>1, <3>2, <3>3, RecordsAssumption
  <2>5. UNCHANGED <<records, sayit, speech>>
    BY <1>1 DEF StartSync, Clear, SyncDone, SyncGone, Crash, Refused
  <2> QED
    BY <2>1, <2>2, <2>3, <2>4, <2>5, SameInv
<1>2. CASE \E keep, delete \in Person : AskMerge(keep, delete)
  <2>1. PICK keep \in Person, delete \in Person : AskMerge(keep, delete)
    BY <1>2
  <2>2. prompt' \in people \X people /\ prompt'[1] # prompt'[2]
    BY <2>1 DEF AskMerge
  <2>3. /\ UNCHANGED <<records, sayit, identifier, speech, sync, peace, failures>>
    BY <2>1 DEF AskMerge
  <2> QED
    BY <2>2, <2>3, SameInv DEF sync, peace, TypeOK
<1>3. CASE Confirm
  <2>1. prompt[1] \in born /\ prompt[2] \in Person /\ prompt[1] # prompt[2]
    BY <1>3 DEF Confirm, Past, TypeOK
  <2> QED
    BY <1>3, <2>1, MergeInv DEF Confirm
<1>4. CASE \E keep, delete \in Person : MergeBehind(keep, delete)
  BY <1>4, MergeInv DEF MergeBehind, TypeOK
<1>5. CASE UNCHANGED vars
  BY <1>5 DEF vars, records, sayit, speech, sync, peace, TypeOK, Speaker, Past,
              SpeakersCounted, Unspoken, Imported, SpeechesFollow
<1> QED
  BY <1>1, <1>2, <1>3, <1>4, <1>5, CreateInv, SyncPersonInv, ImportInv DEF Next, SyncStep

LEMMA Invariance == Spec => []Inv
<1>1. Init => Inv
  BY InitInv
<1> QED
  BY <1>1, NextInv, PTL DEF Spec

-----------------------------------------------------------------------------
(* The slugs a synchronisation gives the speaker of p to lead to p.        *)
LEMMA SyncPersonSynced ==
  ASSUME Inv, Synced, NEW p \in Person, SyncPerson(p)
  PROVE  Synced'
<1> USE DEF Inv
<1>1. /\ pc = "people" /\ pc' = pc /\ p \in todo /\ p \in people
      /\ link' = [link EXCEPT ![p] = SpeakerOf(p)]
      /\ identifier' = [s \in Person |-> IF s \in Slugs(p) THEN SpeakerOf(p) ELSE identifier[s]]
      /\ todo' = todo \ {p}
      /\ UNCHANGED <<records, cached, peace>>
  BY DEF SyncPerson
<1> HIDE DEF SpeakerOf
<1>2. ASSUME calm, NEW s \in born
      PROVE  Follows(s, todo)'
  <2>1. cached = redirect /\ Follows(s, todo)
    BY <1>1, <1>2 DEF Synced
  <2>2. /\ s \in Person /\ now[s] \in Person /\ link'[p] = SpeakerOf(p)
        /\ \A q \in Person : q # p => link'[q] = link[q]
        /\ people' = people /\ redirect' = redirect /\ now' = now
    BY <1>1 DEF TypeOK, records
  <2>3. /\ s \in people => now[s] = s
        /\ redirect[s] \in people => now[s] = redirect[s]
        /\ redirect[s] \in people => s \notin people
    BY <2>2, RecordsAssumption DEF Past, TypeOK
  <2>4. identifier'[s] = IF s = p \/ redirect[s] = p THEN SpeakerOf(p) ELSE identifier[s]
    BY <1>1, <2>1, <2>2 DEF Slugs
  <2>5. CASE s = p \/ redirect[s] = p
    BY <1>1, <2>2, <2>3, <2>4, <2>5 DEF Follows
  <2>6. CASE s # p /\ redirect[s] # p
    <3>1. /\ s \in people' \ todo' <=> s \in people \ todo
          /\ redirect'[s] \in people' \ todo' <=> redirect[s] \in people \ todo
      BY <1>1, <2>2, <2>6
    <3>2. s \in people \/ redirect[s] \in people => link'[now[s]] = link[now[s]]
      BY <2>2, <2>3, <2>6
    <3> QED
      BY <2>1, <2>2, <2>4, <2>6, <3>1, <3>2 DEF Follows
  <2> QED
    BY <2>5, <2>6
<1>3. pc' # "idle" /\ calm' = calm /\ settled' = settled /\ cached' = cached
      /\ redirect' = redirect /\ born' = born
  BY <1>1 DEF records, peace
<1>4. ~settled
  BY <1>1 DEF Synced
<1> QED
  BY <1>1, <1>2, <1>3, <1>4 DEF Synced

(* Steps that leave alone all that Synced is about, or end the undisturbed *)
(* time, or the synchronisation.                                           *)
LEMMA SameSynced ==
  ASSUME Synced, UNCHANGED <<records, link, identifier, sync, peace>>
  PROVE  Synced'
BY DEF Synced, Follows, records, sync, peace

LEMMA DisturbSynced ==
  ASSUME calm' = FALSE, settled' = FALSE
  PROVE  Synced'
BY DEF Synced

LEMMA NextSynced ==
  ASSUME Inv, Synced, [Next]_vars
  PROVE  Synced'
<1> USE DEF Inv
<1>1. CASE StartSync
  BY <1>1 DEF StartSync, records, Synced
<1>2. CASE Clear
  <2>1. /\ pc = "clear" /\ pc' = "people" /\ todo' = people
        /\ identifier' = [p \in Person |-> 0]
        /\ UNCHANGED <<records, cached, peace>>
    BY <1>2 DEF Clear, Queryset
  <2>2. ~settled'
    BY <2>1 DEF Synced, peace
  <2>3. calm' => cached' = redirect'
    BY <2>1 DEF Synced, peace, records
  <2>4. \A s \in born' : Follows(s, todo)'
    BY <2>1 DEF Follows, records, TypeOK
  <2> QED
    BY <2>1, <2>2, <2>3, <2>4 DEF Synced
<1>3. CASE SyncDone
  <2>1. /\ pc = "people" /\ pc' = "idle" /\ todo = {} /\ settled' = calm
        /\ UNCHANGED <<records, link, identifier>>
    BY <1>3 DEF SyncDone, Stopped, sayit
  <2>2. calm => \A s \in born' : Follows(s, {})'
    BY <2>1 DEF Synced, Follows, records
  <2> QED
    BY <2>1, <2>2 DEF Synced
<1>4. CASE Crash \/ \E p \in Person : SyncGone(p)
  <2>1. pc # "idle" /\ pc' = "idle" /\ UNCHANGED peace
    BY <1>4 DEF Crash, SyncGone, Stopped
  <2>2. ~settled'
    BY <2>1 DEF Synced, peace
  <2> QED
    BY <2>1, <2>2 DEF Synced
<1>5. CASE \/ Refused \/ UNCHANGED vars
           \/ \E keep, delete \in Person : AskMerge(keep, delete)
           \/ \E s \in Speech : Import(s)
  <2>1. UNCHANGED <<records, link, identifier, sync, peace>>
    BY <1>5 DEF Refused, AskMerge, Import, vars, sayit
  <2> QED
    BY <2>1, SameSynced
<1>6. CASE \/ Confirm \/ \E p \in Person : Create(p)
           \/ \E keep, delete \in Person : MergeBehind(keep, delete)
  <2>1. calm' = FALSE /\ settled' = FALSE
    BY <1>6 DEF Confirm, MergeBehind, Merge, Create, Disturb
  <2> QED
    BY <2>1, DisturbSynced
<1> QED
  BY <1>1, <1>2, <1>3, <1>4, <1>5, <1>6, SyncPersonSynced DEF Next, SyncStep

-----------------------------------------------------------------------------
(* core_merge_people and the synchronisation, for any number of people,    *)
(* speeches, merges and kills: the speeches of a person are with one       *)
(* speaker, and no speaker is made twice for one person or is shared.      *)
THEOREM SpeechesStay == Spec => []SpeechesTogether
<1>1. Inv => SpeechesTogether
  <2> SUFFICES ASSUME Inv
               PROVE  SpeechesTogether
    OBVIOUS
  <2>1. IsFiniteSet(born) /\ IsFiniteSet(born \ Unspoken)
    BY FS_Subset DEF Inv, Past
  <2>2. /\ Cardinality(born \ Unspoken) <= Cardinality(born)
        /\ Cardinality(born \ Unspoken) \in Nat /\ Cardinality(born) \in Nat
    BY <2>1, FS_Subset, FS_CardinalityType
  <2>3. lastSpeaker \in Nat /\ SpeakersCounted
    BY DEF Inv, TypeOK
  <2>4. OneSpeakerEach
    BY <2>2, <2>3 DEF SpeakersCounted, OneSpeakerEach
  <2> QED
    BY <2>4 DEF Inv, SpeechesTogether
<1> QED
  BY <1>1, Invariance, PTL

(* pombola_sayit_sync_pombola_to_popolo, when nothing disturbs it, leaves  *)
(* every slug with the speaker of the person its own has become, and the   *)
(* slugs of people who were merged twice with none.                        *)
THEOREM SlugsLead == Spec => []SlugsFollow
<1>1. Init => Inv /\ Synced
  BY InitInv
<1>2. Inv /\ Synced /\ [Next]_vars => (Inv /\ Synced)'
  BY NextInv, NextSynced
<1>3. Synced => SlugsFollow
  BY DEF Synced, Follows, SlugsFollow
<1> QED
  BY <1>1, <1>2, <1>3, PTL DEF Spec
-----------------------------------------------------------------------------
(* Tasks, which every save of a person brings up to date, for any number   *)
(* of people, kinds of contact, requests and rows.                         *)

Types ==
    /\ people \subseteq Person /\ contacts \in [Person -> SUBSET Kind]
    /\ last \in 0..MaxTasks /\ tasks \subseteq 1..last
    /\ about \in [Task -> (Person \X Kind) \cup {Nobody}]
    /\ \A t \in 1..last : about[t] \in Person \X Kind
    /\ due \in [Task -> Due] /\ attempts \in [Task -> Nat] /\ posts \in [Task -> Nat]
    /\ request \in [Editor -> Request \cup {Free}]
    /\ page \in [Volunteer -> Page \cup {NoPage}]
    /\ \A v \in Volunteer : page[v] # NoPage => page[v].task \in 1..last
    /\ stale \subseteq Task /\ unsettled \subseteq Person

(* The contacts a person has, for the tasks, when a request is committed.  *)
Have(r) == IF r.op = "delete" THEN Kind ELSE contacts[r.person] \cup Added(r.kind)

(* A person has no two tasks for a kind that is not had.                   *)
OneEach(p, have) ==
    \A s, t \in tasks : about[s] = about[t] /\ about[s][1] = p /\ about[s][2] \notin have => s = t

(* What a request r that nothing has overtaken is to commit is what it     *)
(* would read now; any request drops only tasks of its own person.         *)
Current(r) ==
    /\ r.person \in people
    /\ \A k \in Kind : k \in r.made <=>
         k \notin Have(r) /\ \A t \in tasks : about[t] # <<r.person, k>>
    /\ \A t \in tasks : about[t][1] = r.person => (t \in r.dropped <=> about[t][2] \in Have(r))
    /\ OneEach(r.person, Have(r))

Promised(r) ==
    /\ \A t \in r.dropped : t \in 1..last /\ about[t][1] = r.person
    /\ r.alone /\ r.op # "remove" => Current(r)

UpToDate == \A e \in Editor : request[e] # Free => Promised(request[e])

(* A page whose task nobody has saved since has its attempts, and knows of *)
(* a deferral by days.                                                     *)
Fresh ==
    \A v \in Volunteer : page[v] # NoPage /\ page[v].alone =>
        /\ attempts[page[v].task] = page[v].attempts
        /\ due[page[v].task] = "later" => page[v].due = "later"

(* TasksMatch without numbers: a task for each kind that is missing, and   *)
(* no other.                                                               *)
Settled(p) ==
    /\ \A t \in tasks : about[t][1] = p => p \in people /\ about[t][2] \notin contacts[p]
    /\ OneEach(p, contacts[p])
    /\ p \in people => \A k \in Kind \ contacts[p] : \E t \in tasks : about[t] = <<p, k>>

Match == \A p \in Person \ unsettled : Settled(p)

TaskInv == Types /\ UpToDate /\ Fresh /\ Match /\ AttemptsCounted

-----------------------------------------------------------------------------
(* SetToSeq numbers the members of a finite set.                           *)
LEMMA Numbered ==
  ASSUME NEW T, IsFiniteSet(T)
  PROVE  /\ Cardinality(T) \in Nat
         /\ SetToSeq(T) \in [1..Cardinality(T) -> T]
         /\ Len(SetToSeq(T)) = Cardinality(T)
         /\ \A m, n \in 1..Cardinality(T) : SetToSeq(T)[m] = SetToSeq(T)[n] => m = n
         /\ \A x \in T : \E n \in 1..Cardinality(T) : SetToSeq(T)[n] = x
<1>1. Cardinality(T) \in Nat /\ ExistsBijection(1..Cardinality(T), T)
  BY FS_CardinalityType
<1>2. \E f \in [1..Cardinality(T) -> T] : IsInjective(f)
  BY <1>1 DEF ExistsBijection, Bijection, Injection
<1>3. SetToSeq(T) \in [1..Cardinality(T) -> T] /\ IsInjective(SetToSeq(T))
  BY <1>2 DEF SetToSeq
<1>4. SetToSeq(T) \in Injection(1..Cardinality(T), T)
  BY <1>3 DEF Injection
<1>5. IsFiniteSet(1..Cardinality(T)) /\ Cardinality(1..Cardinality(T)) = Cardinality(T)
  BY <1>1, FS_Interval
<1>6. SetToSeq(T) \in Surjection(1..Cardinality(T), T)
  BY <1>4, <1>5, FS_Injection
<1>7. Len(SetToSeq(T)) = Cardinality(T)
  BY <1>1, <1>3
<1> QED
  BY <1>1, <1>3, <1>6, <1>7 DEF IsInjective, Surjection

LEMMA AtMostOne ==
  ASSUME NEW T, IsFiniteSet(T), ~ (Cardinality(T) > 1), NEW x \in T, NEW y \in T
  PROVE  x = y
<1> SUFFICES ASSUME x # y
             PROVE  FALSE
  OBVIOUS
<1>1. IsFiniteSet({x}) /\ Cardinality({x}) = 1
  BY FS_Singleton
<1>2. IsFiniteSet({x} \cup {y}) /\ Cardinality({x} \cup {y}) = 2
  <2>1. y \notin {x}
    OBVIOUS
  <2>2. IsFiniteSet({x} \cup {y}) /\ Cardinality({x} \cup {y}) = Cardinality({x}) + 1
    BY <1>1, <2>1, FS_AddElement
  <2> QED
    BY <1>1, <2>2
<1>3. Cardinality({x} \cup {y}) <= Cardinality(T) /\ Cardinality(T) \in Nat
  BY <1>2, FS_Subset, FS_CardinalityType
<1> QED
  BY <1>2, <1>3

LEMMA RowsFinite ==
  ASSUME TasksAssumption, Types, NEW p, NEW k
  PROVE  IsFiniteSet(Rows(p, k))
<1>1. last \in 0..MaxTasks /\ tasks \subseteq 1..last /\ MaxTasks \in Nat
  BY DEF Types, TasksAssumption
<1>2. last \in Int
  BY <1>1
<1>3. IsFiniteSet(1..last)
  BY <1>2, FS_Interval
<1>4. Rows(p, k) \subseteq 1..last
  BY <1>1 DEF Rows
<1> QED
  BY <1>3, <1>4, FS_Subset

-----------------------------------------------------------------------------
LEMMA InitTasks ==
  ASSUME TasksAssumption, TasksInit
  PROVE  TaskInv
<1> DEFINE Missing == {pk \in Person \X Kind : pk[2] \notin contacts[pk[1]]}
           given   == SetToSeq(Missing)
<1>1. IsFiniteSet(Missing) /\ Cardinality(Missing) <= MaxTasks /\ MaxTasks \in Nat
  <2>1. IsFiniteSet(Person \X Kind) /\ Cardinality(Person \X Kind) <= MaxTasks /\ MaxTasks \in Nat
    BY FS_Product DEF TasksAssumption
  <2>2. Missing \subseteq Person \X Kind
    OBVIOUS
  <2>3. /\ IsFiniteSet(Missing) /\ Cardinality(Missing) <= Cardinality(Person \X Kind)
        /\ Cardinality(Missing) \in Nat /\ Cardinality(Person \X Kind) \in Nat
    BY <2>1, <2>2, FS_Subset, FS_CardinalityType
  <2> QED
    BY <2>1, <2>3
<1>2. /\ Len(given) \in 0..MaxTasks /\ given \in [1..Len(given) -> Missing]
      /\ \A m, n \in 1..Len(given) : given[m] = given[n] => m = n
      /\ \A x \in Missing : \E n \in 1..Len(given) : given[n] = x
  <2>1. /\ Cardinality(Missing) \in Nat /\ Len(given) = Cardinality(Missing)
        /\ given \in [1..Cardinality(Missing) -> Missing]
        /\ \A m, n \in 1..Cardinality(Missing) : given[m] = given[n] => m = n
        /\ \A x \in Missing : \E n \in 1..Cardinality(Missing) : given[n] = x
    BY <1>1, Numbered
  <2> HIDE DEF given, Missing
  <2>2. Len(given) \in 0..MaxTasks
    BY <1>1, <2>1
  <2> QED
    BY <2>1, <2>2
<1>3. /\ people = Person /\ contacts \in [Person -> SUBSET Kind]
      /\ last = Len(given) /\ tasks = 1..Len(given) /\ unsettled = {}
      /\ about = [t \in Task |-> IF t \in DOMAIN given THEN given[t] ELSE Nobody]
  BY DEF TasksInit
<1> HIDE DEF given
<1>4. \A t \in 1..last : t \in Task /\ about[t] = given[t] /\ given[t] \in Missing
  BY <1>1, <1>2, <1>3 DEF Task
<1>5. Types
  <2>1. about \in [Task -> (Person \X Kind) \cup {Nobody}]
    BY <1>2, <1>3
  <2>2. last \in 0..MaxTasks /\ tasks \subseteq 1..last /\ \A t \in 1..last : about[t] \in Person \X Kind
    BY <1>2, <1>3, <1>4
  <2> QED
    BY <1>3, <2>1, <2>2 DEF TasksInit, Types, Due
<1>6. Match
  <2> SUFFICES ASSUME NEW p \in Person
               PROVE  /\ \A t \in tasks : about[t][1] = p => about[t][2] \notin contacts[p]
                      /\ OneEach(p, contacts[p])
                      /\ \A k \in Kind \ contacts[p] : \E t \in tasks : about[t] = <<p, k>>
    BY <1>3 DEF Match, Settled
  <2>1. \A t \in tasks : about[t][1] = p => about[t][2] \notin contacts[p]
    BY <1>3, <1>4
  <2>2. OneEach(p, contacts[p])
    BY <1>2, <1>3, <1>4 DEF OneEach
  <2>3. \A k \in Kind \ contacts[p] : \E t \in tasks : about[t] = <<p, k>>
    <3> SUFFICES ASSUME NEW k \in Kind \ contacts[p]
                 PROVE  \E t \in tasks : about[t] = <<p, k>>
      OBVIOUS
    <3>1. <<p, k>> \in Missing
      OBVIOUS
    <3> QED
      BY <1>2, <1>3, <1>4, <3>1
  <2> QED
    BY <2>1, <2>2, <2>3
<1>7. UpToDate /\ Fresh /\ AttemptsCounted
  BY DEF TasksInit, UpToDate, Fresh, AttemptsCounted, Free, NoPage
<1> QED
  BY <1>5, <1>6, <1>7 DEF TaskInv

-----------------------------------------------------------------------------
LEMMA MadeMissing ==
  ASSUME NEW p, NEW have
  PROVE  /\ Made(p, have) \in SUBSET Kind
         /\ \A k \in Kind : k \in Made(p, have) <=> k \notin have /\ \A t \in tasks : about[t] # <<p, k>>
BY DEF Made, Wanted, Rows

LEMMA ReadTasks ==
  ASSUME TasksAssumption, Types, NEW p \in Person, NEW have \in SUBSET Kind, ~ Multiple(p, have)
  PROVE  /\ Dropped(p, have) \in SUBSET Task
         /\ \A t \in Dropped(p, have) : t \in 1..last /\ about[t][1] = p
         /\ \A t \in tasks : about[t][1] = p => (t \in Dropped(p, have) <=> about[t][2] \in have)
         /\ OneEach(p, have)
<1>1. \A t \in tasks : t \in Task /\ t \in 1..last /\ about[t] \in Person \X Kind
  <2>1. last \in 0..MaxTasks /\ tasks \subseteq 1..last /\ \A t \in 1..last : about[t] \in Person \X Kind
    BY DEF Types
  <2> QED
    BY <2>1 DEF Task, TasksAssumption
<1>2. \A t : t \in Dropped(p, have) <=> \E k \in have : t \in tasks /\ about[t] = <<p, k>>
  BY DEF Dropped, Wanted, Rows
<1>3. OneEach(p, have)
  <2> SUFFICES ASSUME NEW s \in tasks, NEW t \in tasks, about[s] = about[t],
                      about[s][1] = p, about[s][2] \notin have
               PROVE  s = t
    BY DEF OneEach
  <2> DEFINE k == about[s][2]
  <2>1. k \in Wanted(have) /\ about[s] = <<p, k>>
    BY <1>1 DEF Wanted
  <2>2. s \in Rows(p, k) /\ t \in Rows(p, k)
    BY <2>1 DEF Rows
  <2>3. ~ (Cardinality(Rows(p, k)) > 1)
    BY <2>1 DEF Multiple
  <2> QED
    BY <2>2, <2>3, RowsFinite, AtMostOne
<1>4. \A t \in tasks : about[t][1] = p => (t \in Dropped(p, have) <=> about[t][2] \in have)
  BY <1>1, <1>2
<1>5. \A t \in Dropped(p, have) : t \in Task /\ t \in 1..last /\ about[t][1] = p
  BY <1>1, <1>2
<1> QED
  BY <1>3, <1>4, <1>5

(* A request begins.                                                       *)
LEMMA StartInv ==
  ASSUME TaskInv, NEW e \in Editor, NEW op, NEW p \in Person, NEW k \in Kind \cup {None},
         NEW made \in SUBSET Kind, NEW dropped \in SUBSET Task,
         op \in {"contact", "person", "remove", "delete"},
         Promised([op |-> op, person |-> p, kind |-> k, made |-> made,
                   dropped |-> dropped, alone |-> TRUE]),
         Start(e, op, p, k, made, dropped)
  PROVE  TaskInv'
<1> DEFINE r == [op |-> op, person |-> p, kind |-> k, made |-> made,
                 dropped |-> dropped, alone |-> TRUE]
<1>1. r \in Request
  BY DEF Request
<1>2. /\ request' = [request EXCEPT ![e] = r]
      /\ UNCHANGED <<people, contacts, tasks, about, due, attempts, last, page, posts, stale, unsettled>>
  BY DEF Start, table, history
<1> HIDE DEF r
<1>3. Types'
  BY <1>1, <1>2 DEF TaskInv, Types
<1>4. UpToDate'
  <2> SUFFICES ASSUME NEW x \in Editor, NEW q, q = request'[x], q # Free
               PROVE  Promised(q)'
    BY DEF UpToDate, Promised, Current, Have, OneEach
  <2>1. q = request[x] \/ q = r
    BY <1>2 DEF TaskInv, Types
  <2>2. Promised(q)
    BY <2>1 DEF TaskInv, UpToDate, r
  <2> QED
    BY <2>2, <1>2 DEF Promised, Current, Have, OneEach
<1>5. (Fresh /\ Match /\ AttemptsCounted)'
  BY <1>2 DEF TaskInv, Fresh, Match, Settled, OneEach, AttemptsCounted
<1> QED
  BY <1>3, <1>4, <1>5 DEF TaskInv

LEMMA ReadInv ==
  ASSUME TasksAssumption, TaskInv, NEW e \in Editor, NEW op \in {"contact", "person", "delete"},
         NEW p \in Person, NEW k \in Kind \cup {None}, NEW have \in SUBSET Kind,
         have = IF op = "delete" THEN Kind ELSE contacts[p] \cup Added(k),
         ~ Multiple(p, have), Start(e, op, p, k, Made(p, have), Dropped(p, have))
  PROVE  TaskInv'
<1> DEFINE made    == Made(p, have)
           dropped == Dropped(p, have)
           r == [op |-> op, person |-> p, kind |-> k, made |-> made,
                 dropped |-> dropped, alone |-> TRUE]
<1> HIDE DEF r
<1>1. /\ made \in SUBSET Kind /\ dropped \in SUBSET Task /\ OneEach(p, have)
      /\ \A t \in dropped : t \in 1..last /\ about[t][1] = p
      /\ \A t \in tasks : about[t][1] = p => (t \in dropped <=> about[t][2] \in have)
      /\ \A j \in Kind : j \in made <=> j \notin have /\ \A t \in tasks : about[t] # <<p, j>>
  <2>1. Types
    BY DEF TaskInv
  <2>2. Made(p, have) \in SUBSET Kind
    BY MadeMissing
  <2>3. Dropped(p, have) \in SUBSET Task /\ OneEach(p, have)
    BY <2>1, ReadTasks
  <2>4. \A t \in Dropped(p, have) : t \in 1..last /\ about[t][1] = p
    BY <2>1, ReadTasks
  <2>5. \A t \in tasks : about[t][1] = p => (t \in Dropped(p, have) <=> about[t][2] \in have)
    BY <2>1, ReadTasks
  <2>6. \A j \in Kind : j \in Made(p, have) <=> j \notin have /\ \A t \in tasks : about[t] # <<p, j>>
    BY MadeMissing
  <2> QED
    BY <2>2, <2>3, <2>4, <2>5, <2>6
<1>2. p \in people
  BY DEF Start
<1>3. Start(e, op, p, k, made, dropped)
  OBVIOUS
<1> HIDE DEF made, dropped
<1>4. r.op = op /\ r.person = p /\ r.kind = k /\ r.made = made /\ r.dropped = dropped
  BY DEF r
<1>5. Have(r) = have
  BY <1>4 DEF Have
<1>6. Promised(r)
  BY <1>1, <1>2, <1>4, <1>5 DEF Promised, Current
<1> QED
  BY <1>1, <1>3, <1>6, StartInv DEF r

LEMMA EditInv ==
  ASSUME TasksAssumption, TaskInv, NEW e \in Editor, NEW p \in Person, NEW k \in Kind \cup {None},
         \/ k \in Kind /\ (SaveContact(e, p, k) \/ RemoveContact(e, p, k))
         \/ SavePerson(e, p, k) \/ DeletePerson(e, p)
  PROVE  TaskInv'
<1>1. contacts[p] \in SUBSET Kind /\ None \notin Kind
  BY DEF TaskInv, Types, TasksAssumption
<1>2. CASE k \in Kind /\ SaveContact(e, p, k)
  <2>1. contacts[p] \cup {k} \in SUBSET Kind /\ Added(k) = {k}
    BY <1>1, <1>2 DEF Added
  <2> QED
    BY <1>2, <2>1, ReadInv DEF SaveContact
<1>3. CASE k \in Kind /\ RemoveContact(e, p, k)
  <2>1. Promised([op |-> "remove", person |-> p, kind |-> k, made |-> {},
                  dropped |-> {}, alone |-> TRUE])
    BY DEF Promised
  <2>2. /\ {} \in SUBSET Kind /\ {} \in SUBSET Task
        /\ Start(e, "remove", p, k, {}, {})
    BY <1>3 DEF RemoveContact
  <2> QED
    BY <2>1, <2>2, StartInv
<1>4. CASE SavePerson(e, p, k)
  <2>1. contacts[p] \cup Added(k) \in SUBSET Kind
    BY <1>1 DEF Added
  <2> QED
    BY <1>4, <2>1, ReadInv DEF SavePerson
<1>5. CASE DeletePerson(e, p)
  <2>1. ~ Multiple(p, Kind) /\ Made(p, Kind) = {}
    BY DEF Multiple, Made, Wanted
  <2>2. Start(e, "delete", p, None, Made(p, Kind), Dropped(p, Kind))
    BY <1>5, <2>1 DEF DeletePerson
  <2> QED
    BY <2>1, <2>2, ReadInv
<1> QED
  BY <1>2, <1>3, <1>4, <1>5

(* What the tasks are once a request on p has been committed.              *)
Committed(p, made, dropped) ==
    /\ last' \in last..MaxTasks /\ tasks' = (tasks \ dropped) \cup (last + 1 .. last')
    /\ about' \in [Task -> (Person \X Kind) \cup {Nobody}]
    /\ \A t \in 1..last : about'[t] = about[t]
    /\ \A t \in last + 1 .. last' : about'[t][1] = p /\ about'[t][2] \in made /\ about'[t] \in Person \X Kind
    /\ \A s, t \in last + 1 .. last' : about'[s] = about'[t] => s = t
    /\ \A k \in made : \E t \in last + 1 .. last' : about'[t] = <<p, k>>

LEMMA CommitTasks ==
  ASSUME TasksAssumption, Types, NEW e \in Editor, Commit(e)
  PROVE  Committed(request[e].person, request[e].made, request[e].dropped)
<1> DEFINE r     == request[e]
           p     == r.person
           given == SetToSeq(r.made)
           n     == Cardinality(r.made)
<1>1. r \in Request
  BY DEF Types, Commit
<1>2. p \in Person /\ r.made \in SUBSET Kind
  BY <1>1 DEF Request
<1>3. IsFiniteSet(r.made)
  BY <1>2, FS_Subset DEF TasksAssumption
<1>4. /\ n \in Nat /\ Len(given) = n /\ given \in [1..n -> r.made]
      /\ \A i, j \in 1..n : given[i] = given[j] => i = j
      /\ \A x \in r.made : \E i \in 1..n : given[i] = x
  BY <1>3, Numbered
<1>5. /\ last + Len(given) <= MaxTasks /\ last' = last + Len(given)
      /\ tasks' = (tasks \ r.dropped) \cup (last + 1 .. last')
      /\ about' = [t \in Task |-> IF t \in last + 1 .. last + Len(given)
                                    THEN <<p, given[t - last]>> ELSE about[t]]
  BY DEF Commit
<1>6. last \in 0..MaxTasks /\ MaxTasks \in Nat /\ about \in [Task -> (Person \X Kind) \cup {Nobody}]
  BY DEF Types, TasksAssumption
<1> HIDE DEF given, n, p
<1>7. last' \in last..MaxTasks /\ last' = last + n
  BY <1>4, <1>5, <1>6
<1>8. \A t \in 1..last : about'[t] = about[t]
  BY <1>5, <1>6 DEF Task
<1>9. \A t \in last + 1 .. last' : t - last \in 1..n /\ about'[t] = <<p, given[t - last]>>
  BY <1>4, <1>5, <1>6, <1>7 DEF Task
<1>10. \A t \in last + 1 .. last' : about'[t][1] = p /\ about'[t][2] \in r.made /\ about'[t] \in Person \X Kind
  <2> SUFFICES ASSUME NEW t \in last + 1 .. last'
               PROVE  about'[t][1] = p /\ about'[t][2] \in r.made /\ about'[t] \in Person \X Kind
    OBVIOUS
  <2>1. given[t - last] \in r.made /\ about'[t] = <<p, given[t - last]>>
    BY <1>4, <1>9
  <2> QED
    BY <1>2, <2>1 DEF p
<1>11. \A s, t \in last + 1 .. last' : about'[s] = about'[t] => s = t
  <2> SUFFICES ASSUME NEW s \in last + 1 .. last', NEW t \in last + 1 .. last', about'[s] = about'[t]
               PROVE  s = t
    OBVIOUS
  <2>1. given[s - last] = given[t - last]
    BY <1>9
  <2>2. s - last = t - last
    BY <1>4, <1>9, <2>1
  <2> QED
    BY <1>6, <1>7, <2>2
<1>12. \A k \in r.made : \E t \in last + 1 .. last' : about'[t] = <<p, k>>
  <2> SUFFICES ASSUME NEW k \in r.made
               PROVE  \E t \in last + 1 .. last' : about'[t] = <<p, k>>
    OBVIOUS
  <2>1. PICK i \in 1..n : given[i] = k
    BY <1>4
  <2>2. last + i \in last + 1 .. last' /\ (last + i) - last = i
    BY <1>4, <1>6, <1>7
  <2> QED
    BY <1>9, <2>1, <2>2
<1>13. about' \in [Task -> (Person \X Kind) \cup {Nobody}]
  <2> SUFFICES ASSUME NEW t \in Task
               PROVE  about'[t] \in (Person \X Kind) \cup {Nobody}
    BY <1>5
  <2>1. CASE t \in last + 1 .. last'
    BY <1>10, <2>1
  <2>2. CASE t \notin last + 1 .. last'
    BY <1>5, <1>6, <2>2
  <2> QED
    BY <2>1, <2>2
<1> QED
  BY <1>5, <1>7, <1>8, <1>10, <1>11, <1>12, <1>13 DEF Committed, p

(* What leaves a person's tasks as they are leaves them settled, and the   *)
(* requests on that person up to date.                                     *)
LEMMA SameKept ==
  ASSUME NEW q,
         \A t \in 1..last : t \in 1..last' /\ about'[t] = about[t],
         \A t \in tasks' : about'[t][1] = q => t \in tasks /\ about'[t] = about[t],
         \A t \in tasks : about[t][1] = q => t \in tasks' /\ about'[t] = about[t],
         q \in people' <=> q \in people, contacts'[q] = contacts[q]
  PROVE  /\ Settled(q) => Settled(q)'
         /\ \A r : r.person = q /\ Promised(r) => Promised(r)'
<1>1. ASSUME Settled(q)
      PROVE  Settled(q)'
  <2>1. \A t \in tasks' : about'[t][1] = q => q \in people' /\ about'[t][2] \notin contacts'[q]
    BY <1>1 DEF Settled
  <2>2. OneEach(q, contacts[q])'
    BY <1>1 DEF Settled, OneEach
  <2>3. ASSUME q \in people', NEW k \in Kind \ contacts'[q]
        PROVE  \E t \in tasks' : about'[t] = <<q, k>>
    <3>1. PICK t \in tasks : about[t] = <<q, k>>
      BY <1>1, <2>3 DEF Settled
    <3>2. about[t][1] = q
      BY <3>1
    <3> QED
      BY <3>1, <3>2
  <2> QED
    BY <2>1, <2>2, <2>3 DEF Settled
<1>2. ASSUME NEW r, r.person = q, Promised(r)
      PROVE  Promised(r)'
  <2>1. \A t \in r.dropped : t \in 1..last' /\ about'[t][1] = q
    BY <1>2 DEF Promised
  <2>2. ASSUME Current(r)
        PROVE  Current(r)'
    <3> DEFINE had == Have(r)
    <3>1. Have(r)' = had
      BY <1>2 DEF Have
    <3> HIDE DEF had
    <3>2. OneEach(r.person, had)
      BY <2>2 DEF Current, had
    <3>3. OneEach(r.person, Have(r))'
      BY <1>2, <3>1, <3>2 DEF OneEach
    <3>4. \A k \in Kind : k \in r.made <=>
             k \notin had /\ \A t \in tasks' : about'[t] # <<q, k>>
      <4>1. \A k \in Kind : (\A t \in tasks : about[t] # <<q, k>>)
                            <=> \A t \in tasks' : about'[t] # <<q, k>>
        OBVIOUS
      <4>2. \A k \in Kind : k \in r.made <=> k \notin had /\ \A t \in tasks : about[t] # <<q, k>>
        BY <1>2, <2>2 DEF Current, had
      <4> QED
        BY <4>1, <4>2
    <3>5. \A t \in tasks' : about'[t][1] = q => (t \in r.dropped <=> about'[t][2] \in had)
      BY <1>2, <2>2 DEF Current, had
    <3> QED
      <4>1. r.person \in people'
        BY <1>2, <2>2 DEF Current
      <4> QED
        BY <1>2, <3>1, <3>3, <3>4, <3>5, <4>1 DEF Current
  <2> QED
    BY <1>2, <2>1, <2>2 DEF Promised
<1> QED
  BY <1>1, <1>2

LEMMA SameTasks ==
  ASSUME TaskInv, UNCHANGED <<people, contacts, tasks, about, last, request, unsettled>>
  PROVE  UpToDate' /\ Match'
<1>1. ASSUME NEW q
      PROVE  /\ Settled(q) => Settled(q)'
             /\ \A r : r.person = q /\ Promised(r) => Promised(r)'
  BY SameKept
<1>2. UpToDate'
  <2> SUFFICES ASSUME NEW x \in Editor, NEW r, r = request'[x], r # Free
               PROVE  Promised(r)'
    BY DEF UpToDate, Promised, Current, Have, OneEach
  <2> QED
    BY <1>1 DEF TaskInv, UpToDate
<1>3. Match'
  BY <1>1 DEF TaskInv, Match
<1> QED
  BY <1>2, <1>3

(* A request is committed.                                                 *)
LEMMA CommitInv ==
  ASSUME TasksAssumption, TaskInv, NEW e \in Editor, Commit(e)
  PROVE  TaskInv'
<1> DEFINE r == request[e]
           p == r.person
<1>1. /\ r \in Request /\ Promised(r) /\ p \in Person
      /\ r.op \in {"contact", "person", "remove", "delete"} /\ r.kind \in Kind \cup {None}
      /\ r.alone \in BOOLEAN
  <2>1. r \in Request
    BY DEF TaskInv, Types, Commit
  <2> QED
    BY <2>1 DEF TaskInv, UpToDate, Request, Commit
<1>2. Committed(p, r.made, r.dropped)
  BY CommitTasks DEF TaskInv
<1>3. /\ last \in 0..MaxTasks /\ MaxTasks \in Nat /\ tasks \subseteq 1..last /\ last' \in last..MaxTasks
      /\ \A t \in 1..last : t \in 1..last' /\ t \notin last + 1 .. last'
      /\ \A t \in last + 1 .. last' : t \in 1..last' /\ t \notin 1..last
      /\ \A t \in 1..last' : t \in Task /\ (t \in 1..last \/ t \in last + 1 .. last')
  <2>1. last \in 0..MaxTasks /\ MaxTasks \in Nat /\ tasks \subseteq 1..last /\ last' \in last..MaxTasks
    BY <1>2 DEF TaskInv, Types, TasksAssumption, Committed
  <2> QED
    BY <2>1 DEF Task
<1>4. /\ people' = IF r.op = "delete" THEN people \ {p} ELSE people
      /\ contacts' \in [Person -> SUBSET Kind]
      /\ contacts'[p] = (IF r.op = "delete" THEN {}
                         ELSE IF r.op = "remove" THEN contacts[p] \ {r.kind} ELSE Have(r))
      /\ \A q \in Person \ {p} : contacts'[q] = contacts[q]
  <2>1. contacts \in [Person -> SUBSET Kind] /\ Added(r.kind) \in SUBSET Kind
    BY <1>1 DEF TaskInv, Types, Added
  <2> QED
    BY <1>1, <2>1 DEF Commit, Have
<1>5. \A x \in Editor : request[x] \in Request \cup {Free}
  BY DEF TaskInv, Types
<1>6. /\ request' = Overtake(p, e)
      /\ UNCHANGED <<due, attempts, page, posts, stale>>
      /\ unsettled' = IF r.alone /\ r.op # "remove" THEN unsettled \ {p} ELSE unsettled \cup {p}
  BY DEF Commit, history
<1>7. \A x \in Editor :
        \/ request'[x] = Free
        \/ request'[x] = request[x] /\ request[x] \in Request /\ request[x].person # p
        \/ /\ request'[x] = [request[x] EXCEPT !.alone = FALSE] /\ request[x] \in Request
           /\ request[x].person = p
  BY <1>5, <1>6 DEF Overtake, Free
<1>8. Types'
  <2>1. request' \in [Editor -> Request \cup {Free}]
    <3>1. \A x \in Request : [x EXCEPT !.alone = FALSE] \in Request
      BY DEF Request
    <3>2. \A x \in Editor : request'[x] \in Request \cup {Free}
      BY <1>7, <3>1
    <3> QED
      BY <1>6, <3>2 DEF Overtake
  <2>2. last' \in 0..MaxTasks /\ tasks' \subseteq 1..last'
    <3>1. last' \in 0..MaxTasks
      BY <1>3
    <3>2. tasks' = (tasks \ r.dropped) \cup (last + 1 .. last')
      BY <1>2 DEF Committed
    <3>3. tasks' \subseteq 1..last'
      BY <1>3, <3>2
    <3> QED
      BY <3>1, <3>3
  <2>3. /\ about' \in [Task -> (Person \X Kind) \cup {Nobody}]
        /\ \A t \in 1..last' : about'[t] \in Person \X Kind
    BY <1>2, <1>3 DEF Committed, TaskInv, Types
  <2>4. \A v \in Volunteer : page'[v] # NoPage => page'[v].task \in 1..last'
    BY <1>3, <1>6 DEF TaskInv, Types
  <2>5. people' \subseteq Person /\ unsettled' \subseteq Person
    BY <1>1, <1>4, <1>6 DEF TaskInv, Types
  <2> QED
    BY <1>4, <1>6, <2>1, <2>2, <2>3, <2>4, <2>5 DEF TaskInv, Types
<1>9. /\ \A t \in tasks' : t \in 1..last' /\ about'[t] \in Person \X Kind
      /\ \A t \in tasks' : about'[t][1] # p => t \in tasks /\ about'[t] = about[t]
      /\ \A t \in tasks : about[t][1] # p => t \in tasks' /\ about'[t] = about[t]
  <2>1. \A t \in r.dropped : about[t][1] = p
    BY <1>1 DEF Promised
  <2> QED
    BY <1>2, <1>3, <1>8, <2>1 DEF Committed, Types
<1>10. ASSUME NEW q \in Person, q # p
       PROVE  /\ Settled(q) => Settled(q)'
              /\ \A x : x.person = q /\ Promised(x) => Promised(x)'
  <2>1. (q \in people' <=> q \in people) /\ contacts'[q] = contacts[q]
    BY <1>4, <1>10
  <2>2. \A t \in 1..last : t \in 1..last' /\ about'[t] = about[t]
    BY <1>2, <1>3 DEF Committed
  <2> HIDE DEF p
  <2> QED
    BY <1>9, <1>10, <2>1, <2>2, SameKept
<1>11. UpToDate'
  <2> SUFFICES ASSUME NEW x \in Editor, NEW q, q = request'[x], q # Free
               PROVE  Promised(q)'
    BY DEF UpToDate, Promised, Current, Have, OneEach
  <2>1. CASE q = request[x] /\ request[x] \in Request /\ request[x].person # p
    <3>1. Promised(q) /\ q.person \in Person /\ q.person # p
      BY <2>1 DEF TaskInv, UpToDate, Request
    <3> QED
      BY <1>10, <3>1
  <2>2. CASE /\ q = [request[x] EXCEPT !.alone = FALSE] /\ request[x] \in Request
             /\ request[x].person = p
    <3>1. ~ q.alone /\ q.dropped = request[x].dropped /\ q.person = p
      BY <2>2 DEF Request
    <3>2. Promised(request[x])
      BY <2>2 DEF TaskInv, UpToDate, Request, Free
    <3>3. \A t \in q.dropped : t \in 1..last /\ about[t][1] = p
      BY <2>2, <3>1, <3>2 DEF Promised
    <3>4. \A t \in q.dropped : t \in 1..last' /\ about'[t][1] = p
      BY <1>2, <1>3, <3>3 DEF Committed
    <3> QED
      BY <3>1, <3>4 DEF Promised
  <2> QED
    BY <1>7, <2>1, <2>2
<1>13. ASSUME NEW c, c = p, r.alone, r.op # "remove"
       PROVE  Settled(c)'
  <2> DEFINE had == Have(r)
  <2>1. /\ Current(r) /\ p \in people
        /\ contacts'[p] = (IF r.op = "delete" THEN {} ELSE had)
        /\ p \in people' <=> r.op # "delete"
        /\ r.op = "delete" => had = Kind
    BY <1>1, <1>4, <1>13 DEF Promised, Current, Have
  <2> HIDE DEF had
  <2>2. /\ \A k \in Kind : k \in r.made <=> k \notin had /\ \A t \in tasks : about[t] # <<p, k>>
        /\ \A t \in tasks : about[t][1] = p => (t \in r.dropped <=> about[t][2] \in had)
        /\ OneEach(p, had)
    BY <2>1 DEF Current, had
  <2>3. \A t \in tasks' : \/ t \in tasks /\ t \notin r.dropped /\ about'[t] = about[t]
                          \/ t \in last + 1 .. last'
    BY <1>2, <1>3 DEF Committed
  <2>4. \A t \in last + 1 .. last' :
          /\ about'[t][1] = p /\ about'[t][2] \in r.made
          /\ about'[t][2] \in Kind /\ about'[t] = <<p, about'[t][2]>>
    BY <1>2 DEF Committed
  <2>5. \A t \in tasks : about[t] \in Person \X Kind
    BY DEF TaskInv, Types
  <2>6. \A t \in tasks' : about'[t][1] = p => about'[t][2] \in Kind /\ about'[t][2] \notin had
    BY <2>2, <2>3, <2>4, <2>5
  <2>7. ASSUME NEW s \in tasks', NEW t \in tasks', about'[s] = about'[t],
               about'[s][1] = p, about'[s][2] \notin had
        PROVE  s = t
    <3>1. CASE s \in tasks /\ t \in tasks /\ about'[s] = about[s] /\ about'[t] = about[t]
      BY <2>2, <2>7, <3>1 DEF OneEach
    <3>2. CASE s \in last + 1 .. last' /\ t \in last + 1 .. last'
      BY <1>2, <2>7, <3>2 DEF Committed
    <3>3. ASSUME NEW x \in tasks, NEW y \in last + 1 .. last', about'[x] = about[x], about'[x] = about'[y]
          PROVE  FALSE
      <4>1. about[x] = <<p, about'[y][2]>> /\ about'[y][2] \in r.made
        BY <2>4, <2>5, <3>3
      <4> QED
        BY <2>2, <2>4, <3>3, <4>1
    <3> QED
      BY <2>3, <2>7, <3>1, <3>2, <3>3
  <2>8. ASSUME p \in people', NEW k \in Kind \ contacts'[p]
        PROVE  \E t \in tasks' : about'[t] = <<p, k>>
    <3>1. k \notin had
      BY <2>1, <2>8
    <3>2. CASE k \in r.made
      BY <1>2, <3>2 DEF Committed
    <3>3. CASE k \notin r.made
      <4>1. PICK t \in tasks : about[t] = <<p, k>>
        BY <2>2, <3>1, <3>3
      <4>2. t \notin r.dropped /\ t \in 1..last
        BY <1>3, <2>2, <3>1, <4>1
      <4> QED
        BY <1>2, <4>1, <4>2 DEF Committed
    <3> QED
      BY <3>2, <3>3
  <2>9. CASE r.op = "delete"
    <3>1. \A t \in tasks' : about'[t][1] # p
      BY <2>1, <2>6, <2>9
    <3> QED
      BY <1>13, <2>1, <2>9, <3>1 DEF Settled, OneEach
  <2>10. CASE r.op # "delete"
    <3>1. p \in people' /\ contacts'[p] = had
      BY <2>1, <2>10
    <3>2. OneEach(c, contacts[c])'
      BY <1>13, <2>7, <3>1 DEF OneEach
    <3> QED
      BY <1>13, <2>6, <2>8, <3>1, <3>2 DEF Settled
  <2> QED
    BY <2>9, <2>10
<1>14. Match'
  <2> SUFFICES ASSUME NEW q \in Person \ unsettled'
               PROVE  Settled(q)'
    BY DEF Match
  <2>1. CASE q # p
    BY <1>6, <1>10, <2>1 DEF TaskInv, Match
  <2>2. CASE q = p
    <3>1. r.alone /\ r.op # "remove"
      BY <1>6, <2>2
    <3> QED
      BY <1>13, <2>2, <3>1
  <2> QED
    BY <2>1, <2>2
<1>15. Fresh' /\ AttemptsCounted'
  BY <1>6 DEF TaskInv, Fresh, AttemptsCounted
<1> QED
  BY <1>8, <1>11, <1>14, <1>15 DEF TaskInv

-----------------------------------------------------------------------------
(* A page saves its task, with as many attempts as there were deferrals.   *)
LEMMA SaveInv ==
  ASSUME TasksAssumption, TaskInv, NEW v \in Volunteer, page[v] # NoPage,
         NEW until \in Due, NEW tries \in Nat, SaveTask(v, until, tries),
         posts' \in [Task -> Nat],
         \A s \in Task \ {page[v].task} : posts'[s] = posts[s],
         page[v].alone /\ page[v].task \notin stale => tries = posts'[page[v].task]
  PROVE  TaskInv'
<1> DEFINE t == page[v].task
           p == about[t][1]
<1>1. /\ t \in 1..last /\ t \in Task /\ p \in Person /\ tasks \subseteq 1..last
      /\ \A s \in 1..last : about[s] \in Person \X Kind
  <2>1. /\ last \in 0..MaxTasks /\ MaxTasks \in Nat /\ tasks \subseteq 1..last
        /\ t \in 1..last /\ \A s \in 1..last : about[s] \in Person \X Kind
    BY DEF TaskInv, Types, TasksAssumption
  <2>2. t \in Task
    BY <2>1 DEF Task
  <2> QED
    BY <2>1, <2>2
<1>2. /\ due' = [due EXCEPT ![t] = until] /\ attempts' = [attempts EXCEPT ![t] = tries]
      /\ tasks' = tasks \cup {t}
      /\ stale' = IF page[v].alone THEN stale ELSE stale \cup {t}
      /\ Close(v, TRUE, t)
      /\ UNCHANGED <<people, contacts, about, last>>
      /\ IF t \in tasks THEN UNCHANGED <<request, unsettled>>
                        ELSE request' = Overtake(p, None) /\ unsettled' = unsettled \cup {p}
  BY DEF SaveTask, served
<1>3. /\ attempts \in [Task -> Nat] /\ due \in [Task -> Due] /\ posts \in [Task -> Nat]
      /\ stale \subseteq Task
      /\ attempts'[t] = tries /\ due'[t] = until
      /\ \A s \in Task \ {t} : attempts'[s] = attempts[s] /\ due'[s] = due[s]
  BY <1>1, <1>2 DEF TaskInv, Types
<1>4. \A w \in Volunteer :
        \/ page'[w] = NoPage
        \/ /\ page'[w] = page[w] /\ page[w] \in Page /\ page[w].task # t
        \/ /\ page'[w] = [page[w] EXCEPT !.alone = FALSE] /\ page[w] \in Page
  BY <1>2 DEF Close, TaskInv, Types
<1>5. \A x \in Editor :
        \/ request'[x] = Free
        \/ request'[x] = request[x] /\ request[x] \in Request
             /\ (t \in tasks \/ request[x].person # p)
        \/ /\ request'[x] = [request[x] EXCEPT !.alone = FALSE] /\ request[x] \in Request
  <2>1. request \in [Editor -> Request \cup {Free}]
    BY DEF TaskInv, Types
  <2>2. CASE t \in tasks
    BY <1>2, <2>1, <2>2
  <2>3. CASE t \notin tasks
    <3>1. request' = Overtake(p, None)
      BY <1>2, <2>3
    <3> QED
      BY <2>1, <3>1 DEF Overtake
  <2> QED
    BY <2>2, <2>3
<1>6. Types'
  <2>1. request' \in [Editor -> Request \cup {Free}]
    <3>1. \A r \in Request : [r EXCEPT !.alone = FALSE] \in Request
      BY DEF Request
    <3>2. \A x \in Editor : request'[x] \in Request \cup {Free}
      BY <1>5, <3>1, ZenonT(30)
    <3>3. request \in [Editor -> Request \cup {Free}]
      BY DEF TaskInv, Types
    <3> QED
      BY <1>2, <3>2, <3>3 DEF Overtake
  <2>2. page' \in [Volunteer -> Page \cup {NoPage}]
    <3>1. \A g \in Page : [g EXCEPT !.alone = FALSE] \in Page
      BY DEF Page
    <3>2. \A w \in Volunteer : page'[w] \in Page \cup {NoPage}
      <4> SUFFICES ASSUME NEW w \in Volunteer PROVE page'[w] \in Page \cup {NoPage}
        OBVIOUS
      <4>1. CASE page'[w] = NoPage
        BY <4>1
      <4>2. CASE page'[w] # NoPage
        BY <1>4, <3>1, <4>2, ZenonT(30)
      <4> QED
        BY <4>1, <4>2
    <3> QED
      BY <1>2, <3>2 DEF Close
  <2>3. \A w \in Volunteer : page'[w] # NoPage => page'[w].task \in 1..last'
    <3> SUFFICES ASSUME NEW w \in Volunteer, page'[w] # NoPage
                 PROVE  page'[w].task \in 1..last'
      OBVIOUS
    <3>1. page'[w].task = page[w].task /\ page[w] \in Page
      BY <1>4 DEF Page
    <3>2. page[w].task \in 1..last
      BY <3>1 DEF TaskInv, Types, Page, NoPage
    <3> QED
      BY <1>2, <3>1, <3>2
  <2>4. tasks' \subseteq 1..last' /\ stale' \subseteq Task /\ unsettled' \subseteq Person
    BY <1>1, <1>2 DEF TaskInv, Types
  <2>5. due' \in [Task -> Due] /\ attempts' \in [Task -> Nat]
    BY <1>2, <1>3
  <2> QED
    BY <1>2, <2>1, <2>2, <2>3, <2>4, <2>5 DEF TaskInv, Types
<1>7. Fresh'
  <2> SUFFICES ASSUME NEW w \in Volunteer, page'[w] # NoPage, page'[w].alone
               PROVE  /\ attempts'[page'[w].task] = page'[w].attempts
                      /\ due'[page'[w].task] = "later" => page'[w].due = "later"
    BY DEF Fresh
  <2>1. page'[w] = page[w] /\ page[w] \in Page /\ page[w].task # t
    BY <1>4 DEF Page
  <2>2. page[w].task \in Task \ {t}
    BY <2>1 DEF Page
  <2> QED
    BY <1>3, <2>1, <2>2 DEF TaskInv, Fresh
<1>8. AttemptsCounted'
  <2> SUFFICES ASSUME NEW s \in Task \ stale'
               PROVE  attempts'[s] = posts'[s]
    BY DEF AttemptsCounted
  <2>1. CASE s = t
    <3>1. page[v].alone /\ t \notin stale
      BY <1>2, <2>1
    <3> QED
      BY <1>3, <2>1, <3>1
  <2>2. CASE s # t
    BY <1>2, <1>3, <2>2 DEF TaskInv, AttemptsCounted
  <2> QED
    BY <2>1, <2>2
<1>9. CASE t \in tasks
  <2>1. tasks' = tasks /\ UNCHANGED <<request, unsettled>>
    BY <1>2, <1>9
  <2>2. UpToDate' /\ Match'
    BY <1>2, <2>1, SameTasks
  <2> QED
    BY <1>6, <1>7, <1>8, <2>2 DEF TaskInv
<1>10. CASE t \notin tasks
  <2>1. ASSUME NEW q \in Person, q # p
        PROVE  /\ Settled(q) => Settled(q)'
               /\ \A x : x.person = q /\ Promised(x) => Promised(x)'
    <3>1. /\ \A s \in 1..last : s \in 1..last' /\ about'[s] = about[s]
          /\ \A s \in tasks' : about'[s][1] # p => s \in tasks /\ about'[s] = about[s]
          /\ \A s \in tasks : about[s][1] # p => s \in tasks' /\ about'[s] = about[s]
      BY <1>2
    <3> HIDE DEF p
    <3> QED
      BY <1>2, <2>1, <3>1, SameKept
  <2>2. Match'
    <3> SUFFICES ASSUME NEW q \in Person \ unsettled'
                 PROVE  Settled(q)'
      BY DEF Match
    <3>1. q # p /\ q \notin unsettled
      BY <1>2, <1>10
    <3> QED
      BY <2>1, <3>1 DEF TaskInv, Match
  <2>3. UpToDate'
    <3> SUFFICES ASSUME NEW x \in Editor, NEW q, q = request'[x], q # Free
                 PROVE  Promised(q)'
      BY DEF UpToDate, Promised, Current, Have, OneEach
    <3>1. CASE q = request[x] /\ request[x] \in Request /\ request[x].person # p
      <4>1. Promised(q) /\ q.person \in Person /\ q.person # p
        BY <3>1 DEF TaskInv, UpToDate, Request
      <4> QED
        BY <2>1, <4>1
    <3>2. CASE q = [request[x] EXCEPT !.alone = FALSE] /\ request[x] \in Request
      <4>1. ~ q.alone /\ q.dropped = request[x].dropped /\ q.person = request[x].person
        BY <3>2 DEF Request
      <4>2. Promised(request[x])
        BY <3>2 DEF TaskInv, UpToDate, Request, Free
      <4>3. \A s \in q.dropped : s \in 1..last' /\ about'[s][1] = q.person
        BY <1>2, <4>1, <4>2 DEF Promised
      <4> QED
        BY <4>1, <4>3 DEF Promised
    <3> QED
      BY <1>5, <1>10, <3>1, <3>2
  <2> QED
    BY <1>6, <1>7, <1>8, <2>2, <2>3 DEF TaskInv
<1> QED
  BY <1>9, <1>10

LEMMA DeferralInv ==
  ASSUME TasksAssumption, TaskInv, NEW v \in Volunteer, Show(v) \/ Defer(v)
  PROVE  TaskInv'
<1> DEFINE t == page[v].task
<1>1. /\ page[v] # NoPage /\ page[v] \in Page /\ t \in Task
      /\ page[v].attempts \in Nat /\ posts \in [Task -> Nat]
  <2>1. page[v] # NoPage
    <3>1. page[v].method \in {"GET", "POST"}
      BY DEF Show, Defer
    <3> QED
      BY <3>1 DEF NoPage
  <2>2. page[v] \in Page
    BY <2>1 DEF TaskInv, Types
  <2> QED
    BY <2>1, <2>2 DEF Page, TaskInv, Types
<1>2. page[v].alone /\ t \notin stale => page[v].attempts = posts[t]
  BY <1>1 DEF TaskInv, Fresh, AttemptsCounted
<1>3. CASE Show(v) /\ UNCHANGED <<people, contacts, table, request, history, unsettled, served>>
           /\ Close(v, FALSE, None)
  <2>1. \A w \in Volunteer : page'[w] = NoPage \/ page'[w] = page[w]
    BY <1>3 DEF Close
  <2>2. page' \in [Volunteer -> Page \cup {NoPage}]
    BY <1>3, <2>1 DEF Close, TaskInv, Types
  <2>3. UNCHANGED <<people, contacts, tasks, about, due, attempts, last, request, posts, stale, unsettled>>
    BY <1>3 DEF table, history
  <2>4. Types'
    BY <2>1, <2>2, <2>3 DEF TaskInv, Types
  <2>5. Fresh'
    BY <2>1, <2>3 DEF TaskInv, Fresh
  <2>6. UpToDate' /\ Match' /\ AttemptsCounted'
    BY <2>3, SameTasks DEF TaskInv, AttemptsCounted
  <2> QED
    BY <2>4, <2>5, <2>6 DEF TaskInv
<1>4. CASE Show(v) /\ UNCHANGED posts
           /\ SaveTask(v, IF t \in tasks THEN "soon" ELSE "now", page[v].attempts)
  BY <1>1, <1>2, <1>4, SaveInv DEF Due
<1>5. CASE Defer(v)
  <2> DEFINE until == IF t \notin tasks /\ ~ Brief(page[v].due) THEN "now" ELSE "later"
  <2>1. /\ until \in Due /\ page[v].attempts + 1 \in Nat
        /\ SaveTask(v, until, page[v].attempts + 1)
        /\ posts' = [posts EXCEPT ![t] = @ + 1]
    BY <1>1, <1>5 DEF Defer, Due, Tried
  <2>2. /\ posts' \in [Task -> Nat] /\ posts'[t] = posts[t] + 1
        /\ \A s \in Task \ {t} : posts'[s] = posts[s]
    BY <1>1, <2>1
  <2> HIDE DEF until
  <2> QED
    BY <1>1, <1>2, <2>1, <2>2, SaveInv
<1> QED
  BY <1>3, <1>4, <1>5 DEF Show

LEMMA OpenInv ==
  ASSUME TasksAssumption, TaskInv, NEW v \in Volunteer, NEW t \in tasks, NEW method \in {"GET", "POST"},
         Open(v, t, method)
  PROVE  TaskInv'
<1> DEFINE new == [method |-> method, task |-> t, due |-> due[t], attempts |-> attempts[t],
                   alone |-> TRUE]
<1>1. /\ page' = [page EXCEPT ![v] = new]
      /\ UNCHANGED <<people, contacts, tasks, about, due, attempts, last, request, posts, stale, unsettled>>
  BY DEF Open, table, history
<1>2. t \in 1..last /\ t \in Task
  <2>1. last \in 0..MaxTasks /\ MaxTasks \in Nat /\ t \in 1..last
    BY DEF TaskInv, Types, TasksAssumption
  <2> QED
    BY <2>1 DEF Task
<1>3. new \in Page
  BY <1>2 DEF Page, TaskInv, Types
<1>4. new.task = t /\ new.due = due[t] /\ new.attempts = attempts[t]
  OBVIOUS
<1> HIDE DEF new
<1>5. Types'
  BY <1>1, <1>2, <1>3, <1>4 DEF TaskInv, Types
<1>6. Fresh'
  BY <1>1, <1>4 DEF TaskInv, Types, Fresh
<1>7. UpToDate' /\ Match' /\ AttemptsCounted'
  BY <1>1, SameTasks DEF TaskInv, AttemptsCounted
<1> QED
  BY <1>5, <1>6, <1>7 DEF TaskInv

LEMMA NextTasks ==
  ASSUME TasksAssumption, TaskInv, [TasksNext]_tasksVars
  PROVE  TaskInv'
<1>1. ASSUME NEW e \in Editor, NEW p \in Person, NEW k \in Kind,
             SaveContact(e, p, k) \/ RemoveContact(e, p, k)
      PROVE  TaskInv'
  BY <1>1, EditInv
<1>2. ASSUME NEW e \in Editor, NEW p \in Person, NEW k \in Kind \cup {None}, SavePerson(e, p, k)
      PROVE  TaskInv'
  BY <1>2, EditInv
<1>3. ASSUME NEW e \in Editor, NEW p \in Person, DeletePerson(e, p)
      PROVE  TaskInv'
  <2>1. None \in Kind \cup {None}
    OBVIOUS
  <2> QED
    BY <1>3, <2>1, EditInv
<1>4. ASSUME NEW e \in Editor, Commit(e)
      PROVE  TaskInv'
  BY <1>4, CommitInv
<1>5. ASSUME NEW v \in Volunteer, NEW t \in tasks, NEW method \in {"GET", "POST"}, Open(v, t, method)
      PROVE  TaskInv'
  BY <1>5, OpenInv
<1>6. ASSUME NEW v \in Volunteer, Show(v) \/ Defer(v)
      PROVE  TaskInv'
  BY <1>6, DeferralInv
<1>7. CASE Elapse
  <2>1. /\ due' = [t \in Task |-> "now"]
        /\ UNCHANGED <<people, contacts, tasks, about, attempts, last, request, page, posts, stale, unsettled>>
    BY <1>7 DEF Elapse, history
  <2>2. Types'
    BY <2>1 DEF TaskInv, Types, Due
  <2>3. Fresh'
    <3>1. \A v \in Volunteer : page[v] # NoPage => page[v].task \in Task
      BY DEF TaskInv, Types, Page
    <3> QED
      BY <2>1, <3>1 DEF TaskInv, Fresh
  <2>4. UpToDate' /\ Match' /\ AttemptsCounted'
    BY <2>1, SameTasks DEF TaskInv, AttemptsCounted
  <2> QED
    BY <2>2, <2>3, <2>4 DEF TaskInv
<1>8. CASE UNCHANGED tasksVars
  <2>1. UNCHANGED <<people, contacts, tasks, about, due, attempts, last, request, page, posts, stale, unsettled>>
    BY <1>8 DEF tasksVars, table, history
  <2>2. UpToDate' /\ Match'
    BY <2>1, SameTasks
  <2> QED
    BY <2>1, <2>2 DEF TaskInv, Types, Fresh, AttemptsCounted
<1> QED
  BY <1>1, <1>2, <1>3, <1>4, <1>5, <1>6, <1>7, <1>8 DEF TasksNext

-----------------------------------------------------------------------------
(* Numbers of tasks instead of the tasks themselves.                       *)
LEMMA MatchCounts ==
  ASSUME TasksAssumption, TaskInv
  PROVE  TasksMatch
<1> SUFFICES ASSUME NEW p \in Person \ unsettled, NEW k \in Kind
             PROVE  Cardinality(Rows(p, k)) = IF p \in people /\ k \notin contacts[p] THEN 1 ELSE 0
  BY DEF TasksMatch
<1>1. Settled(p) /\ \A t \in tasks : about[t] \in Person \X Kind
  BY DEF TaskInv, Match, Types
<1>2. CASE p \in people /\ k \notin contacts[p]
  <2>1. PICK t \in tasks : about[t] = <<p, k>>
    BY <1>1, <1>2 DEF Settled
  <2>2. Rows(p, k) = {t}
    BY <1>1, <1>2, <2>1 DEF Settled, OneEach, Rows
  <2> QED
    BY <1>2, <2>2, FS_Singleton
<1>3. CASE ~ (p \in people /\ k \notin contacts[p])
  <2>1. Rows(p, k) = {}
    BY <1>1, <1>3 DEF Settled, Rows
  <2> QED
    BY <1>3, <2>1, FS_EmptySet
<1> QED
  BY <1>2, <1>3

LEMMA NextKept ==
  ASSUME TasksAssumption, TaskInv, [TasksNext]_tasksVars
  PROVE  DeferralKept
<1> SUFFICES ASSUME NEW t \in tasks, due[t] = "later", due'[t] # "later", ~ Elapse
             PROVE  t \in stale'
  BY DEF DeferralKept
<1>1. t \in Task /\ due \in [Task -> Due] /\ due' # due
  <2>1. last \in 0..MaxTasks /\ MaxTasks \in Nat /\ tasks \subseteq 1..last /\ due \in [Task -> Due]
    BY DEF TaskInv, Types, TasksAssumption
  <2> QED
    BY <2>1 DEF Task
<1>2. PICK v \in Volunteer : Show(v) \/ Defer(v)
  <2>1. \A e \in Editor : \A op, p, k, made, dropped : Start(e, op, p, k, made, dropped) => due' = due
    BY DEF Start, table
  <2>2. ASSUME NEW e \in Editor, NEW p \in Person, NEW k \in Kind \cup {None},
               \/ SaveContact(e, p, k) \/ RemoveContact(e, p, k)
               \/ SavePerson(e, p, k) \/ DeletePerson(e, p)
        PROVE  due' = due
    BY <2>1, <2>2 DEF SaveContact, RemoveContact, SavePerson, DeletePerson
  <2>3. ASSUME NEW e \in Editor, Commit(e)
        PROVE  due' = due
    BY <2>3 DEF Commit
  <2>4. ASSUME NEW v \in Volunteer, NEW x \in tasks, NEW method \in {"GET", "POST"}, Open(v, x, method)
        PROVE  due' = due
    BY <2>4 DEF Open, table
  <2>5. UNCHANGED tasksVars => due' = due
    BY DEF tasksVars, table
  <2>6. None \in Kind \cup {None} /\ Kind \subseteq Kind \cup {None}
    OBVIOUS
  <2>7. ASSUME NEW e \in Editor, NEW p \in Person,
               \/ \E k \in Kind : SaveContact(e, p, k) \/ RemoveContact(e, p, k)
               \/ \E k \in Kind \cup {None} : SavePerson(e, p, k)
               \/ DeletePerson(e, p)
        PROVE  due' = due
    BY <2>2, <2>6, <2>7
  <2> QED
    BY <1>1, <2>3, <2>4, <2>5, <2>7 DEF TasksNext
<1>3. page[v] # NoPage
  <2>1. page[v].method \in {"GET", "POST"}
    BY <1>2 DEF Show, Defer
  <2> QED
    BY <2>1 DEF NoPage
<1>4. CASE Show(v)
  <2>1. SaveTask(v, IF page[v].task \in tasks THEN "soon" ELSE "now", page[v].attempts)
    BY <1>1, <1>4 DEF Show, table
  <2>2. page[v].task = t /\ (page[v].alone \/ t \in stale') /\ page[v].due # "later"
    BY <1>1, <1>4, <2>1 DEF Show, SaveTask, Brief, table
  <2> QED
    BY <1>3, <2>2 DEF TaskInv, Fresh
<1>5. CASE Defer(v)
  <2>1. page[v].task = t
    BY <1>1, <1>5 DEF Defer, SaveTask
  <2> QED
    BY <1>1, <1>5, <2>1 DEF Defer, SaveTask
<1> QED
  BY <1>2, <1>4, <1>5

LEMMA TasksInvariance == TasksSpec => []TaskInv
<1>1. TasksInit => TaskInv
  BY TasksAssumption, InitTasks
<1>2. TaskInv /\ [TasksNext]_tasksVars => TaskInv'
  BY TasksAssumption, NextTasks
<1> QED
  BY <1>1, <1>2, PTL DEF TasksSpec

(* Each kind of contact that a person lacks has one task, and no other     *)
(* kind has any, of everybody whose last save nothing overtook:            *)
(* Task.update_for_object.                                                 *)
THEOREM TasksStayMatched == TasksSpec => []TasksMatch
<1>1. TaskInv => TasksMatch
  BY TasksAssumption, MatchCounts
<1> QED
  BY <1>1, TasksInvariance, PTL

(* Deferrals are counted, and one by days stands until the days are over,  *)
(* but for a request that loaded the task before another saved it:         *)
(* TaskAdmin.do.                                                           *)
THEOREM DeferralsCounted == TasksSpec => DeferralsStand
<1>1. TaskInv => AttemptsCounted
  BY DEF TaskInv
<1>2. TaskInv /\ [TasksNext]_tasksVars => [DeferralKept]_tasksVars
  BY TasksAssumption, NextKept
<1> QED
  BY <1>1, <1>2, TasksInvariance, PTL DEF TasksSpec, DeferralsStand
=============================================================================
