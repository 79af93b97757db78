----------------------- MODULE SourceProcessing_proofs -----------------------
(***************************************************************************)
(* Proofs about SourceProcessing, for every set of sources, any number of  *)
(* failures, outages and deletions.  Inv is the inductive invariant: what  *)
(* the steps of the run have established about the source in hand.         *)
(*                                                                         *)
(* Further down, about ConstituencyOffices, for all files and databases,   *)
(* and any number of runs and kills.  OfficesInv is inductive: what the    *)
(* items of agenda may rely on, and in which order they stand there.       *)
(***************************************************************************)
EXTENDS SourceProcessing, ConstituencyOffices, FiniteSetTheorems, SequenceTheorems, TLAPS

(* The source in hand is none of the rest of the queryset; until Mark it   *)
(* is not attempted, and afterwards it is, unless it was deleted.          *)
InHand ==
    /\ cur = None <=> pc \in {"idle", "next"}
    /\ cur \notin todo
    /\ todo \cap attempted = {}
    /\ pc \in {"file", "mark"} => cur \notin attempted
    /\ pc \in {"parse", "sitting", "entries"} => cur \in attempted \cup ghosts
    /\ pc \in {"mark", "parse", "sitting", "entries"} => doc # "none"

(* Only attempted sources have a sitting, the one in hand not before       *)
(* SaveSitting, and exactly one, without entries, after it.                *)
Sat ==
    /\ \A s \in Source : sittings[s] \in {0, 1}
    /\ \A s \in Source : sittings[s] = 1 => s \in attempted
    /\ pc \in {"parse", "sitting"} => sittings[cur] = 0
    /\ pc = "entries" /\ cur \notin ghosts => sittings[cur] = 1
    /\ pc = "entries" => entries[cur] = "none"

Inv == TypeOK /\ InHand /\ Sat /\ PublishedWhole /\ JointSittingOnce

(* As long as no mishap happened, a sitting without entries is the one in  *)
(* hand, so a duplicate is skipped only for a published transcript.        *)
Clean ==
    failures = 0 /\ deletes = 0 =>
        /\ ghosts = {}
        /\ doc # "bad"
        /\ \A s \in Source : cache[s] # "bad" /\ entries[s] # "bad"
        /\ \A s \in Source :
             sittings[s] = 1 => entries[s] = "whole" \/ (s = cur /\ pc = "entries")

-----------------------------------------------------------------------------
LEMMA InitInv == Init => Inv
  BY SourceAssumption
  DEF Init, Inv, TypeOK, InHand, Sat, PublishedWhole, JointSittingOnce, Steps

(* The steps of the other users keep the invariant.                        *)
LEMMA ListInv ==
  ASSUME Inv, NEW s \in Source, List(s)
  PROVE  Inv'
  BY DEF Inv, TypeOK, InHand, Sat, PublishedWhole, JointSittingOnce, List, run, caps

LEMMA DeleteInv ==
  ASSUME Inv, NEW s \in Source, Delete(s)
  PROVE  Inv'
<1> USE DEF Inv, Delete
<1>1. TypeOK'
  BY DEF TypeOK
<1>2. InHand'
  BY SourceAssumption DEF TypeOK, InHand
<1>3. Sat'
  BY DEF TypeOK, InHand, Sat
<1>4. PublishedWhole' /\ JointSittingOnce'
  BY DEF TypeOK, PublishedWhole, JointSittingOnce
<1> QED
  BY <1>1, <1>2, <1>3, <1>4

(* Ending the process loses nothing the invariant speaks of.               *)
LEMMA StoppedInv ==
  ASSUME Inv, Stopped, UNCHANGED db,
         cache' \in [Source -> {"none", "whole", "bad"}],
         failures' \in Nat, outages' \in Nat, deletes' \in Nat
  PROVE  Inv'
  BY DEF Inv, TypeOK, InHand, Sat, PublishedWhole, JointSittingOnce, Stopped, db, Steps

LEMMA StoreFileType ==
  ASSUME Inv, NEW c \in {"none", "whole", "bad"}, StoreFile(c)
  PROVE  cache' \in [Source -> {"none", "whole", "bad"}]
  BY DEF Inv, TypeOK, StoreFile

(* The steps of the command keep the invariant.                            *)
LEMMA RunStepInv ==
  ASSUME Inv, RunStep
  PROVE  Inv'
<1> USE DEF Inv
<1>1. CASE StartRun
  BY <1>1, SourceAssumption
  DEF StartRun, requires_processing, TypeOK, InHand, Sat, PublishedWhole,
      JointSittingOnce, db, caps, Steps
<1>2. CASE TakeNext
  BY <1>2, SourceAssumption
  DEF TakeNext, TypeOK, InHand, Sat, PublishedWhole, JointSittingOnce, db, caps, Steps
<1>3. CASE EndRun
  BY <1>3, StoppedInv DEF EndRun, caps, TypeOK
<1>4. CASE FileFromCache
  BY <1>4 DEF FileFromCache, CachedFile, Goto, TypeOK, InHand, Sat, PublishedWhole,
              JointSittingOnce, db, caps, Steps
<1>5. CASE FileFetched
  BY <1>5, StoreFileType DEF FileFetched, Goto, TypeOK, InHand, Sat, PublishedWhole,
              JointSittingOnce, db, caps, Steps
<1>6. CASE Mark
  <2>1. cur \in Source /\ cur # None /\ cur \notin attempted /\ sittings[cur] = 0
    BY <1>6, SourceAssumption DEF Mark, InHand, TypeOK, Sat
  <2>2. entries[cur] = "none"
    BY <2>1 DEF PublishedWhole, TypeOK
  <2>3. TypeOK'
    BY <1>6, <2>1 DEF Mark, TypeOK, Steps, caps
  <2>4. InHand' /\ Sat'
    BY <1>6, <2>1, <2>2 DEF Mark, TypeOK, InHand, Sat
  <2>5. PublishedWhole' /\ JointSittingOnce'
    BY <1>6 DEF Mark, PublishedWhole, JointSittingOnce
  <2> QED
    BY <2>3, <2>4, <2>5
<1>7. CASE MarkRefused
  BY <1>7, StoppedInv DEF MarkRefused, caps, TypeOK
<1>8. CASE ParseOk
  BY <1>8 DEF ParseOk, Goto, TypeOK, InHand, Sat, PublishedWhole,
              JointSittingOnce, db, caps, Steps
<1>9. CASE ParseFails
  BY <1>9, StoppedInv DEF ParseFails, caps, TypeOK
<1>10. CASE SkipDuplicate
  BY <1>10, SourceAssumption DEF SkipDuplicate, TypeOK, InHand, Sat, PublishedWhole,
              JointSittingOnce, db, caps, Steps
<1>11. CASE SaveSitting
  <2>1. cur \in Source /\ cur \in attempted /\ sittings[cur] = 0
    BY <1>11, SourceAssumption DEF SaveSitting, InHand, TypeOK, Sat
  <2>2. entries[cur] = "none"
    BY <2>1 DEF PublishedWhole, TypeOK
  <2>3. TypeOK' /\ InHand'
    BY <1>11, <2>1 DEF SaveSitting, Goto, TypeOK, InHand, Steps, caps
  <2>4. Sat'
    BY <1>11, <2>1, <2>2 DEF SaveSitting, Goto, TypeOK, Sat
  <2>5. PublishedWhole'
    BY <1>11, <2>1, <2>2 DEF SaveSitting, TypeOK, PublishedWhole
  <2>6. JointSittingOnce'
    BY <1>11, <2>1 DEF SaveSitting, AlreadySat, TypeOK, Sat, JointSittingOnce
  <2> QED
    BY <2>3, <2>4, <2>5, <2>6
<1>12. CASE SaveEntries
  <2>1. cur \in Source /\ cur \in attempted /\ sittings[cur] = 1 /\ doc # "none"
    BY <1>12, SourceAssumption DEF SaveEntries, InHand, TypeOK, Sat
  <2>2. TypeOK' /\ InHand'
    BY <1>12, <2>1, SourceAssumption DEF SaveEntries, TypeOK, InHand, Steps, caps
  <2>3. Sat' /\ PublishedWhole' /\ JointSittingOnce'
    BY <1>12, <2>1 DEF SaveEntries, TypeOK, Sat, PublishedWhole, JointSittingOnce
  <2> QED
    BY <2>2, <2>3
<1>13. CASE SaveRefused
  BY <1>13, StoppedInv DEF SaveRefused, caps, TypeOK
<1> QED
  BY RunStep, <1>1, <1>2, <1>3, <1>4, <1>5, <1>6, <1>7, <1>8, <1>9, <1>10,
     <1>11, <1>12, <1>13 DEF RunStep

LEMMA NextInv == Inv /\ [Next]_vars => Inv'
<1> SUFFICES ASSUME Inv, [Next]_vars PROVE Inv'
  OBVIOUS
<1>1. CASE RunStep
  BY <1>1, RunStepInv
<1>2. CASE FileFails
  BY <1>2, StoppedInv DEF FileFails, Inv, TypeOK
<1>3. CASE Crash
  BY <1>3, StoppedInv DEF Crash, Inv, TypeOK
<1>4. CASE CrashWritingFile
  BY <1>4, StoppedInv, StoreFileType DEF CrashWritingFile, Inv, TypeOK
<1>5. CASE \E s \in Source : List(s) \/ Delete(s)
  BY <1>5, ListInv, DeleteInv
<1>6. CASE UNCHANGED vars
  BY <1>6 DEF Inv, TypeOK, InHand, Sat, PublishedWhole, JointSittingOnce,
              vars, db, run, caps
<1> QED
  BY <1>1, <1>2, <1>3, <1>4, <1>5, <1>6 DEF Next

(* The inductive invariant holds in every reachable state.                 *)
THEOREM Invariance == Spec => []Inv
  BY InitInv, NextInv, PTL DEF Spec

(* Every variable keeps its type; in particular a source is attempted only *)
(* while it is listed and successful only when attempted.                  *)
THEOREM TypeCorrect == Spec => []TypeOK
<1>1. Inv => TypeOK
  BY DEF Inv
<1> QED
  BY <1>1, Invariance, PTL

(* Publication is atomic, for any number of kills, failed statements,      *)
(* outages and deletions: a transcript is on the site with all its entries *)
(* or not at all.                                                          *)
THEOREM Publication == Spec => []PublishedWhole
<1>1. Inv => PublishedWhole
  BY DEF Inv
<1> QED
  BY <1>1, Invariance, PTL

(* A joint sitting that both Houses publish appears once, whatever fails   *)
(* or is deleted between the two attempts.                                 *)
THEOREM JointOnce == Spec => []JointSittingOnce
<1>1. Inv => JointSittingOnce
  BY DEF Inv
<1> QED
  BY <1>1, Invariance, PTL

-----------------------------------------------------------------------------
(* No step takes up a source that was attempted before it.                 *)
LEMMA TriedOnceStep ==
  ASSUME Inv, [Next]_vars, NEW s \in attempted, cur' = s
  PROVE  cur = s
<1> USE DEF Inv, TypeOK, InHand
<1>1. s # None
  BY SourceAssumption
<1>2. CASE RunStep
  BY <1>1, <1>2 DEF RunStep, StartRun, TakeNext, EndRun, FileFromCache, FileFetched,
     Mark, MarkRefused, ParseOk, ParseFails, SkipDuplicate, SaveSitting, SaveEntries,
     SaveRefused, Goto, Stopped
<1>3. CASE FileFails \/ Crash \/ CrashWritingFile
  BY <1>1, <1>3 DEF FileFails, Crash, CrashWritingFile, Stopped
<1>4. CASE \E t \in Source : List(t) \/ Delete(t)
  BY <1>4 DEF List, Delete, run
<1>5. CASE UNCHANGED vars
  BY <1>5 DEF vars, run
<1> QED
  BY <1>2, <1>3, <1>4, <1>5 DEF Next

(* An attempted source, successful or not, is never processed again.       *)
THEOREM NeverRetried == Spec => TriedOnce
<1>1. Inv /\ [Next]_vars => [\A s \in attempted : cur' = s => cur = s]_vars
  BY TriedOnceStep
<1> QED
  BY <1>1, Invariance, PTL DEF Spec, TriedOnce

-----------------------------------------------------------------------------
(* Without a mishap nothing is lost: by Clean, the sitting for which a     *)
(* duplicate is skipped has its entries.                                   *)
CleanInv == Inv /\ Clean /\ NothingLost

LEMMA InitClean == Init => Clean /\ NothingLost
  BY DEF Init, Clean, NothingLost

LEMMA NextClean ==
  ASSUME CleanInv, [Next]_vars, failures' = 0, deletes' = 0
  PROVE  (Clean /\ NothingLost)'
<1> USE DEF CleanInv, Clean, NothingLost, Inv, TypeOK
<1>1. CASE StartRun \/ TakeNext \/ EndRun
  <2>1. cur = None /\ cur \notin attempted /\ pc # "entries" /\ cur' \notin attempted
    BY <1>1, SourceAssumption
    DEF StartRun, TakeNext, EndRun, InHand, Stopped
  <2> QED
    BY <1>1, <2>1
    DEF StartRun, TakeNext, EndRun, Stopped, db, caps
<1>2. CASE FileFromCache \/ FileFetched
  <2>1. cur \in Source
    BY <1>2 DEF FileFromCache, FileFetched, InHand
  <2> QED
    BY <1>2, <2>1
    DEF FileFromCache, FileFetched, CachedFile, StoreFile, Goto, db, caps
<1>3. CASE Mark \/ MarkRefused
  BY <1>3 DEF Mark, MarkRefused, db, caps
<1>4. CASE ParseOk \/ ParseFails
  BY <1>4 DEF ParseOk, ParseFails, Goto, Stopped, db, caps
<1>5. CASE SkipDuplicate
  <2>1. cur \in Source /\ sittings[cur] = 0
    BY <1>5, SourceAssumption DEF SkipDuplicate, InHand, Sat
  <2>2. PICK t \in Source : Meeting[t] = Meeting[cur] /\ sittings[t] = 1
    BY <1>5 DEF SkipDuplicate, AlreadySat, Sat
  <2>3. failures = 0 /\ deletes = 0 /\ t # cur
    BY <1>5, <2>1, <2>2 DEF SkipDuplicate, caps
  <2>4. entries[t] = "whole" /\ Meeting[cur] \in Joint
    BY <1>5, <2>2, <2>3 DEF SkipDuplicate, AlreadySat
  <2>5. Clean'
    BY <1>5, <2>3 DEF SkipDuplicate, db, caps
  <2>6. NothingLost'
    BY <1>5, <2>2, <2>3, <2>4 DEF SkipDuplicate, db, caps
  <2> QED
    BY <2>5, <2>6
<1>6. CASE SaveSitting \/ SaveRefused
  BY <1>6 DEF SaveSitting, SaveRefused, Goto, Sat, db, caps
<1>7. CASE SaveEntries
  <2>1. cur \in Source /\ doc = "whole" /\ failures = 0 /\ deletes = 0
    BY <1>7, SourceAssumption DEF SaveEntries, InHand, caps
  <2> QED
    BY <1>7, <2>1 DEF SaveEntries, caps
<1>8. CASE FileFails
  <2>1. cur \notin attempted /\ pc = "file"
    BY <1>8 DEF FileFails, InHand
  <2> QED
    BY <1>8, <2>1 DEF FileFails, Stopped, db
<1>9. CASE Crash \/ CrashWritingFile
  BY <1>9 DEF Crash, CrashWritingFile
<1>10. CASE \E s \in Source : List(s) \/ Delete(s)
  BY <1>10 DEF List, Delete, run, caps
<1>11. CASE UNCHANGED vars
  BY <1>11 DEF vars, db, run, caps
<1> QED
  BY <1>1, <1>2, <1>3, <1>4, <1>5, <1>6, <1>7, <1>8, <1>9, <1>10, <1>11
  DEF Next, RunStep

(* While no process was killed, no statement refused and nothing deleted,  *)
(* what the command has dealt with is in the archive.                      *)
THEOREM LossNeedsAMishap == Spec => []NothingLost
<1>1. Init => CleanInv
  BY InitInv, InitClean DEF CleanInv
<1>2. CleanInv /\ [Next]_vars => CleanInv'
  <2> SUFFICES ASSUME CleanInv, [Next]_vars PROVE CleanInv'
    OBVIOUS
  <2>1. Inv'
    BY NextInv DEF CleanInv
  <2>2. CASE failures' = 0 /\ deletes' = 0
    BY <2>1, <2>2, NextClean DEF CleanInv
  <2>3. CASE ~(failures' = 0 /\ deletes' = 0)
    BY <2>1, <2>3 DEF CleanInv, Clean, NothingLost
  <2> QED
    BY <2>2, <2>3
<1>3. CleanInv => NothingLost
  BY DEF CleanInv
<1> QED
  BY <1>1, <1>2, <1>3, PTL DEF Spec

-----------------------------------------------------------------------------
(* The import implements the archive: each step is one move of one         *)
(* transcript, or leaves every stage as it was.                            *)
LEMMA StageInit == Init => Archive!Init
  BY DEF Init, Archive!Init, StageOf

(* The stage is a function of the three sets of rows.                      *)
LEMMA StageUnchanged ==
  ASSUME UNCHANGED <<listed, attempted, succeeded>>
  PROVE  UNCHANGED StageOf
  BY DEF StageOf

LEMMA StageList ==
  ASSUME Inv, NEW s \in Source, List(s)
  PROVE  Archive!List(s)
  BY DEF Inv, TypeOK, List, StageOf, Archive!List, Archive!Move

LEMMA StageDelete ==
  ASSUME Inv, NEW s \in Source, Delete(s)
  PROVE  Archive!Remove(s)
  BY DEF Inv, TypeOK, Delete, StageOf, Archive!Remove, Archive!Move

LEMMA StageMark ==
  ASSUME Inv, Mark
  PROVE  cur \in Source /\ Archive!Try(cur)
<1>1. cur \in Source /\ cur \notin attempted
  BY DEF Inv, TypeOK, InHand, Mark
<1> QED
  BY <1>1 DEF Inv, TypeOK, Mark, StageOf, Archive!Try, Archive!Move

LEMMA StageSave ==
  ASSUME Inv, SaveEntries
  PROVE  cur \in Source /\ Archive!Publish(cur)
<1> USE DEF Inv
<1>1. cur \in Source /\ cur \in attempted /\ sittings[cur] = 1 /\ cur \notin succeeded
  BY DEF TypeOK, InHand, Sat, PublishedWhole, SaveEntries
<1>2. ASSUME Meeting[cur] \in Joint, NEW t \in Source, Meeting[t] = Meeting[cur]
      PROVE  StageOf[t] # "published"
  <2>1. t \notin succeeded
    BY <1>1, <1>2 DEF JointSittingOnce, PublishedWhole, TypeOK
  <2> QED
    BY <2>1 DEF StageOf
<1>3. Archive!Move(cur, {"tried"}, "published")
  BY <1>1 DEF SaveEntries, TypeOK, StageOf, Archive!Move
<1> QED
  BY <1>1, <1>2, <1>3 DEF Archive!Publish

LEMMA StageNext ==
  ASSUME Inv, [Next]_vars
  PROVE  [Archive!Next]_StageOf
<1>1. CASE Mark \/ SaveEntries
  BY <1>1, StageMark, StageSave DEF Archive!Next
<1>2. CASE RunStep /\ ~(Mark \/ SaveEntries)
  BY <1>2, StageUnchanged
  DEF RunStep, StartRun, TakeNext, EndRun, FileFromCache, FileFetched, MarkRefused,
      ParseOk, ParseFails, SkipDuplicate, SaveSitting, SaveRefused, db
<1>3. CASE FileFails \/ Crash \/ CrashWritingFile
  BY <1>3, StageUnchanged DEF FileFails, Crash, CrashWritingFile, db
<1>4. CASE \E s \in Source : List(s) \/ Delete(s)
  BY <1>4, StageList, StageDelete DEF Archive!Next
<1>5. CASE UNCHANGED vars
  BY <1>5, StageUnchanged DEF vars, db
<1> QED
  BY <1>1, <1>2, <1>3, <1>4, <1>5 DEF Next

(* SourceProcessing refines TranscriptArchive.                             *)
THEOREM Refinement == Spec => ImplementsArchive
  BY StageInit, StageNext, Invariance, PTL DEF Spec, ImplementsArchive, Archive!Spec

-----------------------------------------------------------------------------
(* ConstituencyOffices, for all files, offices and people and any number   *)
(* of runs and kills.                                                      *)

(* The order in which the kinds of items are done.                         *)
Turn(x) ==
    IF x.op = "end" THEN 0
    ELSE IF x.op \in {"rename", "reopen"} THEN 1
    ELSE IF x.op = "open" THEN 3
    ELSE IF x.op \in {"endOld", "endOffice"} THEN 4
    ELSE 2

(* Items that can only stand at the front.                                 *)
First == {"rename", "hire", "entitle"}

Items(s) == {s[n] : n \in DOMAIN s}
Behind(s) == {s[n] : n \in DOMAIN s \ {1}}
Sorted(s) == \A m, n \in DOMAIN s : m < n => s[m].op # "endOld" /\ Turn(s[m]) <= Turn(s[n])

(* What ends the offices that the file does not have.                      *)
Closing(x) == x.op = "endOffice" \/ (x.op = "end" /\ x.date # NoDate)

Names(f) == {f.offices[n].name : n \in DOMAIN f.offices}
Asked(f, p) == \E n \in DOMAIN f.offices : \E m \in DOMAIN f.offices[n].people :
                  f.offices[n].people[m] = p

(* What an item is about is there, or in the file.                         *)
Grounded(x) ==
    /\ x.op \in {"open", "rename"} => x.entry.name \in Names(file)
    /\ x.op = "open" => \A n \in DOMAIN x.entry.people : Asked(file, x.entry.people[n])
    /\ x.op \in {"person", "hire"} => Asked(file, x.person)
    /\ x.op = "hire" => x.person.who \in People
    /\ x.op = "cell" => x.person.cell # Null
    /\ x.op = "end" =>
         /\ x.id \in DOMAIN pos /\ x.date \in {NoDate, file.end}
         /\ x.date = NoDate => Active(pos[x.id], Today)
    /\ x.op = "endOffice" => x.id \in DOMAIN office
    /\ Turn(x) \in {1, 2} => mem.at \in DOMAIN office

Ordered ==
    /\ file = Null => agenda = <<>> /\ mem = Nothing
    /\ Sorted(agenda)
    /\ \A x \in Items(agenda) : Grounded(x)
    /\ \A x \in Behind(agenda) : x.op \notin First
    /\ \A x, y \in Items(agenda) :
        /\ Closing(x) => Closing(y)
        /\ x.op = "end" /\ y.op = "end" => pos[x.id].org = pos[y.id].org

(* The office that is visited goes on, or will; and it, like those visited *)
(* before, has a name of the file, or will.                                *)
Visited ==
    /\ \A x \in Items(agenda) : Turn(x) = 2 =>
         Ongoing(office[mem.at]) \/ \E y \in Items(agenda) : y.op = "reopen"
    /\ \A x \in Items(agenda) : Turn(x) \in {1, 2} =>
         office[mem.at].name \in Names(file) \/ agenda[1].op = "rename"
    /\ file # Null => \A o \in mem.kept : office[o].name \in Names(file)

(* The name, the person or the title that is saved next is not there.      *)
Unique ==
    agenda # <<>> =>
        /\ agenda[1].op = "rename" => \A o \in DOMAIN office : office[o].name # agenda[1].entry.name
        /\ agenda[1].op = "hire" => \A i \in DOMAIN pos : pos[i].who # agenda[1].person.who
        /\ agenda[1].op = "entitle" =>
             /\ agenda[1].id \in DOMAIN pos
             /\ \A j \in DOMAIN pos :
                  ~ (/\ pos[j].who = pos[agenda[1].id].who /\ pos[j].org = pos[agenda[1].id].org
                     /\ pos[j].title = agenda[1].title /\ Active(pos[j], Today))

Single ==
    \A i, j \in DOMAIN pos :
        /\ i # j /\ pos[i].who = pos[j].who /\ pos[i].org = pos[j].org /\ pos[i].title = pos[j].title
        /\ Active(pos[i], Today) /\ Active(pos[j], Today)
        => pos[i].title = Null

(* The positions left without a title, but for one that is saved next.     *)
AlwaysTitled(who) == \A f \in Files : Titled(f, who)
Untitled == {i \in DOMAIN pos : pos[i].title = Null /\ AlwaysTitled(pos[i].who)}
ToTitle == IF agenda # <<>> /\ agenda[1].op = "entitle" THEN {agenda[1].id} ELSE {}
UntitledFew == Cardinality(Untitled \ ToTitle) <= tally.kills

(* The ended offices with people, but for one that they are leaving.       *)
Haunted == {o \in DOMAIN office : ~Ongoing(office[o]) /\ ActiveIn(o) # {}}
Leaving ==
    IF agenda # <<>> /\ agenda[1].op = "end" /\ Closing(agenda[1])
    THEN {pos[agenda[1].id].org} ELSE {}
HauntedFew ==
    /\ Cardinality(Haunted \ Leaving) <= tally.kills
    /\ \A o \in Leaving : \A i \in ActiveIn(o) : End(i, file.end) \in Items(agenda)

(* The offices of the party that are not in the file, and not excluded.    *)
Remaining(f) == {o \in DOMAIN office : /\ f.endOld \in office[o].parties /\ Ongoing(office[o])
                                       /\ office[o].name \notin f.exclude \cup Names(f)}
Ending ==
    /\ file # Null /\ file.endOld # Null =>
        \/ \E x \in Items(agenda) : x.op = "endOld"
        \/ /\ \A x \in Items(agenda) : Closing(x)
           /\ \A o \in Remaining(file) : Close(o) \in Items(agenda)
    /\ file = Null /\ last # Null /\ last.file.endOld # Null => Remaining(last.file) = {}

-----------------------------------------------------------------------------
LEMMA Kinds ==
  ASSUME NEW x \in Item
  PROVE  /\ x.op \in {"open", "rename", "relate", "furnish", "locate", "person", "hire", "cell",
                      "entitle", "end", "endOffice", "reopen", "leavers", "endOld"}
         /\ x.op \in {"open", "rename", "relate", "furnish", "locate"} => x.entry \in Listing
         /\ x.op \in {"person", "hire", "cell"} => x.person \in Worker
         /\ x.op = "entitle" => x.id \in Nat /\ x.title \in Title
         /\ x.op = "end" => x.id \in Nat /\ x.date \in Approximate
         /\ x.op = "endOffice" => x.id \in Nat
<1>1. CASE x \in [op : {"open", "rename", "relate", "furnish", "locate"}, entry : Listing]
  BY <1>1
<1>2. CASE x \in [op : {"person", "hire", "cell"}, person : Worker]
  BY <1>2
<1>3. CASE x \in [op : {"entitle"}, id : Nat, title : Title]
  BY <1>3
<1>4. CASE x \in [op : {"end"}, id : Nat, date : Approximate]
  BY <1>4
<1>5. CASE x \in [op : {"endOffice"}, id : Nat]
  BY <1>5
<1>6. CASE x \in [op : {"reopen", "leavers", "endOld"}]
  BY <1>6
<1> QED
  BY <1>1, <1>2, <1>3, <1>4, <1>5, <1>6 DEF Item

LEMMA Made ==
  /\ \A op \in {"open", "rename", "relate", "furnish", "locate"}, e \in Listing : Entry(op, e) \in Item
  /\ \A op \in {"person", "hire", "cell"}, p \in Worker : Listed(op, p) \in Item
  /\ \A i \in Nat, title \in Title : [op |-> "entitle", id |-> i, title |-> title] \in Item
  /\ \A i \in Nat, date \in Approximate : End(i, date) \in Item
  /\ \A i \in Nat : Close(i) \in Item
  /\ \A op \in {"reopen", "leavers", "endOld"} : Do(op) \in Item
<1>1. /\ \A op \in {"open", "rename", "relate", "furnish", "locate"}, e \in Listing : Entry(op, e) \in Item
      /\ \A op \in {"person", "hire", "cell"}, p \in Worker : Listed(op, p) \in Item
  BY DEF Item, Entry, Listed
<1>2. \A i \in Nat, title \in Title : [op |-> "entitle", id |-> i, title |-> title] \in Item
  BY DEF Item
<1>3. \A i \in Nat, date \in Approximate : End(i, date) \in Item
  BY DEF Item, End
<1>4. \A i \in Nat : Close(i) \in Item
  BY DEF Item, Close
<1>5. \A op \in {"reopen", "leavers", "endOld"} : Do(op) \in Item
  BY DEF Item, Do
<1> QED
  BY <1>1, <1>2, <1>3, <1>4, <1>5

LEMMA TurnInt == ASSUME NEW x PROVE Turn(x) \in Int /\ 0 <= Turn(x) /\ Turn(x) <= 4
BY DEF Turn

(* What is behind the first item.                                          *)
LEMMA FirstItem ==
  ASSUME NEW s \in Seq(Item), s # <<>>
  PROVE  /\ Items(s) = {s[1]} \cup Behind(s)
         /\ s[1] \in Item /\ Head(s) = s[1] /\ Behind(s) \subseteq Item
         /\ Sorted(s) => \A x \in Behind(s) : Turn(s[1]) <= Turn(x) /\ s[1].op # "endOld"
<1>1. 1 \in DOMAIN s /\ DOMAIN s = 1..Len(s) /\ Len(s) \in Nat /\ Head(s) = s[1]
  OBVIOUS
<1>2. \A n \in DOMAIN s : s[n] \in Item
  OBVIOUS
<1>3. \A n \in DOMAIN s \ {1} : 1 < n
  BY <1>1
<1> QED
  BY <1>1, <1>2, <1>3 DEF Items, Behind, Sorted

LEMMA Joined ==
  ASSUME NEW a \in Seq(Item), NEW b \in Seq(Item)
  PROVE  /\ a \o b \in Seq(Item) /\ Len(a \o b) = Len(a) + Len(b)
         /\ Items(a \o b) = Items(a) \cup Items(b)
         /\ a # <<>> => a \o b # <<>> /\ (a \o b)[1] = a[1] /\ Behind(a \o b) = Behind(a) \cup Items(b)
         /\ a = <<>> => a \o b = b
<1> DEFINE k == Len(a)  n == Len(b)
<1>1. k \in Nat /\ n \in Nat /\ DOMAIN a = 1..k /\ DOMAIN b = 1..n /\ (a # <<>> => k > 0)
  OBVIOUS
<1>2. /\ a \o b \in Seq(Item) /\ Len(a \o b) = k + n /\ DOMAIN (a \o b) = 1..(k + n)
      /\ \A i \in 1..(k + n) : (a \o b)[i] = IF i <= k THEN a[i] ELSE b[i - k]
  OBVIOUS
<1>3. a = <<>> => a \o b = b
  OBVIOUS
<1> DEFINE r == a \o b
<1>4. /\ r \in Seq(Item) /\ Len(r) = k + n /\ DOMAIN r = 1..(k + n)
      /\ \A i \in 1..(k + n) : r[i] = IF i <= k THEN a[i] ELSE b[i - k]
      /\ a = <<>> => r = b
  BY <1>2, <1>3
<1> SUFFICES /\ Items(r) = Items(a) \cup Items(b)
             /\ a # <<>> => r # <<>> /\ r[1] = a[1] /\ Behind(r) = Behind(a) \cup Items(b)
  BY <1>4
<1> HIDE DEF r, k, n
<1>5. \A i \in DOMAIN r : \/ i <= k /\ i \in DOMAIN a /\ r[i] = a[i]
                          \/ i > k /\ i - k \in DOMAIN b /\ r[i] = b[i - k]
  BY <1>1, <1>4
<1>6. \A i \in DOMAIN a : i \in DOMAIN r /\ r[i] = a[i]
  BY <1>1, <1>4
<1>7. \A i \in DOMAIN b : i + k \in DOMAIN r /\ r[i + k] = b[i] /\ (i + k = 1 => k = 0)
  BY <1>1, <1>4
<1>8. Items(r) \subseteq Items(a) \cup Items(b) /\ Behind(r) \subseteq Behind(a) \cup Items(b)
  BY <1>5 DEF Items, Behind
<1>9. Items(a) \subseteq Items(r) /\ Behind(a) \subseteq Behind(r)
  BY <1>6 DEF Items, Behind
<1>10. Items(b) \subseteq Items(r) /\ (k > 0 => Items(b) \subseteq Behind(r))
  BY <1>1, <1>7 DEF Items, Behind
<1>11. a # <<>> => r # <<>> /\ r[1] = a[1]
  BY <1>1, <1>4, <1>6
<1> QED
  BY <1>1, <1>8, <1>9, <1>10, <1>11

LEMMA SortedJoin ==
  ASSUME NEW a \in Seq(Item), NEW b \in Seq(Item), Sorted(a), Sorted(b),
         \A x \in Items(a) : x.op # "endOld" /\ \A y \in Items(b) : Turn(x) <= Turn(y)
  PROVE  Sorted(a \o b)
<1> DEFINE k == Len(a)  n == Len(b)  r == a \o b
<1>1. k \in Nat /\ n \in Nat /\ DOMAIN a = 1..k /\ DOMAIN b = 1..n
  OBVIOUS
<1>2. /\ DOMAIN r = 1..(k + n)
      /\ \A i \in 1..(k + n) : r[i] = IF i <= k THEN a[i] ELSE b[i - k]
  OBVIOUS
<1> HIDE DEF r, k, n
<1>3. \A i \in DOMAIN r : \/ i <= k /\ i \in DOMAIN a /\ r[i] = a[i]
                          \/ i > k /\ i - k \in DOMAIN b /\ r[i] = b[i - k]
  BY <1>1, <1>2
<1>4. Sorted(r)
  <2> SUFFICES ASSUME NEW i \in DOMAIN r, NEW j \in DOMAIN r, i < j
               PROVE  r[i].op # "endOld" /\ Turn(r[i]) <= Turn(r[j])
    BY DEF Sorted
  <2>1. i \in Int /\ j \in Int
    BY <1>1, <1>2
  <2>2. CASE i <= k /\ j <= k
    <3>1. i \in DOMAIN a /\ j \in DOMAIN a /\ r[i] = a[i] /\ r[j] = a[j]
      BY <1>1, <1>3, <2>1, <2>2
    <3> QED
      BY <3>1 DEF Sorted
  <2>3. CASE i <= k /\ j > k
    <3>1. r[i] \in Items(a) /\ r[j] \in Items(b)
      BY <1>1, <1>3, <2>1, <2>3 DEF Items
    <3> QED
      BY <3>1
  <2>4. CASE i > k /\ j > k
    <3>1. i - k < j - k
      BY <1>1, <2>1
    <3> QED
      BY <1>1, <1>3, <2>1, <2>4, <3>1 DEF Sorted
  <2> QED
    BY <1>1, <2>1, <2>2, <2>3, <2>4
<1> QED
  BY <1>4 DEF r

LEMMA TailItems ==
  ASSUME NEW t \in Seq(Item), t # <<>>
  PROVE  /\ Tail(t) \in Seq(Item) /\ Items(Tail(t)) = Behind(t)
         /\ Behind(Tail(t)) \subseteq Behind(t)
         /\ Tail(t) # <<>> => Tail(t)[1] \in Behind(t)
         /\ Sorted(t) => Sorted(Tail(t))
<1> DEFINE n == Len(t)  r == Tail(t)
<1>1. n \in Nat /\ n >= 1 /\ DOMAIN t = 1..n
  OBVIOUS
<1>2. /\ r \in Seq(Item) /\ DOMAIN r = 1..(n - 1) /\ (r # <<>> => 1 \in DOMAIN r)
      /\ \A i \in 1..(n - 1) : r[i] = t[i + 1]
  OBVIOUS
<1> SUFFICES /\ Items(r) = Behind(t) /\ Behind(r) \subseteq Behind(t)
             /\ r # <<>> => r[1] \in Behind(t)
             /\ Sorted(t) => Sorted(r)
  BY <1>2
<1> HIDE DEF n, r
<1>3. \A i \in DOMAIN r : i + 1 \in DOMAIN t \ {1} /\ r[i] = t[i + 1]
  BY <1>1, <1>2
<1>4. \A i \in DOMAIN t \ {1} : i - 1 \in DOMAIN r /\ r[i - 1] = t[i]
  BY <1>1, <1>2
<1>5. Items(r) = Behind(t)
  <2>1. Items(r) \subseteq Behind(t)
    BY <1>3 DEF Items, Behind
  <2>2. Behind(t) \subseteq Items(r)
    BY <1>4 DEF Items, Behind
  <2> QED
    BY <2>1, <2>2
<1>6. Behind(r) \subseteq Behind(t) /\ (r # <<>> => r[1] \in Behind(t))
  BY <1>2, <1>3 DEF Behind
<1>7. ASSUME Sorted(t) PROVE Sorted(r)
  <2> SUFFICES ASSUME NEW i \in DOMAIN r, NEW j \in DOMAIN r, i < j
               PROVE  r[i].op # "endOld" /\ Turn(r[i]) <= Turn(r[j])
    BY DEF Sorted
  <2>1. i \in Int /\ j \in Int /\ i + 1 < j + 1
    BY <1>1, <1>2
  <2> QED
    BY <1>3, <1>7, <2>1 DEF Sorted
<1> QED
  BY <1>5, <1>6, <1>7

(* The rest of the items, after the first has become others of its rank or *)
(* of lower ranks.                                                         *)
LEMMA Advance ==
  ASSUME NEW t \in Seq(Item), t # <<>>, Sorted(t),
         NEW s \in Seq(Item), Sorted(s),
         \A x \in Items(s) : Turn(x) <= Turn(t[1]) /\ x.op # "endOld"
  PROVE  /\ s \o Tail(t) \in Seq(Item) /\ Sorted(s \o Tail(t))
         /\ Items(s \o Tail(t)) = Items(s) \cup Behind(t)
         /\ Behind(s \o Tail(t)) \subseteq Behind(s) \cup Behind(t)
         /\ s # <<>> => s \o Tail(t) # <<>> /\ (s \o Tail(t))[1] = s[1]
         /\ s = <<>> => s \o Tail(t) = Tail(t) /\ (Tail(t) # <<>> => Tail(t)[1] \in Behind(t))
<1>1. \A x \in Items(s) : x.op # "endOld" /\ \A y \in Behind(t) : Turn(x) <= Turn(y)
  <2> SUFFICES ASSUME NEW x \in Items(s), NEW y \in Behind(t) PROVE Turn(x) <= Turn(y)
    OBVIOUS
  <2>1. Turn(x) <= Turn(t[1]) /\ Turn(t[1]) <= Turn(y)
    BY FirstItem
  <2> QED
    BY <2>1, TurnInt
<1>2. /\ Tail(t) \in Seq(Item) /\ Items(Tail(t)) = Behind(t) /\ Behind(Tail(t)) \subseteq Behind(t)
      /\ Tail(t) # <<>> => Tail(t)[1] \in Behind(t)
      /\ Sorted(Tail(t))
  BY TailItems
<1> DEFINE u == Tail(t)
<1>3. /\ u \in Seq(Item) /\ Items(u) = Behind(t) /\ Behind(u) \subseteq Behind(t) /\ Sorted(u)
  BY <1>2
<1> HIDE DEF u
<1>4. /\ s \o u \in Seq(Item) /\ Items(s \o u) = Items(s) \cup Behind(t)
      /\ s # <<>> => s \o u # <<>> /\ (s \o u)[1] = s[1] /\ Behind(s \o u) = Behind(s) \cup Items(u)
      /\ s = <<>> => s \o u = u
  BY <1>3, Joined
<1>5. Sorted(s \o u)
  BY <1>1, <1>3, SortedJoin
<1>6. Behind(s \o u) \subseteq Behind(s) \cup Behind(t)
  BY <1>3, <1>4
<1> QED
  BY <1>2, <1>4, <1>5, <1>6 DEF u

LEMMA Uniform ==
  ASSUME NEW s \in Seq(Item), NEW k, \A x \in Items(s) : Turn(x) = k /\ x.op # "endOld"
  PROVE  Sorted(s)
<1>1. \A n \in DOMAIN s : Turn(s[n]) = k /\ s[n].op # "endOld"
  BY DEF Items
<1> QED
  BY <1>1, TurnInt DEF Sorted

LEMMA NoItems ==
  /\ <<>> \in Seq(Item) /\ Sorted(<<>>) /\ Items(<<>>) = {} /\ Behind(<<>>) = {}
BY DEF Sorted, Items, Behind

LEMMA OneItem ==
  ASSUME NEW x \in Item
  PROVE  /\ <<x>> \in Seq(Item) /\ Sorted(<<x>>) /\ Items(<<x>>) = {x} /\ Behind(<<x>>) = {}
         /\ <<x>> # <<>> /\ <<x>>[1] = x
<1>1. <<x>> \in Seq(Item) /\ DOMAIN <<x>> = {1} /\ <<x>>[1] = x
  OBVIOUS
<1> QED
  BY <1>1 DEF Sorted, Items, Behind

(* Dates: a position that is active stays so when its end is unknown, and  *)
(* neither a position nor an office goes on that ended before today.       *)
LEMMA TodayShape ==
  /\ Today.y \in Int /\ 2 <= Today.y /\ Today.y <= 9998
  /\ Today.m \in Int /\ 1 <= Today.m /\ Today.m <= 12
  /\ Today.d \in Int /\ 1 <= Today.d /\ Today.d <= 31
<1>1. Today.y \in Year /\ Today.m \in Month /\ Today.d \in 1..31
  BY OfficeAssumption DEF Day
<1>2. Today.y \in Int /\ 2 <= Today.y /\ Today.y <= 9998
  BY <1>1, YearAssumption
<1>3. Today.m \in Int /\ 1 <= Today.m /\ Today.m <= 12
  BY <1>1, MonthAssumption DEF Month
<1> QED
  BY <1>1, <1>2, <1>3

LEMMA NotYet ==
  ~UpTo(Future, Today) /\ ~UpTo(AFuture, Today) /\ UpTo(Today, High(Future)) /\ NoDate # Future
BY TodayShape DEF UpTo, Before, Future, AFuture, NoDate, Date, High

LEMMA OpenEnded ==
  ASSUME NEW p \in Position, Active(p, Today)
  PROVE  Active([p EXCEPT !.end = NoDate], Today)
<1> DEFINE q == [p EXCEPT !.end = NoDate]
<1>1. q.start = p.start /\ q.end = NoDate
  BY DEF Position
<1>2. UpTo(SortingStart(p), Today)
  BY DEF Active
<1>3. p.start # Future
  BY <1>2, NotYet DEF SortingStart
<1> HIDE DEF q
<1>4. UpTo(SortingStart(q), Today)
  BY <1>1, <1>2, <1>3 DEF SortingStart
<1>5. Active(q, Today)
  BY <1>1, <1>4 DEF Active
<1> QED
  BY <1>5 DEF q

LEMMA LeftBefore ==
  ASSUME NEW p \in Position, NEW d, d # NoDate, Before(High(d), Today)
  PROVE  ~Active([p EXCEPT !.end = d], Today)
<1> DEFINE q == [p EXCEPT !.end = d]
<1>1. q.end = d
  BY DEF Position
<1> HIDE DEF q
<1>2. SortingEnd(q) = d
  BY <1>1 DEF SortingEnd
<1>3. ~Active(q, Today)
  BY <1>1, <1>2 DEF Active, UpTo
<1> QED
  BY <1>3 DEF q

LEMMA OverBefore ==
  ASSUME NEW o \in Office, NEW d \in Approximate, d # NoDate, Before(High(d), Today)
  PROVE  ~Ongoing([o EXCEPT !.ended = d])
<1>1. d # Future
  BY NotYet DEF UpTo, Before, High, Date, Future, TodayShape
<1>2. d.m \in Int /\ d.d \in Int /\ d.y \in Int
  <2>1. CASE d \in {NoDate, Past, Future}
    BY <2>1 DEF NoDate, Past, Future, Date
  <2>2. CASE d \in [y : Year, m : 0..LastMonth, d : 0..31]
    BY <2>2, YearAssumption, MonthAssumption
  <2> QED
    BY <2>1, <2>2 DEF Approximate
<1>3. Before(d, Today)
  BY <1>2, TodayShape DEF Before, High, Date
<1>4. [o EXCEPT !.ended = d].ended = d
  BY DEF Office
<1> QED
  BY <1>1, <1>3, <1>4 DEF Ongoing, UpTo

-----------------------------------------------------------------------------
(* The items that an item becomes.                                         *)

LEMMA Workers ==
  ASSUME NEW e \in Listing
  PROVE  /\ e.people \in Seq(Worker) /\ DOMAIN e.people = 1..Len(e.people) /\ Len(e.people) \in Nat
         /\ \A n \in DOMAIN e.people : e.people[n] \in Worker
<1>1. e.people \in Seq(Worker)
  BY DEF Listing
<1> QED
  BY <1>1

LEMMA VisitItems ==
  ASSUME NEW e \in Listing
  PROVE  /\ Visit(e) \in Seq(Item) /\ Visit(e) # <<>> /\ Sorted(Visit(e))
         /\ \A x \in Items(Visit(e)) :
              /\ Turn(x) = 2 /\ x.op \notin First \cup {"cell", "end", "endOffice"}
              /\ x.op = "person" => \E n \in DOMAIN e.people : x.person = e.people[n]
<1> DEFINE a == <<Entry("relate", e), Entry("furnish", e), Entry("locate", e)>>
           b == [n \in DOMAIN e.people |-> Listed("person", e.people[n])]
           c == <<Do("leavers")>>
<1>1. /\ Entry("relate", e) \in Item /\ Entry("furnish", e) \in Item /\ Entry("locate", e) \in Item
      /\ Do("leavers") \in Item
  BY Made
<1>2. a \in Seq(Item) /\ a # <<>>
  BY <1>1
<1>3. b \in Seq(Item)
  <2>1. \A n \in 1..Len(e.people) : Listed("person", e.people[n]) \in Item
    BY Made, Workers
  <2> QED
    BY <2>1, Workers
<1>4. c \in Seq(Item)
  BY <1>1
<1>5. /\ \A n \in DOMAIN a : a[n].op \in {"relate", "furnish", "locate"}
      /\ \A n \in DOMAIN b : b[n].op = "person" /\ b[n].person = e.people[n] /\ n \in DOMAIN e.people
      /\ \A n \in DOMAIN c : c[n].op = "leavers"
  BY <1>2 DEF Entry, Listed, Do
<1>6. Visit(e) = a \o b \o c
  BY DEF Visit
<1> HIDE DEF a, b, c
<1>7. /\ a \o b \in Seq(Item) /\ a \o b # <<>> /\ Items(a \o b) = Items(a) \cup Items(b)
  BY <1>2, <1>3, Joined
<1> DEFINE ab == a \o b
<1>8. ab \in Seq(Item) /\ ab # <<>> /\ Items(ab) = Items(a) \cup Items(b) /\ Visit(e) = ab \o c
  BY <1>6, <1>7
<1> HIDE DEF ab
<1>9. /\ Visit(e) \in Seq(Item) /\ Visit(e) # <<>>
      /\ Items(Visit(e)) = Items(a) \cup Items(b) \cup Items(c)
  BY <1>4, <1>8, Joined
<1>10. \A x \in Items(Visit(e)) :
          \/ x.op \in {"relate", "furnish", "locate", "leavers"}
          \/ x.op = "person" /\ \E k \in DOMAIN e.people : x.person = e.people[k]
  <2>1. \A x \in Items(a) \cup Items(c) : x.op \in {"relate", "furnish", "locate", "leavers"}
    BY <1>5 DEF Items
  <2>2. \A x \in Items(b) : x.op = "person" /\ \E k \in DOMAIN e.people : x.person = e.people[k]
    BY <1>5 DEF Items
  <2> QED
    BY <1>9, <2>1, <2>2
<1>11. \A x \in Items(Visit(e)) : Turn(x) = 2 /\ x.op # "endOld"
  BY <1>10 DEF Turn
<1> QED
  BY <1>9, <1>10, <1>11, Uniform DEF First

LEMMA OptionalItem ==
  ASSUME NEW x \in Item, NEW c \in BOOLEAN
  PROVE  /\ Optional(c, x) \in Seq(Item) /\ Behind(Optional(c, x)) = {}
         /\ Items(Optional(c, x)) = IF c THEN {x} ELSE {}
         /\ c => Optional(c, x) # <<>> /\ Optional(c, x)[1] = x
         /\ ~c => Optional(c, x) = <<>>
         /\ Sorted(Optional(c, x))
BY OneItem, NoItems DEF Optional

(* Items in a row are the same, wherever they are put together.            *)
LEMMA ItemsInARow ==
  ASSUME NEW a \in Seq(Item), NEW b \in Seq(Item), NEW c \in Seq(Item)
  PROVE  (a \o b) \o c = a \o (b \o c)
OBVIOUS

(* What an office needs that was found.                                    *)
(* An office that is opened: renamed and reopened perhaps, and visited.    *)
Opened(e, n, m, s) ==
    /\ s \in Seq(Item) /\ s # <<>> /\ Sorted(s)
    /\ \A x \in Items(s) : x \in Items(Visit(e)) \/ x = Do("reopen") \/ x = Entry("rename", e)
    /\ \A x \in Behind(s) : x.op \notin First
    /\ n # <<>> => s[1] = Entry("rename", e)
    /\ n = <<>> => s[1].op \notin First
    /\ m # <<>> => \E x \in Items(s) : x.op = "reopen"

LEMMA OpenItems ==
  ASSUME NEW e \in Listing, NEW n \in {<<>>, <<Entry("rename", e)>>}, NEW m \in {<<>>, <<Do("reopen")>>},
         NEW s, s = n \o m \o Visit(e)
  PROVE  Opened(e, n, m, s)
<1> DEFINE v == Visit(e)  o == Do("reopen")  r == Entry("rename", e)  mv == m \o v  w == n \o mv
<1>1. /\ v \in Seq(Item) /\ v # <<>> /\ Sorted(v)
      /\ \A x \in Items(v) : Turn(x) = 2 /\ x.op \notin First \cup {"reopen"}
  BY VisitItems DEF Turn
<1>2. o \in Item /\ r \in Item /\ o.op = "reopen" /\ r.op = "rename" /\ Turn(o) = 1 /\ Turn(r) = 1
  BY Made DEF Do, Entry, Turn
<1>3. n \in {<<>>, <<r>>} /\ m \in {<<>>, <<o>>}
  OBVIOUS
<1> HIDE DEF v, o, r
<1>4. /\ m \in Seq(Item) /\ Sorted(m) /\ Items(m) \subseteq {o} /\ (m # <<>> => o \in Items(m))
  BY <1>2, <1>3, OneItem, NoItems
<1>5. /\ n \in Seq(Item) /\ Sorted(n) /\ Items(n) \subseteq {r} /\ Behind(n) = {}
      /\ n # <<>> => n[1] = r
  BY <1>2, <1>3, OneItem, NoItems
<1>6. n \o m \o v = w
  <2>1. (n \o m) \o v = n \o (m \o v)
    <3>1. n \in Seq(Item) /\ m \in Seq(Item) /\ v \in Seq(Item)
      BY <1>1, <1>4, <1>5
    <3> QED
      BY <3>1, ItemsInARow, Zenon
  <2> QED
    BY <2>1
<1>7. /\ mv \in Seq(Item) /\ mv # <<>> /\ Items(mv) = Items(m) \cup Items(v)
  <2>1. CASE m = <<>>
    BY <1>1, <1>4, <2>1, Joined, NoItems
  <2>2. CASE m # <<>>
    BY <1>1, <1>4, <2>2, Joined
  <2> QED
    BY <2>1, <2>2
<1>8. Sorted(mv)
  BY <1>1, <1>2, <1>4, SortedJoin
<1> HIDE DEF mv
<1>9. \A x \in Items(mv) : x.op \notin First /\ Turn(x) \in {1, 2}
  BY <1>1, <1>2, <1>4, <1>7 DEF First
<1>10. /\ w \in Seq(Item) /\ Items(w) = Items(n) \cup Items(mv)
       /\ n # <<>> => w # <<>> /\ w[1] = n[1] /\ Behind(w) = Behind(n) \cup Items(mv)
       /\ n = <<>> => w = mv
  BY <1>5, <1>7, Joined
<1>11. Sorted(w)
  <2>1. \A x \in Items(n) : x.op # "endOld" /\ \A y \in Items(mv) : Turn(x) <= Turn(y)
    BY <1>2, <1>5, <1>9
  <2> QED
    BY <1>5, <1>7, <1>8, <2>1, SortedJoin
<1>12. Behind(mv) \subseteq Items(mv) /\ mv[1] \in Items(mv)
  BY <1>7, FirstItem
<1> HIDE DEF w
<1>13. /\ \A x \in Items(w) : x \in Items(v) \/ x = o \/ x = r
       /\ \A x \in Behind(w) : x.op \notin First
  BY <1>4, <1>5, <1>7, <1>9, <1>10, <1>12
<1>14. /\ n # <<>> => w[1] = r
       /\ n = <<>> => w[1].op \notin First
       /\ w # <<>>
  BY <1>5, <1>7, <1>9, <1>10, <1>12
<1>15. m # <<>> => \E x \in Items(w) : x.op = "reopen"
  BY <1>2, <1>4, <1>7, <1>10
<1>16. s = w
  BY <1>6 DEF v
<1> QED
  BY <1>10, <1>11, <1>13, <1>14, <1>15, <1>16 DEF v, o, r, Opened

(* SetToSeq numbers the members of a finite set.                           *)
LEMMA Numbered ==
  ASSUME NEW T, IsFiniteSet(T)
  PROVE  /\ Cardinality(T) \in Nat
         /\ SetToSeq(T) \in [1..Cardinality(T) -> T]
         /\ Len(SetToSeq(T)) = Cardinality(T)
         /\ \A m, n \in 1..Cardinality(T) : SetToSeq(T)[m] = SetToSeq(T)[n] => m = n
         /\ \A x \in T : \E n \in 1..Cardinality(T) : SetToSeq(T)[n] = x
<1>1. Cardinality(T) \in Nat /\ ExistsBijection(1..Cardinality(T), T)
  BY FS_CardinalityType
<1>2. \E f \in [1..Cardinality(T) -> T] : IsInjective(f)
  BY <1>1 DEF ExistsBijection, Bijection, Injection
<1>3. SetToSeq(T) \in [1..Cardinality(T) -> T] /\ IsInjective(SetToSeq(T))
  BY <1>2 DEF SetToSeq
<1>4. SetToSeq(T) \in Injection(1..Cardinality(T), T)
  BY <1>3 DEF Injection
<1>5. IsFiniteSet(1..Cardinality(T)) /\ Cardinality(1..Cardinality(T)) = Cardinality(T)
  BY <1>1, FS_Interval
<1>6. SetToSeq(T) \in Surjection(1..Cardinality(T), T)
  BY <1>4, <1>5, FS_Injection
<1>7. Len(SetToSeq(T)) = Cardinality(T)
  BY <1>1, <1>3
<1> QED
  BY <1>1, <1>3, <1>6, <1>7 DEF IsInjective, Surjection

LEMMA RestItems ==
  ASSUME NEW p \in Worker, NEW new \in BOOLEAN, Len(pos) \in Nat
  PROVE  /\ Rest(p, new) \in Seq(Item) /\ Sorted(Rest(p, new))
         /\ \A x \in Items(Rest(p, new)) :
              /\ Turn(x) = 2 /\ x.op \in {"entitle", "cell"}
              /\ x.op = "cell" => x = Listed("cell", p) /\ p.cell # Null
              /\ x.op = "entitle" => new /\ p.title \in Title
         /\ \A x \in Behind(Rest(p, new)) : x.op = "cell"
         /\ new /\ p.title \in Title =>
              /\ Rest(p, new) # <<>>
              /\ Rest(p, new)[1] = [op |-> "entitle", id |-> Len(pos) + 1, title |-> p.title]
<1> DEFINE t == [op |-> "entitle", id |-> Len(pos) + 1, title |-> p.title]
           c == new /\ p.title \in Title
           d == p.cell # Null
           a == Optional(c, t)
           b == Optional(d, Listed("cell", p))
<1>1. p.title \in Title \cup {Null, OtherTitle} /\ p.cell \in Number \cup {Null}
  BY DEF Worker
<1>2. t.op = "entitle" /\ Turn(t) = 2 /\ Listed("cell", p).op = "cell" /\ Turn(Listed("cell", p)) = 2
  BY DEF Turn, Listed
<1>3. Listed("cell", p) \in Item
  BY Made
<1>4. c => t \in Item
  BY <1>1, Made
<1>5. Rest(p, new) = a \o b /\ c \in BOOLEAN /\ d \in BOOLEAN
  BY DEF Rest
<1>6. /\ b \in Seq(Item) /\ Sorted(b) /\ Behind(b) = {}
      /\ Items(b) = IF d THEN {Listed("cell", p)} ELSE {}
  BY <1>3, <1>5, OptionalItem
<1>7. /\ a \in Seq(Item) /\ Sorted(a) /\ Behind(a) = {} /\ Items(a) = (IF c THEN {t} ELSE {})
      /\ c => a # <<>> /\ a[1] = t
      /\ ~c => a = <<>>
  <2>1. CASE c
    BY <1>4, <1>5, <2>1, OptionalItem
  <2>2. CASE ~c
    BY <2>2, NoItems DEF Optional
  <2> QED
    BY <2>1, <2>2
<1>8. \A x \in Items(a) : c /\ x.op = "entitle" /\ Turn(x) = 2
  BY <1>2, <1>7
<1>9. \A x \in Items(b) : d /\ x = Listed("cell", p) /\ x.op = "cell" /\ Turn(x) = 2
  BY <1>2, <1>6
<1>10. c <=> new /\ p.title \in Title
  OBVIOUS
<1>11. d <=> p.cell # Null
  OBVIOUS
<1> HIDE DEF a, b, c, d
<1> DEFINE r == a \o b
<1>12. /\ r \in Seq(Item) /\ Items(r) = Items(a) \cup Items(b)
       /\ a # <<>> => r # <<>> /\ r[1] = a[1] /\ Behind(r) = Behind(a) \cup Items(b)
       /\ a = <<>> => r = b
  BY <1>6, <1>7, Joined
<1>13. Rest(p, new) = r
  BY <1>5
<1> HIDE DEF r
<1>14. \A x \in Items(r) : Turn(x) = 2 /\ x.op # "endOld"
  BY <1>8, <1>9, <1>12
<1>15. Sorted(r)
  BY <1>12, <1>14, Uniform
<1>16. \A x \in Behind(r) : x.op = "cell"
  BY <1>6, <1>7, <1>9, <1>12
<1>17. c => r # <<>> /\ r[1] = t
  BY <1>7, <1>12
<1> QED
  BY <1>8, <1>9, <1>10, <1>11, <1>12, <1>13, <1>14, <1>15, <1>16, <1>17

(* What a new position needs, from its title on.                           *)
LEMMA NewItems ==
  ASSUME NEW p \in Worker, Len(pos) \in Nat
  PROVE  /\ Rest(p, TRUE) \in Seq(Item) /\ Sorted(Rest(p, TRUE))
         /\ \A x \in Items(Rest(p, TRUE)) :
              /\ Turn(x) = 2 /\ x.op \in {"entitle", "cell"}
              /\ x.op = "cell" => x = Listed("cell", p) /\ p.cell # Null
              /\ x.op = "entitle" => p.title \in Title
         /\ \A x \in Behind(Rest(p, TRUE)) : x.op = "cell"
         /\ p.title \in Title =>
              /\ Rest(p, TRUE) # <<>>
              /\ Rest(p, TRUE)[1] = [op |-> "entitle", id |-> Len(pos) + 1, title |-> p.title]
<1>1. TRUE \in BOOLEAN
  OBVIOUS
<1> QED
  BY <1>1, RestItems

LEMMA EndItems ==
  ASSUME NEW S, IsFiniteSet(S), S \subseteq Nat, NEW d \in Approximate
  PROVE  /\ EndAll(S, d) \in Seq(Item) /\ Sorted(EndAll(S, d))
         /\ Items(EndAll(S, d)) = {End(i, d) : i \in S}
         /\ \A x \in Items(EndAll(S, d)) : Turn(x) = 0 /\ x.op = "end" /\ x.id \in S /\ x.date = d
<1> DEFINE k == Cardinality(S)  q == SetToSeq(S)  r == EndAll(S, d)
<1>1. /\ k \in Nat /\ q \in [1..k -> S]
      /\ \A x \in S : \E n \in 1..k : q[n] = x
  BY Numbered
<1>2. r = [n \in 1..k |-> End(q[n], d)]
  BY DEF EndAll
<1> HIDE DEF k, q, r
<1>3. \A n \in 1..k : q[n] \in S /\ End(q[n], d) \in Item
  BY <1>1, Made
<1>4. r \in Seq(Item) /\ DOMAIN r = 1..k
  BY <1>1, <1>2, <1>3
<1>5. Items(r) = {End(i, d) : i \in S}
  BY <1>1, <1>2, <1>3, <1>4 DEF Items
<1>6. \A x \in Items(r) : Turn(x) = 0 /\ x.op = "end" /\ x.id \in S /\ x.date = d
  BY <1>5 DEF Turn, End
<1>7. Sorted(r)
  BY <1>4, <1>6, Uniform
<1> QED
  BY <1>4, <1>5, <1>6, <1>7 DEF r

LEMMA CloseItems ==
  ASSUME NEW S, IsFiniteSet(S), S \subseteq Nat
  PROVE  /\ CloseAll(S) \in Seq(Item) /\ Sorted(CloseAll(S))
         /\ \A x \in Items(CloseAll(S)) : Turn(x) = 4 /\ x.op = "endOffice" /\ x.id \in S
         /\ \A o \in S : Close(o) \in Items(CloseAll(S))
<1> DEFINE k == Cardinality(S)  q == SetToSeq(S)  r == CloseAll(S)
<1>1. /\ k \in Nat /\ q \in [1..k -> S]
      /\ \A x \in S : \E n \in 1..k : q[n] = x
  BY Numbered
<1>2. r = [n \in 1..k |-> Close(q[n])]
  BY DEF CloseAll
<1> HIDE DEF k, q, r
<1>3. \A n \in 1..k : q[n] \in S /\ Close(q[n]) \in Item
  BY <1>1, Made
<1>4. r \in Seq(Item) /\ DOMAIN r = 1..k
  BY <1>1, <1>2, <1>3
<1>5. Items(r) = {Close(o) : o \in S}
  BY <1>1, <1>2, <1>3, <1>4 DEF Items
<1>6. \A x \in Items(r) : Turn(x) = 4 /\ x.op = "endOffice" /\ x.id \in S
  BY <1>5 DEF Turn, Close
<1>7. Sorted(r)
  BY <1>4, <1>6, Uniform
<1> QED
  BY <1>4, <1>5, <1>6, <1>7 DEF r

LEMMA CallShape ==
  ASSUME NEW f \in Files
  PROVE  /\ f.offices \in Seq(Listing) /\ DOMAIN f.offices = 1..Len(f.offices) /\ Len(f.offices) \in Nat
         /\ \A n \in DOMAIN f.offices : f.offices[n] \in Listing
         /\ f.start \in Approximate /\ f.end \in Approximate /\ f.end # NoDate
         /\ Before(High(f.end), Today) /\ f # Null
<1>1. f \in Call /\ Before(High(f.end), Today) /\ f # Null
  BY FilesAssumption, OfficeAssumption
<1>2. f.offices \in Seq(Listing) /\ f.start \in Approximate /\ f.end \in Approximate /\ f.end # NoDate
  BY <1>1 DEF Call
<1> QED
  BY <1>1, <1>2

LEMMA StartItems ==
  ASSUME NEW f \in Files, NEW s,
         s = [n \in DOMAIN f.offices |-> Entry("open", f.offices[n])] \o Optional(f.endOld # Null, Do("endOld"))
  PROVE  /\ s \in Seq(Item) /\ Sorted(s)
         /\ \A x \in Items(s) : \/ x.op = "endOld"
                                \/ x.op = "open" /\ \E n \in DOMAIN f.offices : x.entry = f.offices[n]
         /\ f.endOld # Null => \E x \in Items(s) : x.op = "endOld"
<1> DEFINE a == [n \in DOMAIN f.offices |-> Entry("open", f.offices[n])]
           b == Optional(f.endOld # Null, Do("endOld"))
<1>1. a \in Seq(Item) /\ DOMAIN a = DOMAIN f.offices
  <2>1. \A n \in 1..Len(f.offices) : Entry("open", f.offices[n]) \in Item
    BY CallShape, Made
  <2>2. DOMAIN f.offices = 1..Len(f.offices) /\ Len(f.offices) \in Nat
    BY CallShape
  <2> QED
    BY <2>1, <2>2
<1>2. \A n \in DOMAIN a : a[n] = Entry("open", f.offices[n])
  OBVIOUS
<1>3. \A x \in Items(a) : /\ x.op = "open" /\ Turn(x) = 3
                          /\ \E n \in DOMAIN f.offices : x.entry = f.offices[n]
  <2> HIDE DEF a
  <2> QED
    BY <1>1, <1>2 DEF Items, Entry, Turn
<1>4. /\ b \in Seq(Item) /\ Sorted(b)
      /\ Items(b) = IF f.endOld # Null THEN {Do("endOld")} ELSE {}
  BY OptionalItem, Made
<1>5. Do("endOld").op = "endOld" /\ Turn(Do("endOld")) = 4
  BY DEF Do, Turn
<1> HIDE DEF a, b
<1>6. Sorted(a)
  BY <1>1, <1>3, Uniform
<1>7. Sorted(a \o b)
  BY <1>1, <1>3, <1>4, <1>5, <1>6, SortedJoin
<1>8. a \o b \in Seq(Item) /\ Items(a \o b) = Items(a) \cup Items(b)
  <2>1. CASE a = <<>>
    BY <1>1, <1>4, <2>1, Joined
  <2>2. CASE a # <<>>
    BY <1>1, <1>4, <2>2, Joined
  <2> QED
    BY <2>1, <2>2
<1>9. s = a \o b
  BY DEF a, b
<1> QED
  BY <1>3, <1>4, <1>5, <1>7, <1>8, <1>9

LEMMA Fewer ==
  ASSUME NEW S, IsFiniteSet(S), NEW T, T \subseteq S, NEW k \in Int, Cardinality(S) <= k
  PROVE  Cardinality(T) <= k
<1>1. IsFiniteSet(T) /\ Cardinality(T) <= Cardinality(S) /\ Cardinality(S) \in Nat /\ Cardinality(T) \in Nat
  BY FS_Subset, FS_CardinalityType
<1> QED
  BY <1>1

LEMMA OneMore ==
  ASSUME NEW S, IsFiniteSet(S), NEW x, NEW T, T \subseteq S \cup {x}, NEW k \in Int, Cardinality(S) <= k
  PROVE  Cardinality(T) <= k + 1
<1>1. /\ IsFiniteSet(S \cup {x}) /\ Cardinality(S) \in Nat
      /\ Cardinality(S \cup {x}) = IF x \in S THEN Cardinality(S) ELSE Cardinality(S) + 1
  BY FS_AddElement, FS_CardinalityType
<1>2. Cardinality(S \cup {x}) <= k + 1
  BY <1>1
<1> QED
  BY <1>1, <1>2, Fewer

-----------------------------------------------------------------------------
(* The inductive invariant.                                                *)

Rows ==
    /\ office \in Seq(Office) /\ pos \in Seq(Position)
    /\ \A i \in DOMAIN pos : pos[i].org \in DOMAIN office /\ pos[i].who \in People
    /\ People \subseteq Person /\ \A w \in People : cell[w] \subseteq Number
    /\ mem \in [at : Nat, keep : SUBSET DOMAIN pos, kept : SUBSET DOMAIN office, missed : SUBSET Name]
    /\ file \in Files \cup {Null}
    /\ tally \in [runs : 0..MaxRuns, kills : 0..MaxKills]

OfficesInv ==
    /\ Rows /\ agenda \in Seq(Item)
    /\ Ordered /\ Visited /\ Unique /\ Single /\ OneOfficeEach
    /\ UntitledFew /\ HauntedFew /\ Ending

(* The rows and the items that an item may rely on.                        *)
LEMMA Tables ==
  ASSUME Rows
  PROVE  /\ DOMAIN office = 1..Len(office) /\ Len(office) \in Nat
         /\ \A o \in DOMAIN office : o \in Nat /\ office[o] \in Office
         /\ DOMAIN pos = 1..Len(pos) /\ Len(pos) \in Nat
         /\ \A i \in DOMAIN pos : i \in Nat /\ pos[i] \in Position
         /\ IsFiniteSet(DOMAIN pos) /\ IsFiniteSet(DOMAIN office)
         /\ tally.kills \in Int /\ tally.runs \in Int
<1>1. office \in Seq(Office) /\ pos \in Seq(Position)
  BY DEF Rows
<1>2. /\ DOMAIN office = 1..Len(office) /\ Len(office) \in Nat
      /\ DOMAIN pos = 1..Len(pos) /\ Len(pos) \in Nat
  BY <1>1
<1>3. \A o \in DOMAIN office : o \in Nat /\ office[o] \in Office
  BY <1>1
<1>4. \A i \in DOMAIN pos : i \in Nat /\ pos[i] \in Position
  BY <1>1
<1>5. IsFiniteSet(DOMAIN pos) /\ IsFiniteSet(DOMAIN office)
  BY <1>2, FS_Interval
<1>6. tally.kills \in Int /\ tally.runs \in Int
  BY OfficeAssumption DEF Rows
<1> QED
  BY <1>2, <1>3, <1>4, <1>5, <1>6

LEMMA Standing ==
  ASSUME OfficesInv, agenda # <<>>
  PROVE  /\ file \in Files /\ file # Null
         /\ agenda[1] \in Item /\ Head(agenda) = agenda[1] /\ Grounded(agenda[1])
         /\ agenda[1] \in Items(agenda) /\ Items(agenda) = {agenda[1]} \cup Behind(agenda)
         /\ \A x \in Behind(agenda) :
              /\ x \in Item /\ Grounded(x) /\ x.op \notin First
              /\ Turn(agenda[1]) <= Turn(x) /\ agenda[1].op # "endOld"
<1>1. agenda \in Seq(Item) /\ Ordered /\ Rows
  BY DEF OfficesInv
<1>2. file # Null
  BY <1>1 DEF Ordered
<1>3. file \in Files
  BY <1>1, <1>2 DEF Rows
<1>4. Sorted(agenda) /\ \A x \in Items(agenda) : Grounded(x)
  BY <1>1 DEF Ordered
<1>5. \A x \in Behind(agenda) : x.op \notin First
  BY <1>1 DEF Ordered
<1> QED
  BY <1>1, <1>2, <1>3, <1>4, <1>5, FirstItem

LEMMA StillGrounded ==
  ASSUME NEW x, Grounded(x), UNCHANGED file,
         DOMAIN pos \subseteq DOMAIN pos', DOMAIN office \subseteq DOMAIN office', People \subseteq People',
         Turn(x) \in {1, 2} => mem'.at = mem.at,
         x.op = "end" /\ x.date = NoDate => Active(pos'[x.id], Today)
  PROVE  Grounded(x)'
BY DEF Grounded

(* A step that changes the first item only, and what that becomes.         *)
LEMMA OrderedNext ==
  ASSUME OfficesInv, agenda # <<>>, UNCHANGED file,
         NEW s \in Seq(Item), Becomes(s), Sorted(s),
         \A x \in Items(s) : Turn(x) <= Turn(agenda[1]) /\ x.op # "endOld" /\ Grounded(x)',
         \A x \in Behind(s) : x.op \notin First,
         \A x \in Behind(agenda) : Grounded(x)',
         \A x, y \in Items(s) \cup Behind(agenda) :
            /\ Closing(x) => Closing(y)
            /\ x.op = "end" /\ y.op = "end" => pos'[x.id].org = pos'[y.id].org
  PROVE  /\ Ordered' /\ agenda' \in Seq(Item)
         /\ Items(agenda') = Items(s) \cup Behind(agenda)
         /\ s # <<>> => agenda' # <<>> /\ agenda'[1] = s[1]
         /\ s = <<>> /\ agenda' # <<>> => agenda'[1] \in Behind(agenda)
<1>1. agenda \in Seq(Item) /\ Sorted(agenda)
  BY DEF OfficesInv, Ordered
<1>2. agenda' = s \o Tail(agenda)
  BY DEF Becomes
<1>3. \A x \in Items(s) : Turn(x) <= Turn(agenda[1]) /\ x.op # "endOld"
  OBVIOUS
<1>4. /\ agenda' \in Seq(Item) /\ Sorted(agenda')
      /\ Items(agenda') = Items(s) \cup Behind(agenda)
      /\ Behind(agenda') \subseteq Behind(s) \cup Behind(agenda)
      /\ s # <<>> => agenda' # <<>> /\ agenda'[1] = s[1]
      /\ s = <<>> /\ agenda' # <<>> => agenda'[1] \in Behind(agenda)
  BY <1>1, <1>2, <1>3, Advance
<1>5. file # Null /\ \A x \in Behind(agenda) : x.op \notin First
  BY Standing
<1>6. \A x \in Items(agenda') : Grounded(x)'
  BY <1>4
<1>7. \A x \in Behind(agenda') : x.op \notin First
  BY <1>4, <1>5
<1>8. \A x, y \in Items(agenda') :
        /\ Closing(x) => Closing(y)
        /\ x.op = "end" /\ y.op = "end" => pos'[x.id].org = pos'[y.id].org
  BY <1>4
<1> QED
  BY <1>4, <1>5, <1>6, <1>7, <1>8 DEF Ordered

(* While an office is visited, it goes on and has a name of the file.      *)
LEMMA VisitingNow ==
  ASSUME OfficesInv, agenda # <<>>, Turn(agenda[1]) = 2
  PROVE  /\ mem.at \in DOMAIN office /\ Ongoing(office[mem.at]) /\ office[mem.at].name \in Names(file)
         /\ agenda[1].op \notin {"endOld", "rename", "end", "reopen"} /\ ~Closing(agenda[1])
         /\ \A x \in Behind(agenda) : Turn(x) >= 2
<1>1. agenda[1].op \notin {"endOld", "rename", "end", "reopen"} /\ ~Closing(agenda[1])
  BY DEF Turn, Closing
<1>2. \A x \in Behind(agenda) : Turn(x) >= 2
  BY Standing, TurnInt
<1>3. \A x \in Items(agenda) : x.op # "reopen"
  BY <1>2, Standing DEF Turn
<1>4. mem.at \in DOMAIN office
  BY Standing DEF Grounded
<1>5. Ongoing(office[mem.at]) /\ office[mem.at].name \in Names(file)
  BY <1>1, <1>3, Standing DEF OfficesInv, Visited
<1> QED
  BY <1>1, <1>2, <1>4, <1>5

LEMMA VisitedNext ==
  ASSUME Rows, Visited, UNCHANGED file, mem'.at = mem.at, mem'.kept = mem.kept,
         mem.at \in DOMAIN office, Ongoing(office[mem.at]), office[mem.at].name \in Names(file),
         \A o \in DOMAIN office : office'[o].name = office[o].name /\ office'[o].ended = office[o].ended
  PROVE  Visited'
<1>1. Ongoing(office'[mem.at]) /\ office'[mem.at].name \in Names(file)
  BY DEF Ongoing
<1>2. mem.kept \subseteq DOMAIN office
  BY DEF Rows
<1> QED
  BY <1>1, <1>2 DEF Visited

LEMMA UntitledNext ==
  ASSUME Rows, UntitledFew, UNCHANGED tally, (Untitled \ ToTitle)' \subseteq Untitled \ ToTitle
  PROVE  UntitledFew'
<1>1. IsFiniteSet(Untitled \ ToTitle)
  BY Tables, FS_Subset DEF Untitled
<1>2. Cardinality((Untitled \ ToTitle)') <= tally.kills
  BY <1>1, Tables, Fewer DEF UntitledFew
<1> QED
  BY <1>2 DEF UntitledFew

LEMMA HauntedNext ==
  ASSUME Rows, HauntedFew, UNCHANGED tally, Leaving' = {}, Haunted' \subseteq Haunted \ Leaving
  PROVE  HauntedFew'
<1>1. IsFiniteSet(Haunted \ Leaving)
  BY Tables, FS_Subset DEF Haunted
<1>2. Cardinality(Haunted \ Leaving) <= tally.kills
  BY DEF HauntedFew
<1>3. Cardinality(Haunted') <= tally.kills
  BY <1>1, <1>2, Tables, Fewer
<1>4. (Haunted \ Leaving)' = Haunted'
  OBVIOUS
<1> QED
  BY <1>3, <1>4 DEF HauntedFew

LEMMA EndingNext ==
  ASSUME OfficesInv, agenda # <<>>, ~Closing(agenda[1]), agenda[1].op # "endOld", UNCHANGED file,
         Behind(agenda) \subseteq Items(agenda')
  PROVE  Ending'
<1>1. file # Null
  BY Standing
<1>2. file.endOld # Null => \E x \in Behind(agenda) : x.op = "endOld"
  BY <1>1, Standing DEF OfficesInv, Ending
<1> QED
  BY <1>1, <1>2 DEF Ending

LEMMA NotLeaving ==
  /\ agenda = <<>> \/ Turn(agenda[1]) # 0 => Leaving = {}
  /\ agenda = <<>> \/ agenda[1].op # "entitle" => ToTitle = {}
BY DEF Leaving, ToTitle, Turn

-----------------------------------------------------------------------------
(* The steps of a visit that leave the positions, and the names and ends   *)
(* of the offices, as they are.                                            *)
LEMMA QuietInv ==
  ASSUME OfficesInv, agenda # <<>>, UNCHANGED <<file, tally, last>>,
         Turn(agenda[1]) = 2, agenda[1].op # "entitle",
         NEW s \in Seq(Item), Becomes(s), Sorted(s),
         \A x \in Items(s) :
            /\ Turn(x) = 2 /\ x.op # "entitle" /\ Grounded(x)'
            /\ x.op = "hire" => \A i \in DOMAIN pos : pos[i].who # x.person.who,
         \A x \in Behind(s) : x.op \notin First,
         Rows', UNCHANGED pos, People \subseteq People', mem'.at = mem.at, mem'.kept = mem.kept,
         DOMAIN office' = DOMAIN office,
         \A o \in DOMAIN office : /\ office'[o].name = office[o].name /\ office'[o].slug = office[o].slug
                                  /\ office'[o].ended = office[o].ended
  PROVE  OfficesInv'
<1>1. /\ mem.at \in DOMAIN office /\ Ongoing(office[mem.at]) /\ office[mem.at].name \in Names(file)
      /\ agenda[1].op \notin {"endOld", "rename", "end", "reopen"} /\ ~Closing(agenda[1])
      /\ \A x \in Behind(agenda) : Turn(x) >= 2
  BY VisitingNow
<1>2. \A x \in Behind(agenda) : x.op # "end" /\ ~Closing(x) /\ Grounded(x) /\ x.op \notin First
  <2> SUFFICES ASSUME NEW x \in Behind(agenda) PROVE x.op # "end" /\ ~Closing(x)
    BY Standing
  <2>1. x \in Items(agenda) /\ agenda[1] \in Items(agenda)
    BY Standing
  <2>2. ~Closing(x)
    BY <1>1, <2>1 DEF OfficesInv, Ordered
  <2> QED
    BY <1>1, <2>2 DEF Turn
<1>3. \A x \in Items(s) : x.op \notin {"end", "endOld", "rename"} /\ ~Closing(x) /\ Turn(x) <= Turn(agenda[1])
  BY DEF Turn, Closing
<1>4. \A x \in Behind(agenda) : Grounded(x)'
  BY <1>2, StillGrounded
<1>5. \A x, y \in Items(s) \cup Behind(agenda) :
            /\ Closing(x) => Closing(y)
            /\ x.op = "end" /\ y.op = "end" => pos'[x.id].org = pos'[y.id].org
  BY <1>2, <1>3
<1>6. /\ Ordered' /\ agenda' \in Seq(Item)
      /\ Items(agenda') = Items(s) \cup Behind(agenda)
      /\ s # <<>> => agenda' # <<>> /\ agenda'[1] = s[1]
      /\ s = <<>> /\ agenda' # <<>> => agenda'[1] \in Behind(agenda)
  BY <1>3, <1>4, <1>5, OrderedNext
<1>7. agenda' # <<>> => \/ agenda'[1] \in Items(s)
                        \/ agenda'[1] \in Behind(agenda)
  BY <1>6, FirstItem
<1>8. agenda' # <<>> => agenda'[1].op \notin {"rename", "entitle"} /\ Turn(agenda'[1]) # 0
  BY <1>1, <1>2, <1>3, <1>7 DEF First
<1>9. Visited'
  BY <1>1, VisitedNext DEF OfficesInv
<1>10. Unique'
  BY <1>2, <1>7, <1>8 DEF Unique, First
<1>11. Single' /\ OneOfficeEach'
  BY DEF OfficesInv, Single, OneOfficeEach
<1>12. UntitledFew'
  <2>1. ToTitle = {} /\ Untitled' = Untitled
    BY NotLeaving DEF Untitled
  <2> QED
    BY <2>1, UntitledNext DEF OfficesInv
<1>13. HauntedFew'
  <2>1. Leaving = {} /\ Leaving' = {}
    BY <1>8, NotLeaving DEF Leaving, Turn
  <2>2. Haunted' = Haunted
    BY DEF Haunted, ActiveIn, Ongoing
  <2> QED
    BY <2>1, <2>2, HauntedNext DEF OfficesInv
<1>14. Ending'
  BY <1>1, <1>6, EndingNext
<1> QED
  BY <1>6, <1>9, <1>10, <1>11, <1>12, <1>13, <1>14 DEF OfficesInv

LEMMA OfficeSaved ==
  ASSUME Rows, NEW o \in DOMAIN office, NEW r \in Office, office' = [office EXCEPT ![o] = r]
  PROVE  /\ office' \in Seq(Office) /\ DOMAIN office' = DOMAIN office /\ office'[o] = r
         /\ \A q \in DOMAIN office : q # o => office'[q] = office[q]
<1>1. office \in Seq(Office)
  BY DEF Rows
<1> QED
  BY <1>1

(* What changes other fields of the office that is visited, or nothing.    *)
LEMMA FieldsInv ==
  ASSUME OfficesInv, agenda # <<>>, UNCHANGED <<file, tally, last, pos, cell>>,
         Turn(agenda[1]) = 2, agenda[1].op # "entitle", Done,
         mem' \in [at : {mem.at}, keep : {mem.keep}, kept : {mem.kept}, missed : SUBSET Name],
         \/ UNCHANGED office
         \/ mem.at \in DOMAIN office =>
              \E r \in Office : /\ office' = [office EXCEPT ![mem.at] = r]
                                /\ r.name = office[mem.at].name /\ r.slug = office[mem.at].slug
                                /\ r.ended = office[mem.at].ended
  PROVE  OfficesInv'
<1>1. Rows /\ mem.at \in DOMAIN office
  BY VisitingNow DEF OfficesInv
<1>2. /\ office' \in Seq(Office) /\ DOMAIN office' = DOMAIN office
      /\ \A o \in DOMAIN office : /\ office'[o].name = office[o].name /\ office'[o].slug = office[o].slug
                                  /\ office'[o].ended = office[o].ended
  <2>1. CASE UNCHANGED office
    BY <1>1, <2>1 DEF Rows
  <2>2. CASE ~UNCHANGED office
    <3>1. PICK r \in Office : /\ office' = [office EXCEPT ![mem.at] = r]
                              /\ r.name = office[mem.at].name /\ r.slug = office[mem.at].slug
                              /\ r.ended = office[mem.at].ended
      BY <1>1, <2>2
    <3> QED
      BY <1>1, <3>1, OfficeSaved
  <2> QED
    BY <2>1, <2>2
<1>3. Rows'
  BY <1>1, <1>2 DEF Rows, People
<1>4. People' = People /\ mem'.at = mem.at /\ mem'.kept = mem.kept
  BY DEF People
<1> QED
  BY <1>2, <1>3, <1>4, NoItems, QuietInv DEF Done

LEMMA RelateInv ==
  ASSUME OfficesInv, agenda # <<>>, UNCHANGED <<file, tally, last>>,
         NEW e, agenda[1].op = "relate", Relate(e)
  PROVE  OfficesInv'
<1>1. Turn(agenda[1]) = 2 /\ Rows
  BY DEF Turn, OfficesInv
<1>2. mem.at \in DOMAIN office =>
        \E r \in Office : /\ office' = [office EXCEPT ![mem.at] = r]
                          /\ r.name = office[mem.at].name /\ r.slug = office[mem.at].slug
                          /\ r.ended = office[mem.at].ended
  <2> SUFFICES ASSUME mem.at \in DOMAIN office PROVE \E r \in Office :
                          /\ office' = [office EXCEPT ![mem.at] = r]
                          /\ r.name = office[mem.at].name /\ r.slug = office[mem.at].slug
                          /\ r.ended = office[mem.at].ended
    OBVIOUS
  <2> DEFINE r == [office[mem.at] EXCEPT !.parties = @ \cup {e.party}]
  <2>1. e.party \in Party /\ office[mem.at] \in Office /\ office' = [office EXCEPT ![mem.at] = r]
    BY <1>1, Tables DEF Relate
  <2>2. /\ r \in Office
        /\ r.name = office[mem.at].name /\ r.slug = office[mem.at].slug /\ r.ended = office[mem.at].ended
    BY <2>1 DEF Office
  <2> QED
    BY <2>1, <2>2
<1>3. mem' \in [at : {mem.at}, keep : {mem.keep}, kept : {mem.kept}, missed : SUBSET Name]
  BY <1>1 DEF Relate, Rows
<1> QED
  BY <1>1, <1>2, <1>3, FieldsInv DEF Relate

LEMMA FurnishInv ==
  ASSUME OfficesInv, agenda # <<>>, UNCHANGED <<file, tally, last>>,
         NEW e \in Listing, agenda[1].op = "furnish", Furnish(e)
  PROVE  OfficesInv'
<1>1. Turn(agenda[1]) = 2 /\ Rows
  BY DEF Turn, OfficesInv
<1>2. mem.at \in DOMAIN office =>
        \E r \in Office : /\ office' = [office EXCEPT ![mem.at] = r]
                          /\ r.name = office[mem.at].name /\ r.slug = office[mem.at].slug
                          /\ r.ended = office[mem.at].ended
  <2> SUFFICES ASSUME mem.at \in DOMAIN office PROVE \E r \in Office :
                          /\ office' = [office EXCEPT ![mem.at] = r]
                          /\ r.name = office[mem.at].name /\ r.slug = office[mem.at].slug
                          /\ r.ended = office[mem.at].ended
    OBVIOUS
  <2> DEFINE c == IF e.contact = Null THEN {} ELSE {e.contact}
             r == [office[mem.at] EXCEPT !.contact = c]
  <2>1. c \subseteq Number /\ office[mem.at] \in Office /\ office' = [office EXCEPT ![mem.at] = r]
    BY <1>1, Tables DEF Furnish, Listing
  <2> HIDE DEF c
  <2>2. /\ r \in Office
        /\ r.name = office[mem.at].name /\ r.slug = office[mem.at].slug /\ r.ended = office[mem.at].ended
    BY <2>1 DEF Office
  <2> QED
    BY <2>1, <2>2
<1>3. mem' \in [at : {mem.at}, keep : {mem.keep}, kept : {mem.kept}, missed : SUBSET Name]
  BY <1>1 DEF Furnish, Rows
<1> QED
  BY <1>1, <1>2, <1>3, FieldsInv DEF Furnish

LEMMA LocateInv ==
  ASSUME OfficesInv, agenda # <<>>, UNCHANGED <<file, tally, last>>,
         NEW e \in Listing, agenda[1].op = "locate", Locate(e)
  PROVE  OfficesInv'
<1>1. Turn(agenda[1]) = 2 /\ Rows /\ e.name \in Name
  BY DEF Turn, OfficesInv, Listing
<1>2. \/ UNCHANGED office
      \/ mem.at \in DOMAIN office =>
           \E r \in Office : /\ office' = [office EXCEPT ![mem.at] = r]
                             /\ r.name = office[mem.at].name /\ r.slug = office[mem.at].slug
                             /\ r.ended = office[mem.at].ended
  <2> DEFINE Moved(r) == /\ office' = [office EXCEPT ![mem.at] = r]
                         /\ r.name = office[mem.at].name /\ r.slug = office[mem.at].slug
                         /\ r.ended = office[mem.at].ended
  <2>1. ASSUME mem.at \in DOMAIN office
        PROVE  office[mem.at] \in Office
    BY <1>1, <2>1, Tables
  <2>2. ASSUME mem.at \in DOMAIN office, office' = [office EXCEPT ![mem.at].place = e.name]
        PROVE  \E r \in Office : Moved(r)
    <3> DEFINE r == [office[mem.at] EXCEPT !.place = e.name]
    <3>1. r \in Office /\ Moved(r)
      BY <1>1, <2>1, <2>2 DEF Office
    <3> QED
      BY <3>1
  <2>3. ASSUME mem.at \in DOMAIN office,
               office' = [office EXCEPT ![mem.at].place = e.name, ![mem.at].spot = e.name]
        PROVE  \E r \in Office : Moved(r)
    <3> DEFINE r == [office[mem.at] EXCEPT !.place = e.name, !.spot = e.name]
    <3>1. r \in Office /\ Moved(r)
      BY <1>1, <2>1, <2>3 DEF Office
    <3> QED
      BY <3>1
  <2>4. \/ UNCHANGED office
        \/ office' = [office EXCEPT ![mem.at].place = e.name]
        \/ office' = [office EXCEPT ![mem.at].place = e.name, ![mem.at].spot = e.name]
    BY DEF Locate
  <2> QED
    BY <2>2, <2>3, <2>4
<1>3. mem' \in [at : {mem.at}, keep : {mem.keep}, kept : {mem.kept}, missed : SUBSET Name]
  <2>1. mem \in [at : Nat, keep : SUBSET DOMAIN pos, kept : SUBSET DOMAIN office, missed : SUBSET Name]
    BY <1>1 DEF Rows
  <2>2. CASE mem' = [mem EXCEPT !.missed = @ \cup {e.name}]
    BY <1>1, <2>1, <2>2
  <2>3. CASE UNCHANGED mem
    BY <2>1, <2>3
  <2> QED
    BY <2>2, <2>3 DEF Locate
<1> QED
  BY <1>1, <1>2, <1>3, FieldsInv DEF Locate

LEMMA PhoneInv ==
  ASSUME OfficesInv, agenda # <<>>, UNCHANGED <<file, tally, last>>,
         agenda[1].op = "cell", Phone(agenda[1].person)
  PROVE  OfficesInv'
<1> DEFINE p == agenda[1].person
<1>1. Turn(agenda[1]) = 2 /\ Rows /\ UNCHANGED <<office, pos, mem>>
  BY DEF Turn, OfficesInv, Phone
<1>2. p.cell \in Number
  <2>1. p \in Worker /\ p.cell # Null
    BY Standing, Kinds DEF Grounded
  <2> QED
    BY <2>1 DEF Worker
<1>3. cell' = [cell EXCEPT ![p.who] = IF Cardinality(@) = 1 THEN {p.cell} ELSE @ \cup {p.cell}]
  BY DEF Phone
<1> HIDE DEF p
<1>4. People' = People /\ \A w \in People : cell'[w] \subseteq cell[w] \cup {p.cell}
  BY <1>3 DEF People
<1>5. Rows'
  BY <1>1, <1>2, <1>4 DEF Rows
<1>6. Done
  BY DEF Phone
<1> QED
  BY <1>1, <1>4, <1>5, <1>6, NoItems, QuietInv DEF Done

-----------------------------------------------------------------------------
(* The people of an office.                                                *)

LEMMA ActiveSame ==
  ASSUME NEW p, NEW q, p.start = q.start, p.end = q.end
  PROVE  Active(p, Today) <=> Active(q, Today)
BY DEF Active, SortingStart, SortingEnd

LEMMA AskedUntitled ==
  ASSUME NEW f \in Files, NEW p, Asked(f, p), p.title \notin Title
  PROVE  ~AlwaysTitled(p.who)
<1>1. PICK n \in DOMAIN f.offices : \E m \in DOMAIN f.offices[n].people : f.offices[n].people[m] = p
  BY DEF Asked
<1>2. f.offices[n] \in Range(f.offices) /\ p \in Range(f.offices[n].people)
  BY <1>1 DEF Range
<1> QED
  BY <1>2 DEF AlwaysTitled, Titled

LEMMA CreateInv ==
  ASSUME OfficesInv, agenda # <<>>, UNCHANGED <<file, tally, last, office, cell>>,
         agenda[1].op \in {"person", "hire"},
         NEW p \in Worker, p.who \in People, Asked(file, p),
         Create(p), Becomes(Rest(p, TRUE)),
         UNCHANGED mem \/ mem' = [mem EXCEPT !.keep = @ \cup {Len(pos')}],
         p.title \in Title => \A i \in DOMAIN pos :
            ~(/\ pos[i].who = p.who /\ pos[i].org = mem.at /\ pos[i].title = p.title
              /\ Active(pos[i], Today))
  PROVE  OfficesInv'
<1> DEFINE k == Len(pos) + 1
           r == [who |-> p.who, org |-> mem.at, title |-> Null, start |-> file.start, end |-> Future]
           s == Rest(p, TRUE)
<1>1. Turn(agenda[1]) = 2 /\ Rows /\ agenda[1].op # "entitle"
  BY DEF Turn, OfficesInv
<1>2. /\ mem.at \in DOMAIN office /\ Ongoing(office[mem.at]) /\ office[mem.at].name \in Names(file)
      /\ agenda[1].op \notin {"endOld", "rename", "end", "reopen"} /\ ~Closing(agenda[1])
      /\ \A x \in Behind(agenda) : Turn(x) >= 2
  BY <1>1, VisitingNow
<1>3. r \in Position
  <2>1. file.start \in Approximate
    BY Standing, CallShape
  <2>2. Future \in Approximate /\ mem.at \in Nat /\ p.who \in Person
    BY <1>1 DEF Approximate, Rows, Worker
  <2> QED
    BY <2>1, <2>2 DEF Position
<1>4. /\ pos' \in Seq(Position) /\ Len(pos') = k /\ k \in DOMAIN pos'
      /\ DOMAIN pos' = DOMAIN pos \cup {k} /\ k \notin DOMAIN pos
      /\ pos'[k] = r /\ \A i \in DOMAIN pos : pos'[i] = pos[i]
  <2>1. pos' = Append(pos, r) /\ pos \in Seq(Position)
    BY <1>1 DEF Create, Rows
  <2> HIDE DEF r
  <2> QED
    BY <1>3, <2>1
<1>5. r.who = p.who /\ r.org = mem.at /\ r.title = Null
  OBVIOUS
<1>6. People' = People /\ mem'.at = mem.at /\ mem'.kept = mem.kept
  BY <1>1 DEF People, Rows
<1>7. Rows'
  <2>1. mem' \in [at : Nat, keep : SUBSET DOMAIN pos', kept : SUBSET DOMAIN office, missed : SUBSET Name]
    <3>1. mem \in [at : Nat, keep : SUBSET DOMAIN pos', kept : SUBSET DOMAIN office, missed : SUBSET Name]
      BY <1>1, <1>4 DEF Rows
    <3>2. mem.keep \cup {Len(pos')} \subseteq DOMAIN pos'
      BY <1>4, <3>1
    <3> QED
      BY <3>1, <3>2
  <2>2. \A i \in DOMAIN pos' : pos'[i].org \in DOMAIN office /\ pos'[i].who \in People
    BY <1>1, <1>2, <1>4, <1>5 DEF Rows
  <2> HIDE DEF k, r
  <2> QED
    BY <1>1, <1>4, <1>6, <2>1, <2>2 DEF Rows
<1>8. /\ s \in Seq(Item) /\ Sorted(s)
      /\ \A x \in Items(s) : /\ Turn(x) = 2 /\ x.op \in {"entitle", "cell"}
                             /\ x.op = "cell" => x = Listed("cell", p) /\ p.cell # Null
                             /\ x.op = "entitle" => p.title \in Title
      /\ \A x \in Behind(s) : x.op = "cell"
      /\ p.title \in Title => s # <<>> /\ s[1] = [op |-> "entitle", id |-> k, title |-> p.title]
  <2>1. Len(pos) \in Nat /\ p \in Worker
    BY <1>1, Tables
  <2> QED
    BY <2>1, NewItems, Zenon
<1> HIDE DEF k, r, s
<1>9. \A x \in Items(s) : /\ Turn(x) <= Turn(agenda[1]) /\ x.op # "endOld" /\ Grounded(x)'
                          /\ x.op # "end" /\ ~Closing(x)
  <2> SUFFICES ASSUME NEW x \in Items(s)
               PROVE  Turn(x) <= Turn(agenda[1]) /\ x.op \notin {"endOld", "end"} /\ Grounded(x)' /\ ~Closing(x)
    OBVIOUS
  <2>1. Turn(x) = 2 /\ x.op \in {"entitle", "cell"} /\ (x.op = "cell" => x.person.cell # Null)
    BY <1>8 DEF Listed
  <2>2. Grounded(x)'
    BY <1>2, <1>6, <2>1 DEF Grounded
  <2> QED
    BY <1>1, <2>1, <2>2 DEF Closing
<1>10. \A x \in Behind(agenda) : x.op # "end" /\ ~Closing(x) /\ Grounded(x)' /\ x.op \notin First
  <2> SUFFICES ASSUME NEW x \in Behind(agenda)
               PROVE  x.op # "end" /\ ~Closing(x) /\ Grounded(x)' /\ x.op \notin First
    OBVIOUS
  <2>1. x.op # "end" /\ x \in Items(agenda) /\ agenda[1] \in Items(agenda) /\ Grounded(x) /\ x.op \notin First
    BY <1>2, Standing DEF Turn
  <2>2. ~Closing(x)
    BY <1>2, <2>1 DEF OfficesInv, Ordered
  <2>3. Grounded(x)'
    BY <1>4, <1>6, <2>1, StillGrounded
  <2> QED
    BY <2>1, <2>2, <2>3
<1>11. /\ Ordered' /\ agenda' \in Seq(Item)
       /\ Items(agenda') = Items(s) \cup Behind(agenda)
       /\ s # <<>> => agenda' # <<>> /\ agenda'[1] = s[1]
       /\ s = <<>> /\ agenda' # <<>> => agenda'[1] \in Behind(agenda)
  <2>1. Becomes(s)
    BY DEF s
  <2>2. \A x \in Behind(s) : x.op \notin First
    BY <1>8 DEF First
  <2>3. \A x, y \in Items(s) \cup Behind(agenda) :
            /\ Closing(x) => Closing(y)
            /\ x.op = "end" /\ y.op = "end" => pos'[x.id].org = pos'[y.id].org
    BY <1>9, <1>10
  <2> QED
    BY <1>8, <1>9, <1>10, <2>1, <2>2, <2>3, OrderedNext
<1>12. Visited'
  BY <1>1, <1>2, <1>6, VisitedNext DEF OfficesInv
<1>13. ASSUME p.title \in Title
       PROVE  Unique' /\ Leaving' = {} /\ (Untitled \ ToTitle)' \subseteq Untitled
  <2>1. /\ agenda' # <<>>
        /\ agenda'[1].op = "entitle" /\ agenda'[1].id = k /\ agenda'[1].title = p.title
    BY <1>8, <1>11, <1>13
  <2>2. Unique'
    <3>1. pos'[k].who = p.who /\ pos'[k].org = mem.at /\ pos'[k].title = Null
      BY <1>4, <1>5
    <3>2. \A j \in DOMAIN pos' :
            ~ (/\ pos'[j].who = pos'[k].who /\ pos'[j].org = pos'[k].org
               /\ pos'[j].title = p.title /\ Active(pos'[j], Today))
      <4>1. Null # p.title
        BY <1>13, OfficeAssumption
      <4>2. \A j \in DOMAIN pos : pos'[j] = pos[j]
        BY <1>4
      <4>3. \A j \in DOMAIN pos' : j = k \/ j \in DOMAIN pos
        BY <1>4
      <4>4. \A j \in DOMAIN pos :
              ~ (pos[j].who = p.who /\ pos[j].org = mem.at /\ pos[j].title = p.title /\ Active(pos[j], Today))
        BY <1>13
      <4> QED
        BY <3>1, <4>1, <4>2, <4>3, <4>4, Zenon
    <3>3. /\ agenda'[1].op = "rename" => \A o \in DOMAIN office' : office'[o].name # agenda'[1].entry.name
          /\ agenda'[1].op = "hire" => \A i \in DOMAIN pos' : pos'[i].who # agenda'[1].person.who
      BY <2>1
    <3>4. /\ agenda'[1].id \in DOMAIN pos'
          /\ \A j \in DOMAIN pos' :
                ~ (/\ pos'[j].who = pos'[agenda'[1].id].who /\ pos'[j].org = pos'[agenda'[1].id].org
                   /\ pos'[j].title = agenda'[1].title /\ Active(pos'[j], Today))
      BY <1>4, <2>1, <3>2, Zenon
    <3> QED
      BY <3>3, <3>4 DEF Unique
  <2>3. ToTitle' = {k} /\ Leaving' = {}
    BY <2>1 DEF ToTitle, Leaving
  <2>4. (Untitled \ ToTitle)' \subseteq Untitled
    BY <1>4, <2>3 DEF Untitled
  <2> QED
    BY <2>2, <2>3, <2>4
<1>14. ASSUME p.title \notin Title
       PROVE  Unique' /\ Leaving' = {} /\ (Untitled \ ToTitle)' \subseteq Untitled
  <2>1. agenda' # <<>> => agenda'[1].op \notin First /\ Turn(agenda'[1]) >= 2
    <3>1. CASE s # <<>>
      <4>1. s[1] \in Items(s)
        BY <1>8, <3>1, FirstItem
      <4> QED
        BY <1>8, <1>11, <1>14, <3>1, <4>1 DEF First
    <3>2. CASE s = <<>>
      BY <1>2, <1>10, <1>11, <3>2
    <3> QED
      BY <3>1, <3>2
  <2>2. Unique'
    BY <2>1 DEF Unique, First
  <2>3. Leaving' = {}
    BY <2>1 DEF Leaving, Turn
  <2>4. ~AlwaysTitled(p.who)
    BY <1>14, Standing, AskedUntitled
  <2>5. (Untitled \ ToTitle)' \subseteq Untitled
    BY <1>4, <1>5, <2>4 DEF Untitled
  <2> QED
    BY <2>2, <2>3, <2>5
<1>15. Unique' /\ Leaving' = {} /\ (Untitled \ ToTitle)' \subseteq Untitled
  BY <1>13, <1>14
<1>16. ToTitle = {} /\ Leaving = {}
  BY <1>1, NotLeaving
<1>17. UntitledFew'
  BY <1>1, <1>15, <1>16, UntitledNext DEF OfficesInv
<1>18. HauntedFew'
  <2>1. \A o \in DOMAIN office : ~Ongoing(office[o]) /\ ActiveIn(o)' # {} => ActiveIn(o) # {}
    BY <1>2, <1>4, <1>5 DEF ActiveIn
  <2>2. Haunted' \subseteq Haunted
    BY <2>1 DEF Haunted
  <2> QED
    BY <1>1, <1>15, <1>16, <2>2, HauntedNext DEF OfficesInv
<1>19. Single'
  <2> SUFFICES ASSUME NEW i \in DOMAIN pos', NEW j \in DOMAIN pos',
                      i # j /\ pos'[i].who = pos'[j].who /\ pos'[i].org = pos'[j].org,
                      pos'[i].title = pos'[j].title, Active(pos'[i], Today), Active(pos'[j], Today)
               PROVE  pos'[i].title = Null
    BY DEF Single
  <2>1. CASE i = k \/ j = k
    BY <1>4, <1>5, <2>1
  <2>2. CASE i # k /\ j # k
    BY <1>4, <2>2 DEF OfficesInv, Single
  <2> QED
    BY <2>1, <2>2
<1>20. OneOfficeEach'
  BY DEF OfficesInv, OneOfficeEach
<1>21. Ending'
  BY <1>2, <1>11, EndingNext
<1> QED
  BY <1>7, <1>11, <1>12, <1>15, <1>17, <1>18, <1>19, <1>20, <1>21 DEF OfficesInv

LEMMA KnownInv ==
  ASSUME OfficesInv, agenda # <<>>, UNCHANGED <<file, tally, last>>,
         agenda[1].op = "person", Known(agenda[1].person)
  PROVE  OfficesInv'
<1> DEFINE p == agenda[1].person
<1>1. /\ p \in Worker /\ Asked(file, p)
  BY Standing, Kinds DEF Grounded
<1>2. /\ p.who \in People /\ UNCHANGED <<office, cell>>
      /\ \/ Done /\ UNCHANGED <<pos, mem>>
         \/ /\ mem' = [mem EXCEPT !.keep = @ \cup Here(p)]
            /\ Becomes(Rest(p, FALSE)) /\ UNCHANGED pos
         \/ /\ Here(p) = {} /\ Create(p)
            /\ mem' = [mem EXCEPT !.keep = @ \cup {Len(pos')}]
            /\ Becomes(Rest(p, TRUE))
  BY DEF Known
<1>3. Turn(agenda[1]) = 2 /\ Rows /\ agenda[1].op # "entitle" /\ agenda[1].op \in {"person", "hire"}
  BY DEF Turn, OfficesInv
<1> HIDE DEF p
<1>4. CASE Done /\ UNCHANGED <<pos, mem>>
  <2>1. mem' \in [at : {mem.at}, keep : {mem.keep}, kept : {mem.kept}, missed : SUBSET Name]
    BY <1>3, <1>4 DEF Rows
  <2> QED
    BY <1>2, <1>3, <1>4, <2>1, FieldsInv
<1>5. CASE mem' = [mem EXCEPT !.keep = @ \cup Here(p)] /\ Becomes(Rest(p, FALSE)) /\ UNCHANGED pos
  <2>1. People' = People /\ mem'.at = mem.at /\ mem'.kept = mem.kept
    BY <1>2, <1>3, <1>5 DEF People, Rows
  <2>2. Rows'
    <3>1. Here(p) \subseteq DOMAIN pos
      BY DEF Here, ActiveIn
    <3>2. mem' \in [at : Nat, keep : SUBSET DOMAIN pos, kept : SUBSET DOMAIN office, missed : SUBSET Name]
      BY <1>3, <1>5, <3>1 DEF Rows
    <3> QED
      BY <1>2, <1>3, <1>5, <2>1, <3>2 DEF Rows
  <2> DEFINE s == Rest(p, FALSE)
  <2>3. /\ s \in Seq(Item) /\ Sorted(s)
        /\ \A x \in Items(s) : /\ Turn(x) = 2 /\ x.op = "cell"
                               /\ x.op = "cell" => x = Listed("cell", p) /\ p.cell # Null
        /\ \A x \in Behind(s) : x.op = "cell"
    BY <1>1, <1>3, Tables, RestItems
  <2>4. Becomes(s)
    BY <1>5
  <2> HIDE DEF s
  <2>5. mem.at \in DOMAIN office
    BY <1>3, VisitingNow
  <2>6. \A x \in Items(s) : /\ Turn(x) = 2 /\ x.op # "entitle" /\ Grounded(x)'
                            /\ x.op = "hire" => \A i \in DOMAIN pos : pos[i].who # x.person.who
    <3> SUFFICES ASSUME NEW x \in Items(s) PROVE Turn(x) = 2 /\ x.op = "cell" /\ Grounded(x)'
      OBVIOUS
    <3>1. Turn(x) = 2 /\ x.op = "cell" /\ x.person.cell # Null
      BY <2>3 DEF Listed
    <3> QED
      BY <1>2, <2>1, <2>5, <3>1 DEF Grounded
  <2>7. \A x \in Behind(s) : x.op \notin First
    BY <2>3 DEF First
  <2> QED
    BY <1>2, <1>3, <1>5, <2>1, <2>2, <2>3, <2>4, <2>6, <2>7, QuietInv
<1>6. CASE /\ Here(p) = {} /\ Create(p)
           /\ mem' = [mem EXCEPT !.keep = @ \cup {Len(pos')}]
           /\ Becomes(Rest(p, TRUE))
  <2>1. p.title \in Title => \A i \in DOMAIN pos :
            ~(/\ pos[i].who = p.who /\ pos[i].org = mem.at /\ pos[i].title = p.title
              /\ Active(pos[i], Today))
    BY <1>6 DEF Here, ActiveIn
  <2> QED
    BY <1>1, <1>2, <1>3, <1>6, <2>1, CreateInv
<1> QED
  BY <1>2, <1>4, <1>5, <1>6

LEMMA UnknownInv ==
  ASSUME OfficesInv, agenda # <<>>, UNCHANGED <<file, tally, last>>,
         agenda[1].op = "person", Unknown(agenda[1].person)
  PROVE  OfficesInv'
<1> DEFINE p == agenda[1].person
<1>1. /\ p \in Worker /\ Asked(file, p)
  BY Standing, Kinds DEF Grounded
<1>2. /\ p.who \notin People /\ UNCHANGED <<office, pos, mem>>
      /\ \/ Done /\ UNCHANGED cell
         \/ /\ cell' = [w \in People \cup {p.who} |-> IF w = p.who THEN {} ELSE cell[w]]
            /\ Becomes(<<Listed("hire", p)>>)
  BY DEF Unknown
<1>3. Turn(agenda[1]) = 2 /\ Rows /\ agenda[1].op # "entitle" /\ agenda[1].op \in {"person", "hire"}
  BY DEF Turn, OfficesInv
<1> HIDE DEF p
<1>4. CASE Done /\ UNCHANGED cell
  <2>1. mem' \in [at : {mem.at}, keep : {mem.keep}, kept : {mem.kept}, missed : SUBSET Name]
    BY <1>2, <1>3 DEF Rows
  <2> QED
    BY <1>2, <1>3, <1>4, <2>1, FieldsInv
<1>5. CASE /\ cell' = [w \in People \cup {p.who} |-> IF w = p.who THEN {} ELSE cell[w]]
           /\ Becomes(<<Listed("hire", p)>>)
  <2>1. /\ People' = People \cup {p.who}
        /\ \A w \in People : cell'[w] = cell[w]
        /\ cell'[p.who] = {}
    BY <1>2, <1>5 DEF People
  <2>2. Rows'
    BY <1>1, <1>2, <1>3, <2>1 DEF Rows, Worker
  <2> DEFINE x == Listed("hire", p)  s == <<x>>
  <2>3. /\ x \in Item /\ x.op = "hire" /\ Turn(x) = 2 /\ x.person = p
    BY <1>1, Made DEF Listed, Turn
  <2> HIDE DEF x
  <2>4. s \in Seq(Item) /\ Sorted(s) /\ Items(s) = {x} /\ Behind(s) = {}
    BY <2>3, OneItem
  <2>5. Becomes(s)
    BY <1>5 DEF x
  <2> HIDE DEF s
  <2>6. mem.at \in DOMAIN office
    BY <1>3, VisitingNow
  <2>7. \A i \in DOMAIN pos : pos[i].who # p.who
    BY <1>2, <1>3 DEF Rows
  <2>8. \A y \in Items(s) : /\ Turn(y) = 2 /\ y.op # "entitle" /\ Grounded(y)'
                            /\ y.op = "hire" => \A i \in DOMAIN pos : pos[i].who # y.person.who
    <3> SUFFICES ASSUME NEW y \in Items(s) PROVE Turn(y) = 2 /\ y.op = "hire" /\ y.person = p /\ Grounded(y)'
      BY <2>7
    <3>1. Turn(y) = 2 /\ y.op = "hire" /\ y.person = p
      BY <2>3, <2>4
    <3>2. Asked(file, y.person) /\ y.person.who \in People'
      BY <1>1, <2>1, <3>1
    <3>3. Grounded(y)'
      BY <1>2, <2>6, <3>1, <3>2 DEF Grounded
    <3> QED
      BY <3>1, <3>3
  <2> QED
    BY <1>2, <1>3, <2>1, <2>2, <2>4, <2>5, <2>8, QuietInv
<1> QED
  BY <1>2, <1>4, <1>5

LEMMA HireInv ==
  ASSUME OfficesInv, agenda # <<>>, UNCHANGED <<file, tally, last>>,
         agenda[1].op = "hire", Hire(agenda[1].person)
  PROVE  OfficesInv'
<1> DEFINE p == agenda[1].person
<1>1. /\ p \in Worker /\ Asked(file, p) /\ p.who \in People
  BY Standing, Kinds DEF Grounded
<1>2. \A i \in DOMAIN pos : pos[i].who # p.who
  BY DEF OfficesInv, Unique
<1>3. Create(p) /\ Becomes(Rest(p, TRUE)) /\ UNCHANGED <<office, cell, mem>>
  BY DEF Hire
<1> HIDE DEF p
<1> QED
  BY <1>1, <1>2, <1>3, CreateInv

LEMMA EntitleInv ==
  ASSUME OfficesInv, agenda # <<>>, UNCHANGED <<file, tally, last>>,
         agenda[1].op = "entitle", Entitle(agenda[1].id, agenda[1].title)
  PROVE  OfficesInv'
<1> DEFINE k == agenda[1].id  t == agenda[1].title
<1>1. Turn(agenda[1]) = 2 /\ Rows /\ UNCHANGED <<office, cell, mem>> /\ Done
  BY DEF Turn, OfficesInv, Entitle
<1>2. /\ mem.at \in DOMAIN office /\ Ongoing(office[mem.at]) /\ office[mem.at].name \in Names(file)
      /\ agenda[1].op \notin {"endOld", "rename", "end", "reopen"} /\ ~Closing(agenda[1])
      /\ \A x \in Behind(agenda) : Turn(x) >= 2
  BY <1>1, VisitingNow
<1>3. /\ k \in DOMAIN pos
      /\ \A j \in DOMAIN pos : ~ (/\ pos[j].who = pos[k].who /\ pos[j].org = pos[k].org
                                  /\ pos[j].title = t /\ Active(pos[j], Today))
  BY DEF OfficesInv, Unique
<1>4. t \in Title /\ t # Null
  BY Standing, Kinds, OfficeAssumption
<1>5. pos' = [pos EXCEPT ![k].title = t]
  BY DEF Entitle
<1>6. ToTitle = {k} /\ Leaving = {}
  BY <1>1, NotLeaving DEF ToTitle
<1> HIDE DEF k, t
<1>7. /\ pos' \in Seq(Position) /\ DOMAIN pos' = DOMAIN pos
      /\ pos'[k].title = t
      /\ \A i \in DOMAIN pos : i # k => pos'[i] = pos[i]
      /\ \A i \in DOMAIN pos : /\ pos'[i].who = pos[i].who /\ pos'[i].org = pos[i].org
                               /\ pos'[i].start = pos[i].start /\ pos'[i].end = pos[i].end
  <2> DEFINE r == [pos[k] EXCEPT !.title = t]
  <2>1. pos' = [pos EXCEPT ![k] = r] /\ pos \in Seq(Position) /\ pos[k] \in Position
    BY <1>1, <1>3, <1>5, Tables DEF Rows
  <2>2. /\ r \in Position /\ r.title = t /\ r.who = pos[k].who /\ r.org = pos[k].org
        /\ r.start = pos[k].start /\ r.end = pos[k].end
    BY <1>4, <2>1 DEF Position
  <2> HIDE DEF r
  <2>3. /\ pos' \in Seq(Position) /\ DOMAIN pos' = DOMAIN pos
        /\ pos'[k] = r /\ \A i \in DOMAIN pos : i # k => pos'[i] = pos[i]
    BY <1>3, <2>1, <2>2
  <2> QED
    BY <2>2, <2>3
<1>8. \A i \in DOMAIN pos : Active(pos'[i], Today) <=> Active(pos[i], Today)
  BY <1>7, ActiveSame
<1>9. People' = People
  BY <1>1 DEF People
<1>10. Rows'
  BY <1>1, <1>7, <1>9 DEF Rows
<1>11. \A x \in Behind(agenda) : x.op # "end" /\ ~Closing(x) /\ Grounded(x)' /\ x.op \notin First
  <2> SUFFICES ASSUME NEW x \in Behind(agenda)
               PROVE  x.op # "end" /\ ~Closing(x) /\ Grounded(x)' /\ x.op \notin First
    OBVIOUS
  <2>1. x.op # "end" /\ x \in Items(agenda) /\ agenda[1] \in Items(agenda) /\ Grounded(x) /\ x.op \notin First
    BY <1>2, Standing DEF Turn
  <2>2. ~Closing(x)
    BY <1>2, <2>1 DEF OfficesInv, Ordered
  <2>3. Grounded(x)'
    BY <1>1, <1>7, <1>9, <2>1, StillGrounded
  <2> QED
    BY <2>1, <2>2, <2>3
<1>12. /\ Ordered' /\ agenda' \in Seq(Item)
       /\ Items(agenda') = Behind(agenda)
       /\ agenda' # <<>> => agenda'[1] \in Behind(agenda)
  BY <1>1, <1>11, NoItems, OrderedNext DEF Done
<1>13. agenda' # <<>> => agenda'[1].op \notin First \cup {"end"}
  BY <1>11, <1>12
<1>14. Unique' /\ Leaving' = {} /\ ToTitle' = {}
  BY <1>13 DEF Unique, Leaving, ToTitle, First
<1>15. Visited'
  BY <1>1, <1>2, VisitedNext DEF OfficesInv
<1>16. UntitledFew'
  <2>1. Untitled' \subseteq Untitled \ {k}
    BY <1>3, <1>4, <1>7 DEF Untitled
  <2>2. (Untitled \ ToTitle)' \subseteq Untitled \ ToTitle
    BY <1>6, <1>14, <2>1
  <2> QED
    BY <1>1, <2>2, UntitledNext DEF OfficesInv
<1>17. HauntedFew'
  <2>1. Haunted' = Haunted
    BY <1>1, <1>7, <1>8 DEF Haunted, ActiveIn
  <2> QED
    BY <1>1, <1>6, <1>14, <2>1, HauntedNext DEF OfficesInv
<1>18. Single'
  <2> SUFFICES ASSUME NEW i \in DOMAIN pos, NEW j \in DOMAIN pos,
                      i # j /\ pos'[i].who = pos'[j].who /\ pos'[i].org = pos'[j].org,
                      pos'[i].title = pos'[j].title, Active(pos'[i], Today), Active(pos'[j], Today)
               PROVE  pos'[i].title = Null
    BY <1>7 DEF Single
  <2>1. /\ pos[i].who = pos[j].who /\ pos[i].org = pos[j].org
        /\ Active(pos[i], Today) /\ Active(pos[j], Today)
    BY <1>7, <1>8
  <2>2. CASE i = k \/ j = k
    BY <1>3, <1>7, <2>1, <2>2
  <2>3. CASE i # k /\ j # k
    BY <1>7, <2>1, <2>3 DEF OfficesInv, Single
  <2> QED
    BY <2>2, <2>3
<1>19. OneOfficeEach'
  BY <1>1 DEF OfficesInv, OneOfficeEach
<1>20. Ending'
  BY <1>2, <1>12, EndingNext
<1> QED
  BY <1>10, <1>12, <1>14, <1>15, <1>16, <1>17, <1>18, <1>19, <1>20 DEF OfficesInv

-----------------------------------------------------------------------------
(* The positions and the offices that end.                                 *)

LEMMA Restful ==
  ASSUME OfficesInv, agenda # <<>>, NEW x \in Behind(agenda)
  PROVE  /\ Grounded(x) /\ x.op \notin First /\ Turn(x) >= Turn(agenda[1]) /\ x \in Items(agenda)
         /\ Closing(x) <=> Closing(agenda[1])
         /\ \A y \in Items(agenda) : x.op = "end" /\ y.op = "end" => pos[x.id].org = pos[y.id].org
<1>1. /\ Grounded(x) /\ x.op \notin First /\ Turn(agenda[1]) <= Turn(x)
      /\ x \in Items(agenda) /\ agenda[1] \in Items(agenda)
  BY Standing
<1>2. \A y, z \in Items(agenda) :
        /\ Closing(y) => Closing(z)
        /\ y.op = "end" /\ z.op = "end" => pos[y.id].org = pos[z.id].org
  BY DEF OfficesInv, Ordered
<1>3. Turn(x) >= Turn(agenda[1])
  BY <1>1, TurnInt
<1> QED
  BY <1>1, <1>2, <1>3

LEMMA LeaversInv ==
  ASSUME OfficesInv, agenda # <<>>, UNCHANGED <<file, tally, last>>,
         agenda[1].op = "leavers", Leavers
  PROVE  OfficesInv'
<1> DEFINE S == ActiveIn(mem.at) \ mem.keep  s == EndAll(S, NoDate)
<1>1. /\ Turn(agenda[1]) = 2 /\ Rows /\ UNCHANGED <<office, pos, cell>> /\ agenda[1].op # "entitle"
      /\ mem' = [mem EXCEPT !.kept = @ \cup {mem.at}] /\ Becomes(s)
  BY DEF Turn, OfficesInv, Leavers
<1>2. /\ mem.at \in DOMAIN office /\ Ongoing(office[mem.at]) /\ office[mem.at].name \in Names(file)
      /\ agenda[1].op \notin {"endOld", "rename", "end", "reopen"} /\ ~Closing(agenda[1])
      /\ \A x \in Behind(agenda) : Turn(x) >= 2
  BY <1>1, VisitingNow
<1>3. /\ S \subseteq DOMAIN pos /\ IsFiniteSet(S) /\ S \subseteq Nat
      /\ \A i \in S : Active(pos[i], Today) /\ pos[i].org = mem.at
  <2>1. S \subseteq DOMAIN pos /\ \A i \in S : Active(pos[i], Today) /\ pos[i].org = mem.at
    BY DEF ActiveIn
  <2> HIDE DEF S
  <2> QED
    BY <1>1, <2>1, Tables, FS_Subset
<1> HIDE DEF S
<1>4. /\ s \in Seq(Item) /\ Sorted(s)
      /\ \A x \in Items(s) : Turn(x) = 0 /\ x.op = "end" /\ x.id \in S /\ x.date = NoDate
  <2>1. NoDate \in Approximate
    BY DEF Approximate
  <2> QED
    BY <1>3, <2>1, EndItems
<1> HIDE DEF s
<1>5. /\ mem'.at = mem.at /\ mem'.kept = mem.kept \cup {mem.at} /\ People' = People
      /\ mem' \in [at : Nat, keep : SUBSET DOMAIN pos, kept : SUBSET DOMAIN office, missed : SUBSET Name]
  BY <1>1, <1>2 DEF Rows, People
<1>6. Rows'
  BY <1>1, <1>5 DEF Rows
<1>7. \A x \in Items(s) : /\ Turn(x) <= Turn(agenda[1]) /\ x.op # "endOld" /\ Grounded(x)'
                          /\ ~Closing(x) /\ x.op \notin First
  <2> SUFFICES ASSUME NEW x \in Items(s)
               PROVE  Turn(x) <= Turn(agenda[1]) /\ x.op \notin {"endOld"} \cup First /\ Grounded(x)' /\ ~Closing(x)
    OBVIOUS
  <2>1. Turn(x) = 0 /\ x.op = "end" /\ x.id \in S /\ x.date = NoDate
    BY <1>4
  <2>2. Grounded(x)'
    BY <1>1, <1>3, <2>1 DEF Grounded
  <2> QED
    BY <1>1, <2>1, <2>2 DEF Closing, First
<1>8. \A x \in Behind(agenda) : x.op # "end" /\ ~Closing(x) /\ Grounded(x)' /\ x.op \notin First
  <2> SUFFICES ASSUME NEW x \in Behind(agenda)
               PROVE  x.op # "end" /\ ~Closing(x) /\ Grounded(x)' /\ x.op \notin First
    OBVIOUS
  <2>1. Grounded(x) /\ x.op # "end" /\ ~Closing(x) /\ x.op \notin First
    BY <1>2, Restful DEF Turn
  <2> QED
    BY <1>1, <1>5, <2>1, StillGrounded
<1>9. /\ Ordered' /\ agenda' \in Seq(Item)
      /\ Items(agenda') = Items(s) \cup Behind(agenda)
      /\ s # <<>> => agenda' # <<>> /\ agenda'[1] = s[1]
      /\ s = <<>> /\ agenda' # <<>> => agenda'[1] \in Behind(agenda)
  <2>1. \A x \in Behind(s) : x.op \notin First
    BY <1>4, <1>7, FirstItem, NoItems
  <2>2. \A x, y \in Items(s) \cup Behind(agenda) :
            /\ Closing(x) => Closing(y)
            /\ x.op = "end" /\ y.op = "end" => pos'[x.id].org = pos'[y.id].org
    BY <1>1, <1>3, <1>4, <1>7, <1>8
  <2> QED
    BY <1>1, <1>4, <1>7, <1>8, <2>1, <2>2, OrderedNext
<1>10. agenda' # <<>> => agenda'[1] \in Items(s) \cup Behind(agenda)
  BY <1>9, FirstItem
<1>11. Unique' /\ Leaving' = {} /\ ToTitle' = {}
  <2>1. agenda' # <<>> => agenda'[1].op \notin First /\ ~Closing(agenda'[1])
    BY <1>7, <1>8, <1>10
  <2> QED
    BY <2>1 DEF Unique, Leaving, ToTitle, First
<1>12. Leaving = {} /\ ToTitle = {}
  BY <1>1, NotLeaving
<1>13. Visited'
  <2>1. \A o \in mem'.kept : office'[o].name \in Names(file)
    BY <1>1, <1>2, <1>5, Standing DEF OfficesInv, Visited
  <2> QED
    BY <1>1, <1>2, <1>5, <2>1 DEF Visited
<1>14. UntitledFew'
  <2>1. Untitled' = Untitled
    BY <1>1 DEF Untitled
  <2> QED
    BY <1>1, <1>11, <1>12, <2>1, UntitledNext DEF OfficesInv
<1>15. HauntedFew'
  <2>1. Haunted' = Haunted
    BY <1>1 DEF Haunted, ActiveIn
  <2> QED
    BY <1>1, <1>11, <1>12, <2>1, HauntedNext DEF OfficesInv
<1>16. Single' /\ OneOfficeEach'
  BY <1>1 DEF OfficesInv, Single, OneOfficeEach
<1>17. Ending'
  BY <1>2, <1>9, EndingNext
<1> QED
  BY <1>6, <1>9, <1>11, <1>13, <1>14, <1>15, <1>16, <1>17 DEF OfficesInv

LEMMA EndPositionInv ==
  ASSUME OfficesInv, agenda # <<>>, UNCHANGED <<file, tally, last>>,
         agenda[1].op = "end", EndPosition(agenda[1].id, agenda[1].date)
  PROVE  OfficesInv'
<1> DEFINE k == agenda[1].id  d == agenda[1].date
<1>1. /\ Turn(agenda[1]) = 0 /\ Rows /\ UNCHANGED <<office, cell, mem>> /\ Done
      /\ pos' = [pos EXCEPT ![k].end = d]
  BY DEF Turn, OfficesInv, EndPosition
<1>2. /\ k \in DOMAIN pos /\ d \in {NoDate, file.end} /\ d \in Approximate
      /\ d = NoDate => Active(pos[k], Today)
      /\ Closing(agenda[1]) <=> d # NoDate
  BY Standing, Kinds DEF Grounded, Closing
<1>3. Before(High(file.end), Today) /\ file # Null
  BY Standing, CallShape
<1>4. Leaving = IF d # NoDate THEN {pos[k].org} ELSE {}
  BY <1>2 DEF Leaving
<1>5. \A x \in Items(agenda) : x \in Behind(agenda) \/ (x.op = "end" /\ x.id = k)
  BY Standing
<1>6. ToTitle = {}
  BY NotLeaving
<1>7. \A x \in Behind(agenda) : Closing(x) <=> d # NoDate
  BY <1>2, Restful
<1>8. \A x \in Behind(agenda) : x.op = "end" => pos[x.id].org = pos[k].org
  <2>1. agenda[1] \in Items(agenda)
    BY Standing
  <2> QED
    BY <2>1, Restful
<1> HIDE DEF k, d
<1>9. /\ pos' \in Seq(Position) /\ DOMAIN pos' = DOMAIN pos
      /\ \A i \in DOMAIN pos : i # k => pos'[i] = pos[i]
      /\ \A i \in DOMAIN pos : pos'[i].who = pos[i].who /\ pos'[i].org = pos[i].org
                               /\ pos'[i].title = pos[i].title
      /\ d = NoDate => Active(pos'[k], Today)
      /\ d # NoDate => ~Active(pos'[k], Today)
  <2> DEFINE r == [pos[k] EXCEPT !.end = d]
  <2>1. pos' = [pos EXCEPT ![k] = r] /\ pos \in Seq(Position) /\ pos[k] \in Position
    BY <1>1, <1>2, Tables DEF Rows
  <2>2. r \in Position /\ r.who = pos[k].who /\ r.org = pos[k].org /\ r.title = pos[k].title
    BY <1>2, <2>1 DEF Position
  <2>3. d = NoDate => Active(r, Today)
    BY <1>2, <2>1, OpenEnded
  <2>4. d # NoDate => ~Active(r, Today)
    BY <1>2, <1>3, <2>1, LeftBefore
  <2> HIDE DEF r
  <2>5. /\ pos' \in Seq(Position) /\ DOMAIN pos' = DOMAIN pos
        /\ pos'[k] = r /\ \A i \in DOMAIN pos : i # k => pos'[i] = pos[i]
    BY <1>2, <2>1, <2>2
  <2> QED
    BY <2>2, <2>3, <2>4, <2>5
<1>10. \A i \in DOMAIN pos : Active(pos'[i], Today) => Active(pos[i], Today)
  BY <1>2, <1>9
<1>11. People' = People
  BY <1>1 DEF People
<1>12. Rows'
  BY <1>1, <1>9, <1>11 DEF Rows
<1>13. \A x \in Behind(agenda) : Grounded(x)' /\ x.op \notin First
  <2> SUFFICES ASSUME NEW x \in Behind(agenda) PROVE Grounded(x)' /\ x.op \notin First
    OBVIOUS
  <2>1. Grounded(x) /\ x.op \notin First
    BY Restful
  <2>2. x.op = "end" /\ x.date = NoDate => Active(pos'[x.id], Today)
    <3> SUFFICES ASSUME x.op = "end", x.date = NoDate PROVE Active(pos'[x.id], Today)
      OBVIOUS
    <3>1. d = NoDate
      BY <1>7 DEF Closing
    <3>2. x.id \in DOMAIN pos /\ Active(pos[x.id], Today)
      BY <2>1 DEF Grounded
    <3> QED
      BY <1>9, <3>1, <3>2
  <2> QED
    BY <1>1, <1>9, <1>11, <2>1, <2>2, StillGrounded
<1>14. /\ Ordered' /\ agenda' \in Seq(Item)
       /\ Items(agenda') = Behind(agenda)
       /\ agenda' # <<>> => agenda'[1] \in Behind(agenda)
  <2>1. \A x, y \in Behind(agenda) :
            /\ Closing(x) => Closing(y)
            /\ x.op = "end" /\ y.op = "end" => pos'[x.id].org = pos'[y.id].org
    <3> SUFFICES ASSUME NEW x \in Behind(agenda), NEW y \in Behind(agenda), x.op = "end", y.op = "end"
                 PROVE  pos'[x.id].org = pos'[y.id].org
      BY <1>7
    <3>1. x.id \in DOMAIN pos /\ y.id \in DOMAIN pos
      BY Restful DEF Grounded
    <3> QED
      BY <1>8, <1>9, <3>1
  <2>2. Becomes(<<>>)
    BY <1>1 DEF Done
  <2> QED
    BY <1>13, <2>1, <2>2, NoItems, OrderedNext
<1>15. agenda' # <<>> => agenda'[1].op \notin First /\ (Closing(agenda'[1]) <=> d # NoDate)
  BY <1>7, <1>13, <1>14
<1>16. Unique' /\ ToTitle' = {}
  BY <1>15 DEF Unique, ToTitle, First
<1>17. Visited'
  <2>1. \A x \in Items(agenda) : x.op # "end" => x \in Items(agenda')
    BY <1>5, <1>14
  <2>2. Items(agenda') \subseteq Items(agenda)
    BY <1>14, Standing
  <2> QED
    BY <1>1, <2>1, <2>2 DEF OfficesInv, Visited
<1>18. UntitledFew'
  <2>1. Untitled' = Untitled
    BY <1>9 DEF Untitled
  <2> QED
    BY <1>1, <1>6, <1>16, <2>1, UntitledNext DEF OfficesInv
<1>19. \A o \in DOMAIN office : ActiveIn(o)' \subseteq ActiveIn(o)
  BY <1>9, <1>10 DEF ActiveIn
<1>20. Haunted' \subseteq Haunted
  BY <1>1, <1>19 DEF Haunted
<1>21. HauntedFew'
  <2>1. CASE d = NoDate
    <3>1. Leaving' = {} /\ Leaving = {}
      BY <1>4, <1>15, <2>1 DEF Leaving
    <3> QED
      BY <1>1, <1>20, <3>1, HauntedNext DEF OfficesInv
  <2>2. CASE d # NoDate
    <3> PICK h : h = pos[k].org
      OBVIOUS
    <3>1. Leaving = {h} /\ h \in DOMAIN office
      BY <1>1, <1>2, <1>4, <2>2 DEF Rows
    <3>2. \A i \in ActiveIn(h)' : End(i, file.end) \in Behind(agenda)
      <4> SUFFICES ASSUME NEW i \in ActiveIn(h)' PROVE End(i, file.end) \in Behind(agenda)
        OBVIOUS
      <4>1. i \in ActiveIn(h) /\ i # k
        BY <1>9, <1>10, <2>2 DEF ActiveIn
      <4>2. End(i, file.end) \in Items(agenda)
        BY <3>1, <4>1 DEF OfficesInv, HauntedFew
      <4> QED
        BY <1>5, <4>1, <4>2 DEF End
    <3>3. CASE agenda' # <<>> /\ agenda'[1].op = "end"
      <4>1. agenda'[1].id \in DOMAIN pos /\ pos[agenda'[1].id].org = h
        BY <1>8, <1>14, <3>3, Restful DEF Grounded
      <4>2. Leaving' = {h}
        BY <1>9, <1>15, <2>2, <3>3, <4>1 DEF Leaving
      <4>3. \A i \in ActiveIn(h)' : End(i, file'.end) \in Items(agenda')
        BY <1>14, <3>2
      <4>4. Cardinality(Haunted' \ {h}) <= tally.kills
        <5>1. Cardinality(Haunted \ {h}) <= tally.kills
          BY <3>1 DEF OfficesInv, HauntedFew
        <5>2. IsFiniteSet(Haunted \ {h})
          BY <1>1, Tables, FS_Subset DEF Haunted
        <5>3. Haunted' \ {h} \subseteq Haunted \ {h} /\ tally.kills \in Int
          BY <1>1, <1>20, Tables
        <5> QED
          BY <5>1, <5>2, <5>3, Fewer
      <4>5. /\ Cardinality(Haunted' \ Leaving') <= tally'.kills
            /\ \A o \in Leaving' : \A i \in ActiveIn(o)' : End(i, file'.end) \in Items(agenda')
        BY <4>2, <4>3, <4>4
      <4> QED
        BY <4>5 DEF HauntedFew
    <3>4. CASE ~(agenda' # <<>> /\ agenda'[1].op = "end")
      <4>1. ActiveIn(h)' = {}
        <5> SUFFICES ASSUME NEW i \in ActiveIn(h)' PROVE FALSE
          OBVIOUS
        <5>1. End(i, file.end) \in Items(agenda') /\ End(i, file.end).op = "end"
          BY <1>14, <3>2 DEF End
        <5>2. agenda' # <<>>
          BY <5>1 DEF Items
        <5>3. /\ Items(agenda') = {agenda'[1]} \cup Behind(agenda')
              /\ \A x \in Behind(agenda') : Turn(agenda'[1]) <= Turn(x)
          BY <1>14, <5>2, FirstItem DEF Ordered
        <5>4. Turn(agenda'[1]) <= 0
          BY <5>1, <5>3 DEF Turn
        <5> QED
          BY <3>4, <5>2, <5>4 DEF Turn
      <4>2. Leaving' = {} /\ h \notin Haunted'
        BY <3>4, <4>1 DEF Leaving, Haunted
      <4> QED
        BY <1>1, <1>20, <3>1, <4>2, HauntedNext DEF OfficesInv
    <3> QED
      BY <3>3, <3>4
  <2> QED
    BY <2>1, <2>2
<1>22. Single'
  BY <1>9, <1>10 DEF OfficesInv, Single
<1>23. OneOfficeEach'
  BY <1>1 DEF OfficesInv, OneOfficeEach
<1>24. Ending'
  <2>1. Remaining(file)' = Remaining(file)
    BY <1>1 DEF Remaining
  <2>2. \A x \in Items(agenda) : x.op # "end" => x \in Items(agenda')
    BY <1>5, <1>14
  <2>3. \A o : Close(o).op = "endOffice"
    BY DEF Close
  <2>4. Items(agenda') \subseteq Items(agenda)
    BY <1>14, Standing
  <2> QED
    BY <1>3, <2>1, <2>2, <2>3, <2>4 DEF OfficesInv, Ending
<1> QED
  BY <1>12, <1>14, <1>16, <1>17, <1>18, <1>21, <1>22, <1>23, <1>24 DEF OfficesInv

LEMMA EndOldOfficesInv ==
  ASSUME OfficesInv, agenda # <<>>, UNCHANGED <<file, tally, last>>,
         agenda[1].op = "endOld", EndOldOffices
  PROVE  OfficesInv'
<1> DEFINE S == OldOffices  s == CloseAll(S)
<1>1. /\ Turn(agenda[1]) = 4 /\ Rows /\ UNCHANGED <<office, pos, cell, mem>> /\ agenda[1].op # "entitle"
      /\ Becomes(s)
  BY DEF Turn, OfficesInv, EndOldOffices
<1>2. Behind(agenda) = {}
  BY Standing
<1>3. S \subseteq DOMAIN office /\ IsFiniteSet(S) /\ S \subseteq Nat
  <2>1. S \subseteq DOMAIN office
    BY DEF OldOffices
  <2> HIDE DEF S
  <2> QED
    BY <1>1, <2>1, Tables, FS_Subset
<1>4. Remaining(file) \subseteq S
  <2>1. file # Null
    BY Standing
  <2>2. \A o \in mem.kept : office[o].name \in Names(file)
    BY <2>1 DEF OfficesInv, Visited
  <2> QED
    BY <2>2 DEF Remaining, OldOffices
<1> HIDE DEF S
<1>5. /\ s \in Seq(Item) /\ Sorted(s)
      /\ \A x \in Items(s) : Turn(x) = 4 /\ x.op = "endOffice" /\ x.id \in S
      /\ \A o \in S : Close(o) \in Items(s)
  BY <1>3, CloseItems
<1> HIDE DEF s
<1>6. \A x \in Items(s) : /\ Turn(x) <= Turn(agenda[1]) /\ x.op # "endOld" /\ Grounded(x)'
                          /\ x.op \notin First /\ Closing(x)
  <2> SUFFICES ASSUME NEW x \in Items(s)
               PROVE  Turn(x) <= Turn(agenda[1]) /\ x.op \notin {"endOld"} \cup First /\ Grounded(x)' /\ Closing(x)
    OBVIOUS
  <2>1. Turn(x) = 4 /\ x.op = "endOffice" /\ x.id \in DOMAIN office
    BY <1>3, <1>5
  <2>2. Grounded(x)'
    BY <1>1, <2>1 DEF Grounded
  <2> QED
    BY <1>1, <2>1, <2>2 DEF Closing, First
<1>7. People' = People /\ Rows'
  BY <1>1 DEF Rows, People
<1>8. /\ Ordered' /\ agenda' \in Seq(Item)
      /\ Items(agenda') = Items(s)
      /\ agenda' # <<>> => agenda'[1] \in Items(s)
  <2>1. \A x \in Behind(s) : x.op \notin First
    BY <1>5, <1>6, FirstItem, NoItems
  <2>2. \A x, y \in Items(s) \cup Behind(agenda) :
            /\ Closing(x) => Closing(y)
            /\ x.op = "end" /\ y.op = "end" => pos'[x.id].org = pos'[y.id].org
    BY <1>2, <1>5, <1>6
  <2>3. \A x \in Behind(agenda) : Grounded(x)'
    BY <1>2
  <2>4. /\ Ordered' /\ agenda' \in Seq(Item)
        /\ Items(agenda') = Items(s) \cup Behind(agenda)
    BY <1>1, <1>5, <1>6, <2>1, <2>2, <2>3, OrderedNext
  <2> QED
    BY <1>2, <2>4, FirstItem
<1>9. \A x \in Items(agenda') : Turn(x) = 4
  BY <1>5, <1>8
<1>10. agenda' # <<>> => agenda'[1].op = "endOffice"
  BY <1>5, <1>8
<1>11. Unique' /\ Leaving' = {} /\ ToTitle' = {}
  BY <1>10 DEF Unique, Leaving, ToTitle
<1>12. Leaving = {} /\ ToTitle = {}
  BY <1>1, NotLeaving
<1>13. Visited'
  BY <1>1, <1>9 DEF OfficesInv, Visited
<1>14. Untitled' = Untitled /\ Haunted' = Haunted
  BY <1>1 DEF Untitled, Haunted, ActiveIn
<1>15. UntitledFew' /\ HauntedFew'
  BY <1>1, <1>11, <1>12, <1>14, UntitledNext, HauntedNext DEF OfficesInv
<1>16. Single' /\ OneOfficeEach'
  BY <1>1 DEF OfficesInv, Single, OneOfficeEach
<1>17. Ending'
  <2>1. Remaining(file)' = Remaining(file) /\ file # Null
    BY <1>1, Standing DEF Remaining
  <2>2. /\ \A x \in Items(agenda') : Closing(x)
        /\ \A o \in Remaining(file)' : Close(o) \in Items(agenda')
    BY <1>4, <1>5, <1>6, <1>8, <2>1
  <2> QED
    BY <2>1, <2>2 DEF Ending
<1> QED
  BY <1>7, <1>8, <1>11, <1>13, <1>15, <1>16, <1>17 DEF OfficesInv

(* What both cases of EndOffice establish: the offices that are ended are  *)
(* behind, and what is to be done is about others.                         *)
LEMMA ClosingNext ==
  ASSUME OfficesInv, agenda # <<>>, UNCHANGED file, agenda[1].op = "endOffice",
         \A x \in Items(agenda') : Closing(x), Behind(agenda) \subseteq Items(agenda'),
         UNCHANGED <<pos, cell, mem, tally>>, DOMAIN office' = DOMAIN office,
         \A o \in DOMAIN office : office'[o].name = office[o].name /\ office'[o].slug = office[o].slug
                                  /\ office'[o].parties = office[o].parties,
         \A o \in DOMAIN office \ {agenda[1].id} : office'[o] = office[o],
         ~Ongoing(office'[agenda[1].id]), agenda' \in Seq(Item)
  PROVE  Visited' /\ Unique' /\ UntitledFew' /\ Single' /\ OneOfficeEach' /\ Ending'
<1>1. \A x : Closing(x) => Turn(x) \notin {1, 2} /\ x.op \notin First
  BY DEF Closing, Turn, First
<1>2. agenda' # <<>> => Closing(agenda'[1])
  BY FirstItem
<1>3. Visited'
  <2>1. file # Null /\ mem.kept \subseteq DOMAIN office
    BY Standing DEF OfficesInv, Rows
  <2> QED
    BY <1>1, <2>1 DEF OfficesInv, Visited
<1>4. Unique' /\ ToTitle' = {} /\ ToTitle = {}
  BY <1>1, <1>2 DEF Unique, ToTitle, First
<1>5. UntitledFew'
  <2>1. Untitled' = Untitled
    BY DEF Untitled
  <2> QED
    BY <1>4, <2>1, UntitledNext DEF OfficesInv
<1>6. Single' /\ OneOfficeEach'
  BY DEF OfficesInv, Single, OneOfficeEach
<1>7. Ending'
  <2> SUFFICES ASSUME file.endOld # Null, NEW o \in Remaining(file)' PROVE Close(o) \in Items(agenda')
    BY Standing DEF Ending
  <2>1. o \in DOMAIN office /\ o # agenda[1].id /\ o \in Remaining(file)
    BY DEF Remaining
  <2>2. \/ \E x \in Items(agenda) : x.op = "endOld"
        \/ Close(o) \in Items(agenda)
    BY <2>1, Standing DEF OfficesInv, Ending
  <2>3. Items(agenda) = {agenda[1]} \cup Behind(agenda)
    BY Standing
  <2>4. CASE Close(o) \in Items(agenda)
    BY <2>1, <2>3, <2>4 DEF Close
  <2>5. CASE \E x \in Items(agenda) : x.op = "endOld"
    BY <2>3, <2>5 DEF Closing
  <2> QED
    BY <2>2, <2>4, <2>5
<1> QED
  BY <1>3, <1>4, <1>5, <1>6, <1>7

LEMMA EndOfficeInv ==
  ASSUME OfficesInv, agenda # <<>>, UNCHANGED <<file, tally, last>>,
         agenda[1].op = "endOffice", EndOffice(agenda[1].id)
  PROVE  OfficesInv'
<1>1. PICK o : o = agenda[1].id
  OBVIOUS
<1>2. /\ Turn(agenda[1]) = 4 /\ Rows /\ UNCHANGED <<pos, cell, mem>> /\ Closing(agenda[1])
      /\ o \in DOMAIN office
  BY <1>1, Standing DEF Turn, OfficesInv, EndOffice, Closing, Grounded
<1>3. /\ \A x \in Behind(agenda) : Closing(x) /\ Turn(x) >= 4 /\ x.op # "end" /\ Grounded(x)
  BY <1>2, Restful DEF Turn
<1>4. Leaving = {} /\ People' = People
  BY <1>2, NotLeaving DEF People
<1>5. CASE ~Ongoing(office[o]) /\ Done /\ UNCHANGED office
  <2>1. Rows'
    BY <1>2, <1>4, <1>5 DEF Rows
  <2>2. \A x \in Behind(agenda) : Grounded(x)'
    BY <1>2, <1>3, <1>4, <1>5, StillGrounded
  <2>3. \A x, y \in Behind(agenda) :
            /\ Closing(x) => Closing(y)
            /\ x.op = "end" /\ y.op = "end" => pos'[x.id].org = pos'[y.id].org
    BY <1>3
  <2>4. /\ Ordered' /\ agenda' \in Seq(Item) /\ Items(agenda') = Behind(agenda)
        /\ agenda' # <<>> => agenda'[1] \in Behind(agenda)
    BY <1>5, <2>2, <2>3, NoItems, OrderedNext DEF Done
  <2>5. Visited' /\ Unique' /\ UntitledFew' /\ Single' /\ OneOfficeEach' /\ Ending'
    BY <1>1, <1>2, <1>3, <1>5, <2>4, ClosingNext
  <2>6. HauntedFew'
    <3>1. Leaving' = {}
      BY <1>3, <2>4 DEF Leaving
    <3>2. Haunted' = Haunted
      BY <1>2, <1>5 DEF Haunted, ActiveIn
    <3> QED
      BY <1>2, <1>4, <3>1, <3>2, HauntedNext DEF OfficesInv
  <2> QED
    BY <2>1, <2>4, <2>5, <2>6 DEF OfficesInv
<1>6. CASE /\ Ongoing(office[o])
           /\ office' = [office EXCEPT ![o].ended = file.end]
           /\ Becomes(EndAll(ActiveIn(o), file.end))
  <2> DEFINE S == ActiveIn(o)  s == EndAll(S, file.end)
  <2>1. /\ file.end \in Approximate /\ file.end # NoDate /\ Before(High(file.end), Today)
    BY Standing, CallShape
  <2>2. /\ office' \in Seq(Office) /\ DOMAIN office' = DOMAIN office
        /\ \A q \in DOMAIN office : office'[q].name = office[q].name /\ office'[q].slug = office[q].slug
                                    /\ office'[q].parties = office[q].parties
        /\ \A q \in DOMAIN office \ {o} : office'[q] = office[q]
        /\ ~Ongoing(office'[o])
    <3> DEFINE r == [office[o] EXCEPT !.ended = file.end]
    <3>1. office[o] \in Office /\ office' = [office EXCEPT ![o] = r]
      BY <1>2, <1>6, Tables
    <3>2. /\ r \in Office /\ r.name = office[o].name /\ r.slug = office[o].slug
          /\ r.parties = office[o].parties
      BY <2>1, <3>1 DEF Office
    <3>3. ~Ongoing(r)
      BY <2>1, <3>1, OverBefore
    <3> HIDE DEF r
    <3> QED
      BY <1>2, <3>1, <3>2, <3>3, OfficeSaved
  <2>3. /\ S \subseteq DOMAIN pos /\ IsFiniteSet(S) /\ S \subseteq Nat
        /\ \A i \in S : pos[i].org = o
    <3>1. S \subseteq DOMAIN pos /\ \A i \in S : pos[i].org = o
      BY DEF ActiveIn
    <3> HIDE DEF S
    <3> QED
      BY <1>2, <3>1, Tables, FS_Subset
  <2>4. Becomes(s) /\ S = ActiveIn(o)
    BY <1>6
  <2> HIDE DEF S
  <2>5. /\ s \in Seq(Item) /\ Sorted(s) /\ Items(s) = {End(i, file.end) : i \in S}
        /\ \A x \in Items(s) : Turn(x) = 0 /\ x.op = "end" /\ x.id \in S /\ x.date = file.end
    BY <2>1, <2>3, EndItems
  <2> HIDE DEF s
  <2>6. Rows'
    BY <1>2, <1>4, <2>2 DEF Rows
  <2>7. \A x \in Items(s) : /\ Turn(x) <= Turn(agenda[1]) /\ x.op # "endOld" /\ Grounded(x)'
                            /\ x.op \notin First /\ Closing(x)
    <3> SUFFICES ASSUME NEW x \in Items(s)
                 PROVE  Turn(x) <= Turn(agenda[1]) /\ x.op \notin {"endOld"} \cup First /\ Grounded(x)' /\ Closing(x)
      OBVIOUS
    <3>1. Turn(x) = 0 /\ x.op = "end" /\ x.id \in DOMAIN pos /\ x.date = file.end
      BY <2>3, <2>5
    <3>2. Grounded(x)'
      BY <1>2, <2>1, <3>1 DEF Grounded
    <3> QED
      BY <1>2, <2>1, <3>1, <3>2 DEF Closing, First
  <2>8. \A x \in Behind(agenda) : Grounded(x)'
    BY <1>2, <1>3, <1>4, <2>2, StillGrounded
  <2>9. /\ Ordered' /\ agenda' \in Seq(Item) /\ Items(agenda') = Items(s) \cup Behind(agenda)
        /\ s # <<>> => agenda' # <<>> /\ agenda'[1] = s[1]
        /\ s = <<>> /\ agenda' # <<>> => agenda'[1] \in Behind(agenda)
    <3>1. \A x \in Behind(s) : x.op \notin First
      BY <2>5, <2>7, FirstItem, NoItems
    <3>2. \A x, y \in Items(s) \cup Behind(agenda) :
              /\ Closing(x) => Closing(y)
              /\ x.op = "end" /\ y.op = "end" => pos'[x.id].org = pos'[y.id].org
      BY <1>2, <1>3, <2>3, <2>5, <2>7
    <3> QED
      BY <2>4, <2>5, <2>7, <2>8, <3>1, <3>2, OrderedNext
  <2>10. Visited' /\ Unique' /\ UntitledFew' /\ Single' /\ OneOfficeEach' /\ Ending'
    BY <1>1, <1>2, <1>3, <2>2, <2>7, <2>9, ClosingNext
  <2>11. HauntedFew'
    <3>1. Haunted' \subseteq Haunted \cup {o} /\ (S = {} => Haunted' \subseteq Haunted)
      BY <1>2, <2>2, <2>4 DEF Haunted, ActiveIn
    <3>2. CASE S = {}
      <4>1. s = <<>>
        BY <2>5, <3>2, FirstItem
      <4>2. Leaving' = {}
        BY <1>3, <2>9, <4>1 DEF Leaving
      <4> QED
        BY <1>2, <1>4, <3>1, <3>2, <4>2, HauntedNext DEF OfficesInv
    <3>3. CASE S # {}
      <4>1. s # <<>>
        BY <2>5, <3>3, NoItems
      <4>2. s[1] \in Items(s)
        BY <2>5, <4>1, FirstItem
      <4>3. Leaving' = {o}
        BY <1>2, <2>3, <2>5, <2>7, <2>9, <4>1, <4>2 DEF Leaving
      <4>4. Cardinality(Haunted' \ {o}) <= tally.kills
        <5>1. Cardinality(Haunted) <= tally.kills
          BY <1>4 DEF OfficesInv, HauntedFew
        <5>2. IsFiniteSet(Haunted) /\ tally.kills \in Int
          BY <1>2, Tables, FS_Subset DEF Haunted
        <5>3. Haunted' \ {o} \subseteq Haunted
          BY <3>1
        <5> QED
          BY <5>1, <5>2, <5>3, Fewer
      <4>5. \A i \in ActiveIn(o)' : End(i, file.end) \in Items(agenda')
        BY <1>2, <2>4, <2>5, <2>9 DEF ActiveIn
      <4>6. /\ Cardinality(Haunted' \ Leaving') <= tally'.kills
            /\ \A q \in Leaving' : \A i \in ActiveIn(q)' : End(i, file'.end) \in Items(agenda')
        BY <4>3, <4>4, <4>5
      <4> QED
        BY <4>6 DEF HauntedFew
    <3> QED
      BY <3>2, <3>3
  <2> QED
    BY <2>6, <2>9, <2>10, <2>11 DEF OfficesInv
<1> QED
  BY <1>1, <1>5, <1>6 DEF EndOffice

-----------------------------------------------------------------------------
(* Finding, renaming and reopening an office.                              *)

LEMMA ResavedInv ==
  ASSUME OfficesInv, agenda # <<>>, UNCHANGED <<file, tally, last, pos, cell, mem>>, Done,
         agenda[1].op \in {"rename", "reopen"},
         NEW r \in Office, office' = [office EXCEPT ![mem.at] = r],
         r.name \in Names(file), r.slug = office[mem.at].slug,
         r.name = office[mem.at].name \/ \A o \in DOMAIN office : office[o].name # r.name,
         r.ended = Future \/ (r.ended = office[mem.at].ended /\ agenda[1].op # "reopen")
  PROVE  OfficesInv'
<1>1. Turn(agenda[1]) = 1 /\ Rows /\ ~Closing(agenda[1]) /\ agenda[1].op \notin {"entitle", "endOld"}
  BY DEF Turn, OfficesInv, Closing
<1>2. mem.at \in DOMAIN office
  BY <1>1, Standing DEF Grounded
<1>3. /\ office' \in Seq(Office) /\ DOMAIN office' = DOMAIN office /\ office'[mem.at] = r
      /\ \A q \in DOMAIN office : q # mem.at => office'[q] = office[q]
  BY <1>1, <1>2, OfficeSaved
<1>4. Ongoing(office[mem.at]) \/ r.ended = Future => Ongoing(r)
  BY DEF Ongoing
<1>5. People' = People
  BY DEF People
<1>6. Rows'
  BY <1>1, <1>3, <1>5 DEF Rows
<1>7. \A x \in Behind(agenda) : Grounded(x)' /\ x.op \notin First /\ ~Closing(x) /\ x.op # "end"
  <2> SUFFICES ASSUME NEW x \in Behind(agenda)
               PROVE  Grounded(x)' /\ x.op \notin First /\ ~Closing(x) /\ x.op # "end"
    OBVIOUS
  <2>1. Grounded(x) /\ x.op \notin First /\ ~Closing(x) /\ x.op # "end"
    BY <1>1, Restful DEF Turn
  <2> QED
    BY <1>3, <1>5, <2>1, StillGrounded
<1>8. /\ Ordered' /\ agenda' \in Seq(Item) /\ Items(agenda') = Behind(agenda)
      /\ agenda' # <<>> => agenda'[1] \in Behind(agenda)
  <2>1. \A x, y \in Behind(agenda) :
            /\ Closing(x) => Closing(y)
            /\ x.op = "end" /\ y.op = "end" => pos'[x.id].org = pos'[y.id].org
    BY <1>7
  <2>2. \A x \in Behind(agenda) : Grounded(x)'
    BY <1>7
  <2> QED
    BY <2>1, <2>2, NoItems, OrderedNext DEF Done
<1>9. Unique' /\ Leaving' = {} /\ ToTitle' = {} /\ Leaving = {} /\ ToTitle = {}
  <2>1. agenda' # <<>> => agenda'[1].op \notin First \cup {"end"}
    BY <1>7, <1>8
  <2> QED
    BY <1>1, <2>1, NotLeaving DEF Unique, Leaving, ToTitle, First
<1>10. Visited'
  <2>1. Items(agenda) = {agenda[1]} \cup Items(agenda') /\ file # Null
    BY <1>8, Standing
  <2>2. \A x \in Items(agenda') : Turn(x) = 2 => Ongoing(office'[mem.at]) \/ \E y \in Items(agenda') : y.op = "reopen"
    BY <1>3, <1>4, <2>1 DEF OfficesInv, Visited
  <2>3. \A o \in mem.kept : office'[o].name \in Names(file)
    BY <1>1, <1>3, <2>1 DEF OfficesInv, Visited, Rows
  <2> QED
    BY <1>3, <2>2, <2>3 DEF Visited
<1>11. Single' /\ Untitled' = Untitled
  BY DEF OfficesInv, Single, Untitled
<1>12. OneOfficeEach'
  <2> SUFFICES ASSUME NEW o \in DOMAIN office, NEW q \in DOMAIN office, o # q
               PROVE  office'[o].name # office'[q].name /\ office'[o].slug # office'[q].slug
    BY <1>3 DEF OneOfficeEach
  <2>1. office[o].name # office[q].name /\ office[o].slug # office[q].slug
    BY DEF OfficesInv, OneOfficeEach
  <2>2. CASE o # mem.at /\ q # mem.at
    BY <1>3, <2>1, <2>2
  <2>3. CASE o = mem.at
    BY <1>3, <2>1, <2>3
  <2>4. CASE q = mem.at
    BY <1>3, <2>1, <2>4
  <2> QED
    BY <2>2, <2>3, <2>4
<1>13. Haunted' \subseteq Haunted
  <2>1. \A o \in DOMAIN office : Ongoing(office[o]) => Ongoing(office'[o])
    BY <1>3, <1>4
  <2> QED
    BY <1>3, <2>1 DEF Haunted, ActiveIn
<1>14. UntitledFew' /\ HauntedFew'
  BY <1>1, <1>9, <1>11, <1>13, UntitledNext, HauntedNext DEF OfficesInv
<1>15. Ending'
  BY <1>1, <1>8, EndingNext
<1> QED
  BY <1>6, <1>8, <1>9, <1>10, <1>11, <1>12, <1>14, <1>15 DEF OfficesInv

LEMMA RenameInv ==
  ASSUME OfficesInv, agenda # <<>>, UNCHANGED <<file, tally, last>>,
         agenda[1].op = "rename", Rename(agenda[1].entry)
  PROVE  OfficesInv'
<1> DEFINE e == agenda[1].entry  r == [office[mem.at] EXCEPT !.name = e.name]
<1>1. /\ e \in Listing /\ e.name \in Names(file) /\ mem.at \in DOMAIN office /\ Rows
  BY Standing, Kinds DEF Grounded, OfficesInv, Turn
<1>2. \A o \in DOMAIN office : office[o].name # e.name
  BY DEF OfficesInv, Unique
<1>3. office' = [office EXCEPT ![mem.at] = r] /\ Done /\ UNCHANGED <<pos, cell, mem>>
  BY DEF Rename
<1> HIDE DEF e
<1>4. office[mem.at] \in Office /\ e.name \in Name
  BY <1>1, Tables DEF Listing
<1>5. /\ r \in Office /\ r.name = e.name /\ r.slug = office[mem.at].slug /\ r.ended = office[mem.at].ended
  BY <1>4 DEF Office
<1> HIDE DEF r
<1> QED
  BY <1>1, <1>2, <1>3, <1>5, ResavedInv

LEMMA ReopenInv ==
  ASSUME OfficesInv, agenda # <<>>, UNCHANGED <<file, tally, last>>,
         agenda[1].op = "reopen", Reopen
  PROVE  OfficesInv'
<1> DEFINE r == [office[mem.at] EXCEPT !.ended = Future]
<1>1. mem.at \in DOMAIN office /\ Rows /\ Turn(agenda[1]) = 1
  BY Standing DEF Grounded, OfficesInv, Turn
<1>2. office[mem.at].name \in Names(file)
  BY <1>1, Standing DEF OfficesInv, Visited
<1>3. office' = [office EXCEPT ![mem.at] = r] /\ Done /\ UNCHANGED <<pos, cell, mem>>
  BY DEF Reopen
<1>4. office[mem.at] \in Office /\ Future \in Approximate
  BY <1>1, Tables DEF Approximate
<1>5. /\ r \in Office /\ r.name = office[mem.at].name /\ r.slug = office[mem.at].slug /\ r.ended = Future
  BY <1>4 DEF Office
<1> HIDE DEF r
<1> QED
  BY <1>1, <1>2, <1>3, <1>5, ResavedInv

(* A visit begins at the office o, with the items s.                       *)
LEMMA VisitInv ==
  ASSUME OfficesInv, agenda # <<>>, UNCHANGED <<file, tally, last, pos, cell>>,
         NEW e \in Listing, e = agenda[1].entry, agenda[1].op = "open",
         NEW o \in DOMAIN office', mem' = [mem EXCEPT !.at = o, !.keep = {}],
         NEW s \in Seq(Item), Becomes(s), s # <<>>, Sorted(s),
         \A x \in Items(s) : x \in Items(Visit(e)) \/ x = Do("reopen") \/ x = Entry("rename", e),
         \A x \in Behind(s) : x.op \notin First,
         s[1].op \notin First \/ (s[1] = Entry("rename", e) /\ \A q \in DOMAIN office' : office'[q].name # e.name),
         office' \in Seq(Office), DOMAIN office \subseteq DOMAIN office',
         \A q \in DOMAIN office : office'[q] = office[q],
         \A q \in DOMAIN office' \ DOMAIN office : Ongoing(office'[q]),
         OneOfficeEach',
         Ongoing(office'[o]) \/ \E x \in Items(s) : x.op = "reopen",
         office'[o].name = e.name \/ s[1].op = "rename"
  PROVE  OfficesInv'
<1>1. /\ Turn(agenda[1]) = 3 /\ Rows /\ ~Closing(agenda[1]) /\ agenda[1].op \notin {"entitle", "endOld"}
      /\ file \in Files
  BY Standing DEF Turn, OfficesInv, Closing
<1>2. /\ e.name \in Names(file) /\ \A n \in DOMAIN e.people : Asked(file, e.people[n])
  BY Standing DEF Grounded
<1>3. s[1].op \notin {"hire", "entitle"}
  BY DEF Entry, First
<1>4. \A x \in Items(Visit(e)) :
        /\ Turn(x) = 2 /\ x.op \notin First \cup {"cell", "end", "endOffice"}
        /\ x.op = "person" => Asked(file, x.person)
  BY <1>2, VisitItems
<1>5. /\ mem'.at = o /\ mem'.kept = mem.kept /\ People' = People /\ o \in Nat
      /\ mem' \in [at : Nat, keep : SUBSET DOMAIN pos, kept : SUBSET DOMAIN office, missed : SUBSET Name]
  <2>1. o \in Nat
    OBVIOUS
  <2> QED
    BY <1>1, <2>1 DEF Rows, People
<1>6. Rows'
  BY <1>1, <1>5 DEF Rows
<1>7. \A x \in Items(s) : /\ Turn(x) \in {1, 2} /\ x.op \notin {"end", "endOld", "endOffice"} /\ Grounded(x)'
  <2> SUFFICES ASSUME NEW x \in Items(s)
               PROVE  Turn(x) \in {1, 2} /\ x.op \notin {"end", "endOld", "endOffice"} /\ Grounded(x)'
    OBVIOUS
  <2>1. CASE x \in Items(Visit(e))
    <3>1. /\ Turn(x) = 2 /\ x.op \notin First \cup {"cell", "end", "endOffice", "endOld", "open"}
          /\ x.op = "person" => Asked(file, x.person)
      BY <1>4, <2>1 DEF Turn
    <3> QED
      BY <1>5, <3>1 DEF Grounded, First
  <2>2. CASE x = Do("reopen")
    <3>1. x.op = "reopen" /\ Turn(x) = 1
      BY <2>2 DEF Do, Turn
    <3> QED
      BY <1>5, <3>1 DEF Grounded
  <2>3. CASE x = Entry("rename", e)
    <3>1. x.op = "rename" /\ Turn(x) = 1 /\ x.entry.name \in Names(file)
      BY <1>2, <2>3 DEF Entry, Turn
    <3> QED
      BY <1>5, <3>1 DEF Grounded
  <2> QED
    BY <2>1, <2>2, <2>3
<1>8. \A x \in Behind(agenda) : /\ Grounded(x)' /\ x.op \notin First /\ ~Closing(x) /\ x.op # "end"
                                /\ Turn(x) \notin {1, 2}
  <2> SUFFICES ASSUME NEW x \in Behind(agenda)
               PROVE  Grounded(x)' /\ x.op \notin First /\ ~Closing(x) /\ x.op # "end" /\ Turn(x) \notin {1, 2}
    OBVIOUS
  <2>1. Grounded(x) /\ x.op \notin First /\ ~Closing(x) /\ Turn(x) >= 3
    BY <1>1, Restful
  <2>2. Turn(x) \notin {1, 2} /\ x.op # "end"
    BY <2>1 DEF Turn
  <2> QED
    BY <1>5, <2>1, <2>2, StillGrounded
<1>9. /\ Ordered' /\ agenda' \in Seq(Item) /\ Items(agenda') = Items(s) \cup Behind(agenda)
      /\ agenda' # <<>> /\ agenda'[1] = s[1]
  <2>1. \A x, y \in Items(s) \cup Behind(agenda) :
            /\ Closing(x) => Closing(y)
            /\ x.op = "end" /\ y.op = "end" => pos'[x.id].org = pos'[y.id].org
    BY <1>7, <1>8 DEF Closing
  <2>2. \A x \in Items(s) : Turn(x) <= Turn(agenda[1]) /\ x.op # "endOld" /\ Grounded(x)'
    BY <1>1, <1>7
  <2>3. \A x \in Behind(agenda) : Grounded(x)'
    BY <1>8
  <2> QED
    BY <1>3, <2>1, <2>2, <2>3, OrderedNext
<1>10. s[1] \in Items(s)
  BY <1>3, FirstItem
<1>11. Leaving' = {} /\ ToTitle' = {} /\ Leaving = {} /\ ToTitle = {}
  BY <1>1, <1>3, <1>7, <1>9, <1>10, NotLeaving DEF Leaving, ToTitle
<1>12. Unique'
  <2>1. CASE s[1].op \notin First
    BY <1>9, <2>1 DEF Unique, First
  <2>2. CASE s[1] = Entry("rename", e) /\ \A q \in DOMAIN office' : office'[q].name # e.name
    <3>1. agenda'[1].op = "rename" /\ agenda'[1].entry.name = e.name
      BY <1>9, <2>2 DEF Entry
    <3> QED
      BY <2>2, <3>1 DEF Unique
  <2> QED
    BY <2>1, <2>2
<1>13. Visited'
  <2>1. Ongoing(office'[o]) \/ \E y \in Items(agenda') : y.op = "reopen"
    BY <1>9
  <2>2. office'[o].name \in Names(file) \/ agenda'[1].op = "rename"
    BY <1>2, <1>9
  <2>3. \A q \in mem.kept : office'[q].name \in Names(file)
    BY <1>1, Standing DEF OfficesInv, Visited, Rows
  <2> QED
    BY <1>5, <2>1, <2>2, <2>3 DEF Visited
<1>14. Single' /\ Untitled' = Untitled
  BY DEF OfficesInv, Single, Untitled
<1>15. Haunted' \subseteq Haunted
  BY DEF Haunted, ActiveIn
<1>16. UntitledFew' /\ HauntedFew'
  BY <1>1, <1>11, <1>14, <1>15, UntitledNext, HauntedNext DEF OfficesInv
<1>17. Ending'
  BY <1>1, <1>9, EndingNext
<1> QED
  BY <1>6, <1>9, <1>12, <1>13, <1>14, <1>16, <1>17 DEF OfficesInv

LEMMA OpenInv ==
  ASSUME OfficesInv, agenda # <<>>, UNCHANGED <<file, tally, last>>,
         agenda[1].op = "open", Open(agenda[1].entry)
  PROVE  OfficesInv'
<1>1. PICK e : e = agenda[1].entry
  OBVIOUS
<1>2. e \in Listing /\ Rows /\ UNCHANGED <<pos, cell>> /\ office \in Seq(Office)
  BY <1>1, Standing, Kinds DEF OfficesInv, Rows, Open
<1>3. OneOfficeEach
  BY DEF OfficesInv
<1>4. \/ \E o \in Found(e) :
            /\ mem' = [mem EXCEPT !.at = o, !.keep = {}]
            /\ Becomes(Optional(office[o].name # e.name, Entry("rename", e))
                       \o Optional(office[o].ended # Future, Do("reopen"))
                       \o Visit(e))
            /\ UNCHANGED office
      \/ /\ Found(e) = {} /\ ~SlugTaken(e.name)
         /\ office' = Append(office, [name |-> e.name, slug |-> e.name, code |-> Null,
                          parties |-> {}, ended |-> Future, contact |-> {}, place |-> Null, spot |-> Null])
         /\ mem' = [mem EXCEPT !.at = Len(office'), !.keep = {}]
         /\ Becomes(Visit(e))
  BY <1>1 DEF Open
<1>5. ASSUME NEW o \in Found(e), mem' = [mem EXCEPT !.at = o, !.keep = {}], UNCHANGED office,
             Becomes(Optional(office[o].name # e.name, Entry("rename", e))
                       \o Optional(office[o].ended # Future, Do("reopen"))
                       \o Visit(e))
      PROVE  OfficesInv'
  <2>1. /\ o \in DOMAIN office
        /\ office[o].name # e.name => \A q \in DOMAIN office : office[q].name # e.name
    BY <1>5 DEF Found
  <2>2. PICK n : /\ n = Optional(office[o].name # e.name, Entry("rename", e))
                 /\ office[o].name # e.name => n = <<Entry("rename", e)>>
                 /\ office[o].name = e.name => n = <<>>
                 /\ n \in {<<>>, <<Entry("rename", e)>>}
    BY DEF Optional
  <2>3. PICK m : /\ m = Optional(office[o].ended # Future, Do("reopen"))
                 /\ office[o].ended # Future => m = <<Do("reopen")>>
                 /\ m \in {<<>>, <<Do("reopen")>>}
    BY DEF Optional
  <2>5. PICK s : s = n \o m \o Visit(e)
    OBVIOUS
  <2>4. Becomes(s)
    BY <1>5, <2>2, <2>3, <2>5
  <2>6. <<Entry("rename", e)>> # <<>> /\ <<Do("reopen")>> # <<>>
    OBVIOUS
  <2>7. /\ s \in Seq(Item) /\ s # <<>> /\ Sorted(s)
        /\ \A x \in Items(s) : x \in Items(Visit(e)) \/ x = Do("reopen") \/ x = Entry("rename", e)
        /\ \A x \in Behind(s) : x.op \notin First
        /\ n # <<>> => s[1] = Entry("rename", e)
        /\ n = <<>> => s[1].op \notin First
        /\ m # <<>> => \E x \in Items(s) : x.op = "reopen"
    <3>1. e \in Listing /\ n \in {<<>>, <<Entry("rename", e)>>} /\ m \in {<<>>, <<Do("reopen")>>}
      BY <1>2, <2>2, <2>3
    <3>2. Opened(e, n, m, s)
      BY <2>5, <3>1, OpenItems, Zenon
    <3> QED
      BY <3>2 DEF Opened
  <2>8. s[1].op \notin First \/ (s[1] = Entry("rename", e) /\ \A q \in DOMAIN office' : office'[q].name # e.name)
    BY <1>5, <2>1, <2>2, <2>7
  <2>9. Ongoing(office'[o]) \/ \E x \in Items(s) : x.op = "reopen"
    BY <1>5, <2>3, <2>6, <2>7 DEF Ongoing
  <2>10. office'[o].name = e.name \/ s[1].op = "rename"
    BY <1>5, <2>2, <2>6, <2>7 DEF Entry
  <2>11. OneOfficeEach'
    BY <1>3, <1>5 DEF OneOfficeEach
  <2> QED
    BY <1>1, <1>2, <1>5, <2>1, <2>4, <2>7, <2>8, <2>9, <2>10, <2>11, VisitInv
<1>6. ASSUME Found(e) = {}, ~SlugTaken(e.name),
             office' = Append(office, [name |-> e.name, slug |-> e.name, code |-> Null,
                          parties |-> {}, ended |-> Future, contact |-> {}, place |-> Null, spot |-> Null]),
             mem' = [mem EXCEPT !.at = Len(office'), !.keep = {}],
             Becomes(Visit(e))
      PROVE  OfficesInv'
  <2> DEFINE r == [name |-> e.name, slug |-> e.name, code |-> Null,
                   parties |-> {}, ended |-> Future, contact |-> {}, place |-> Null, spot |-> Null]
             k == Len(office) + 1  s == Visit(e)
  <2>1. r \in Office
    BY <1>2 DEF Office, Listing, Approximate
  <2>2. r.name = e.name /\ r.slug = e.name /\ Ongoing(r)
    BY DEF Ongoing
  <2>3. office' = Append(office, r)
    BY <1>6
  <2> HIDE DEF r
  <2>4. /\ office' \in Seq(Office) /\ Len(office') = k /\ k \in DOMAIN office'
        /\ DOMAIN office' = DOMAIN office \cup {k} /\ k \notin DOMAIN office
        /\ office'[k] = r /\ \A q \in DOMAIN office : office'[q] = office[q]
    BY <1>2, <2>1, <2>3
  <2>5. mem' = [mem EXCEPT !.at = k, !.keep = {}]
    BY <1>6, <2>4
  <2> HIDE DEF k
  <2>6. \A q \in DOMAIN office : office[q].name # e.name /\ office[q].slug # e.name
    BY <1>6 DEF Found, SlugTaken
  <2>7. OneOfficeEach'
    BY <1>3, <2>2, <2>4, <2>6 DEF OneOfficeEach
  <2>8. /\ s \in Seq(Item) /\ s # <<>> /\ Sorted(s)
        /\ \A x \in Items(s) : x.op \notin First
    BY <1>2, VisitItems
  <2>9. s[1].op \notin First /\ \A x \in Behind(s) : x.op \notin First
    BY <2>8, FirstItem
  <2>10. Becomes(s) /\ \A x \in Items(s) : x \in Items(Visit(e)) \/ x = Do("reopen") \/ x = Entry("rename", e)
    BY <1>6
  <2> HIDE DEF s
  <2>11. /\ DOMAIN office \subseteq DOMAIN office' /\ Ongoing(office'[k]) /\ office'[k].name = e.name
         /\ \A q \in DOMAIN office' \ DOMAIN office : Ongoing(office'[q])
    BY <2>2, <2>4
  <2> QED
    BY <1>1, <1>2, <2>4, <2>5, <2>7, <2>8, <2>9, <2>10, <2>11, VisitInv
<1> QED
  BY <1>4, <1>5, <1>6

-----------------------------------------------------------------------------
(* The beginning and the end of a run.                                     *)

LEMMA Idle ==
  ASSUME agenda = <<>>
  PROVE  /\ agenda \in Seq(Item) /\ Sorted(agenda) /\ Items(agenda) = {} /\ Behind(agenda) = {}
         /\ Unique /\ ToTitle = {} /\ Leaving = {}
BY NoItems DEF Unique, ToTitle, Leaving

LEMMA InitOffices == OfficesInit => OfficesInv
<1> SUFFICES ASSUME OfficesInit PROVE OfficesInv
  OBVIOUS
<1>1. PICK base \in Databases : office = base.office /\ pos = base.pos /\ cell = base.cell
  BY DEF OfficesInit
<1>2. /\ file = Null /\ mem = Nothing /\ agenda = <<>> /\ last = Null
      /\ tally = [runs |-> 0, kills |-> 0]
  BY DEF OfficesInit
<1>3. /\ agenda \in Seq(Item) /\ Sorted(agenda) /\ Items(agenda) = {} /\ Behind(agenda) = {}
      /\ Unique /\ ToTitle = {} /\ Leaving = {}
  BY <1>2, Idle
<1>4. /\ office \in Seq(Office) /\ pos \in Seq(Position)
      /\ People \subseteq Person /\ \A w \in People : cell[w] \subseteq Number
      /\ \A i \in DOMAIN pos :
           /\ pos[i].org \in DOMAIN office /\ pos[i].who \in People
           /\ Active(pos[i], Today) => Ongoing(office[pos[i].org])
           /\ pos[i].title = Null => ~AlwaysTitled(pos[i].who)
      /\ OneOfficeEach
  BY <1>1, DatabasesAssumption DEF People, OneOfficeEach, AlwaysTitled
<1>5. Single
  BY <1>1, DatabasesAssumption DEF Single
<1>6. Rows
  <2>1. mem \in [at : Nat, keep : SUBSET DOMAIN pos, kept : SUBSET DOMAIN office, missed : SUBSET Name]
    BY <1>2 DEF Nothing
  <2>2. tally \in [runs : 0..MaxRuns, kills : 0..MaxKills]
    BY <1>2, OfficeAssumption
  <2> QED
    BY <1>2, <1>4, <2>1, <2>2 DEF Rows
<1>7. Ordered /\ Visited
  BY <1>2, <1>3 DEF Ordered, Visited
<1>8. Untitled = {} /\ Haunted = {}
  BY <1>4 DEF Untitled, Haunted, ActiveIn
<1>9. UntitledFew /\ HauntedFew
  <2>1. Cardinality({}) = 0 /\ Untitled \ ToTitle = {} /\ Haunted \ Leaving = {} /\ tally.kills = 0
    BY <1>2, <1>8, FS_EmptySet
  <2>2. UntitledFew
    BY <2>1 DEF UntitledFew
  <2>3. Cardinality(Haunted \ Leaving) <= tally.kills
    BY <2>1
  <2>4. \A o \in Leaving : FALSE
    BY <1>3
  <2> QED
    BY <2>2, <2>3, <2>4, Zenon DEF HauntedFew
<1>10. Ending
  BY <1>2 DEF Ending
<1> QED
  BY <1>3, <1>4, <1>5, <1>6, <1>7, <1>9, <1>10 DEF OfficesInv

LEMMA StartInv == OfficesInv /\ Start => OfficesInv'
<1> SUFFICES ASSUME OfficesInv, Start PROVE OfficesInv'
  OBVIOUS
<1>1. /\ file = Null /\ UNCHANGED <<office, pos, cell, mem, last>>
      /\ tally.runs < MaxRuns /\ tally' = [tally EXCEPT !.runs = @ + 1]
  BY DEF Start
<1>2. PICK f \in Files : file' = f
  BY DEF Start
<1>3. agenda' = [n \in DOMAIN f.offices |-> Entry("open", f.offices[n])] \o Optional(f.endOld # Null, Do("endOld"))
  BY <1>2 DEF Start
<1>4. /\ agenda' \in Seq(Item) /\ Sorted(agenda')
      /\ \A x \in Items(agenda') : \/ x.op = "endOld"
                                   \/ x.op = "open" /\ \E n \in DOMAIN f.offices : x.entry = f.offices[n]
      /\ f.endOld # Null => \E x \in Items(agenda') : x.op = "endOld"
  BY <1>3, StartItems
<1>5. Rows /\ agenda = <<>> /\ mem = Nothing /\ f # Null
  BY <1>1, CallShape DEF OfficesInv, Ordered
<1>6. tally' \in [runs : 0..MaxRuns, kills : 0..MaxKills] /\ tally'.kills = tally.kills
  <2>1. tally \in [runs : 0..MaxRuns, kills : 0..MaxKills] /\ MaxRuns \in Nat
    BY <1>5, OfficeAssumption DEF Rows
  <2>2. tally.runs + 1 \in 0..MaxRuns
    BY <1>1, <2>1
  <2> QED
    BY <1>1, <2>1, <2>2
<1>7. People' = People
  BY <1>1 DEF People
<1>8. Rows'
  BY <1>1, <1>2, <1>5, <1>6, <1>7 DEF Rows
<1>9. \A x \in Items(agenda') : x.op \notin First \cup {"end"} /\ ~Closing(x) /\ Grounded(x)' /\ Turn(x) \in {3, 4}
  <2> SUFFICES ASSUME NEW x \in Items(agenda')
               PROVE  x.op \notin First \cup {"end"} /\ ~Closing(x) /\ Grounded(x)' /\ Turn(x) \in {3, 4}
    OBVIOUS
  <2>1. CASE x.op = "endOld"
    BY <2>1 DEF First, Closing, Grounded, Turn
  <2>2. CASE x.op = "open" /\ \E n \in DOMAIN f.offices : x.entry = f.offices[n]
    <3>1. PICK n \in DOMAIN f.offices : x.entry = f.offices[n]
      BY <2>2
    <3>2. x.entry.name \in Names(f) /\ \A m \in DOMAIN x.entry.people : Asked(f, x.entry.people[m])
      BY <3>1 DEF Names, Asked
    <3>3. Turn(x) = 3
      BY <2>2 DEF Turn
    <3> QED
      BY <1>2, <2>2, <3>2, <3>3 DEF First, Closing, Grounded
  <2> QED
    BY <1>4, <2>1, <2>2
<1>10. agenda' # <<>> => agenda'[1] \in Items(agenda') /\ Behind(agenda') \subseteq Items(agenda')
  BY <1>4, FirstItem
<1>11. Behind(agenda') \subseteq Items(agenda')
  BY DEF Behind, Items
<1>12. Ordered'
  BY <1>2, <1>4, <1>5, <1>9, <1>11 DEF Ordered
<1>13. Unique' /\ ToTitle' = {} /\ Leaving' = {} /\ ToTitle = {} /\ Leaving = {}
  <2>1. agenda' # <<>> => agenda'[1].op \notin First \cup {"end"}
    BY <1>9, <1>10
  <2> QED
    BY <1>5, <2>1, Idle DEF Unique, ToTitle, Leaving, First
<1>14. Visited'
  <2>1. mem'.kept = {}
    BY <1>1, <1>5 DEF Nothing
  <2> QED
    BY <1>9, <2>1 DEF Visited
<1>15. Single' /\ OneOfficeEach' /\ Untitled' = Untitled /\ Haunted' = Haunted
  BY <1>1 DEF OfficesInv, Single, OneOfficeEach, Untitled, Haunted, ActiveIn
<1>16. UntitledFew' /\ HauntedFew'
  BY <1>6, <1>13, <1>15 DEF OfficesInv, UntitledFew, HauntedFew
<1>17. Ending'
  BY <1>2, <1>4, <1>5 DEF Ending
<1> QED
  BY <1>4, <1>8, <1>12, <1>13, <1>14, <1>15, <1>16, <1>17 DEF OfficesInv

LEMMA FinishInv == OfficesInv /\ Finish => OfficesInv'
<1> SUFFICES ASSUME OfficesInv, Finish PROVE OfficesInv'
  OBVIOUS
<1>1. /\ file # Null /\ agenda = <<>> /\ file' = Null /\ mem' = Nothing
      /\ last'.file = file /\ UNCHANGED <<office, pos, cell, agenda, tally>>
  BY DEF Finish
<1>2. agenda' = <<>> /\ Rows
  BY <1>1 DEF OfficesInv
<1>3. /\ agenda' \in Seq(Item) /\ Sorted(agenda') /\ Items(agenda') = {} /\ Behind(agenda') = {}
      /\ Unique' /\ ToTitle' = {} /\ Leaving' = {}
  BY <1>2, NoItems DEF Unique, ToTitle, Leaving
<1>4. ToTitle = {} /\ Leaving = {} /\ Items(agenda) = {}
  BY <1>1, Idle
<1>5. Rows'
  <2>1. mem' \in [at : Nat, keep : SUBSET DOMAIN pos, kept : SUBSET DOMAIN office, missed : SUBSET Name]
    BY <1>1 DEF Nothing
  <2>2. People' = People
    BY <1>1 DEF People
  <2> QED
    BY <1>1, <1>2, <2>1, <2>2 DEF Rows
<1>6. Ordered' /\ Visited'
  <2>1. Nothing' = Nothing
    BY DEF Nothing
  <2> QED
    BY <1>1, <1>2, <1>3, <2>1 DEF Ordered, Visited
<1>7. Single' /\ OneOfficeEach' /\ Untitled' = Untitled /\ Haunted' = Haunted
  BY <1>1 DEF OfficesInv, Single, OneOfficeEach, Untitled, Haunted, ActiveIn
<1>8. UntitledFew' /\ HauntedFew'
  BY <1>1, <1>3, <1>4, <1>7 DEF OfficesInv, UntitledFew, HauntedFew
<1>9. Ending'
  <2>1. file.endOld # Null => Remaining(file) = {}
    BY <1>1, <1>4 DEF OfficesInv, Ending
  <2>2. last'.file.endOld # Null => Remaining(last.file)' = {}
    BY <1>1, <2>1 DEF Remaining
  <2> QED
    BY <1>1, <2>2 DEF Ending
<1> QED
  BY <1>3, <1>5, <1>6, <1>7, <1>8, <1>9 DEF OfficesInv

(* After a stop, what was in hand may be left as it is.                    *)
LEMMA StopInv ==
  ASSUME OfficesInv, Stop, UNCHANGED <<office, pos, cell>>,
         \/ UNCHANGED tally /\ ToTitle = {} /\ Leaving = {}
         \/ tally.kills < MaxKills /\ tally' = [tally EXCEPT !.kills = @ + 1] /\ file # Null
  PROVE  OfficesInv'
<1>1. /\ file' = Null /\ mem' = Nothing /\ agenda' = <<>> /\ last' = Null /\ Rows
  BY DEF Stop, OfficesInv
<1>2. /\ agenda' \in Seq(Item) /\ Sorted(agenda') /\ Items(agenda') = {} /\ Behind(agenda') = {}
      /\ Unique' /\ ToTitle' = {} /\ Leaving' = {}
  BY <1>1, NoItems DEF Unique, ToTitle, Leaving
<1>3. /\ tally' \in [runs : 0..MaxRuns, kills : 0..MaxKills]
      /\ tally'.kills = tally.kills + 1 \/ (tally'.kills = tally.kills /\ ToTitle = {} /\ Leaving = {})
  <2>1. tally \in [runs : 0..MaxRuns, kills : 0..MaxKills] /\ MaxKills \in Nat
    BY <1>1, OfficeAssumption DEF Rows
  <2>2. CASE tally.kills < MaxKills /\ tally' = [tally EXCEPT !.kills = @ + 1] /\ file # Null
    <3>1. tally.kills + 1 \in 0..MaxKills
      BY <2>1, <2>2
    <3> QED
      BY <2>1, <2>2, <3>1
  <2> QED
    BY <2>1, <2>2
<1>4. Rows'
  <2>1. mem' \in [at : Nat, keep : SUBSET DOMAIN pos, kept : SUBSET DOMAIN office, missed : SUBSET Name]
    BY <1>1 DEF Nothing
  <2>2. People' = People
    BY DEF People
  <2> QED
    BY <1>1, <1>3, <2>1, <2>2 DEF Rows
<1>5. Ordered' /\ Visited'
  <2>1. Nothing' = Nothing
    BY DEF Nothing
  <2> QED
    BY <1>1, <1>2, <2>1 DEF Ordered, Visited
<1>6. Single' /\ OneOfficeEach' /\ Untitled' = Untitled /\ Haunted' = Haunted
  BY DEF OfficesInv, Single, OneOfficeEach, Untitled, Haunted, ActiveIn
<1>7. Cardinality(Untitled \ ToTitle) <= tally.kills /\ Cardinality(Haunted \ Leaving) <= tally.kills
  BY DEF OfficesInv, UntitledFew, HauntedFew
<1>8. IsFiniteSet(Untitled \ ToTitle) /\ IsFiniteSet(Haunted \ Leaving) /\ tally.kills \in Int
  <2>1. Untitled \ ToTitle \subseteq DOMAIN pos /\ Haunted \ Leaving \subseteq DOMAIN office
    BY DEF Untitled, Haunted
  <2> QED
    BY <1>1, <2>1, Tables, FS_Subset
<1>9. Cardinality(Untitled) <= tally'.kills /\ Cardinality(Haunted) <= tally'.kills
  <2>1. CASE tally'.kills = tally.kills /\ ToTitle = {} /\ Leaving = {}
    BY <1>7, <2>1
  <2>2. CASE tally'.kills = tally.kills + 1
    <3>1. \E x : Untitled \subseteq (Untitled \ ToTitle) \cup {x}
      BY DEF ToTitle
    <3>2. \E x : Haunted \subseteq (Haunted \ Leaving) \cup {x}
      BY DEF Leaving
    <3>3. Cardinality(Untitled) <= tally.kills + 1
      <4>1. PICK x : Untitled \subseteq (Untitled \ ToTitle) \cup {x}
        BY <3>1
      <4> QED
        BY <1>7, <1>8, <4>1, OneMore
    <3>4. Cardinality(Haunted) <= tally.kills + 1
      <4>1. PICK x : Haunted \subseteq (Haunted \ Leaving) \cup {x}
        BY <3>2
      <4> QED
        BY <1>7, <1>8, <4>1, OneMore
    <3> QED
      BY <2>2, <3>3, <3>4
  <2> QED
    BY <1>3, <2>1, <2>2
<1>10. UntitledFew' /\ HauntedFew'
  <2>1. (Untitled \ ToTitle)' = Untitled /\ (Haunted \ Leaving)' = Haunted
    BY <1>2, <1>6
  <2> QED
    BY <1>2, <1>9, <2>1 DEF UntitledFew, HauntedFew
<1>11. Ending'
  BY <1>1 DEF Ending
<1> QED
  BY <1>2, <1>4, <1>5, <1>6, <1>10, <1>11 DEF OfficesInv

LEMMA StepInv == OfficesInv /\ Step => OfficesInv'
<1> SUFFICES ASSUME OfficesInv, Step PROVE OfficesInv'
  OBVIOUS
<1>1. agenda # <<>> /\ UNCHANGED <<file, tally, last>>
  BY DEF Step
<1>2. agenda[1] \in Item /\ Head(agenda) = agenda[1]
  BY <1>1, Standing
<1>3. Work(agenda[1])
  BY <1>2 DEF Step
<1>4. ASSUME agenda[1].op = "relate", Relate(agenda[1].entry) PROVE OfficesInv'
  <2>1. PICK e : e = agenda[1].entry
    OBVIOUS
  <2>2. Relate(e)
    BY <1>4, <2>1
  <2> QED
    BY <1>1, <1>4, <2>2, RelateInv
<1>5. ASSUME agenda[1].op = "furnish", Furnish(agenda[1].entry) PROVE OfficesInv'
  <2>1. PICK e \in Listing : e = agenda[1].entry
    BY <1>2, <1>5, Kinds
  <2>2. Furnish(e)
    BY <1>5, <2>1
  <2> QED
    BY <1>1, <1>5, <2>2, FurnishInv
<1>6. ASSUME agenda[1].op = "locate", Locate(agenda[1].entry) PROVE OfficesInv'
  <2>1. PICK e \in Listing : e = agenda[1].entry
    BY <1>2, <1>6, Kinds
  <2>2. Locate(e)
    BY <1>6, <2>1
  <2> QED
    BY <1>1, <1>6, <2>2, LocateInv
<1>7. CASE agenda[1].op = "open" /\ Open(agenda[1].entry)
  BY <1>1, <1>7, OpenInv
<1>8. CASE agenda[1].op = "rename" /\ Rename(agenda[1].entry)
  BY <1>1, <1>8, RenameInv
<1>9. CASE agenda[1].op = "reopen" /\ Reopen
  BY <1>1, <1>9, ReopenInv
<1>10. CASE agenda[1].op = "person" /\ Known(agenda[1].person)
  BY <1>1, <1>10, KnownInv
<1>11. CASE agenda[1].op = "person" /\ Unknown(agenda[1].person)
  BY <1>1, <1>11, UnknownInv
<1>12. CASE agenda[1].op = "hire" /\ Hire(agenda[1].person)
  BY <1>1, <1>12, HireInv
<1>13. CASE agenda[1].op = "entitle" /\ Entitle(agenda[1].id, agenda[1].title)
  BY <1>1, <1>13, EntitleInv
<1>14. CASE agenda[1].op = "cell" /\ Phone(agenda[1].person)
  BY <1>1, <1>14, PhoneInv
<1>15. CASE agenda[1].op = "leavers" /\ Leavers
  BY <1>1, <1>15, LeaversInv
<1>16. CASE agenda[1].op = "end" /\ EndPosition(agenda[1].id, agenda[1].date)
  BY <1>1, <1>16, EndPositionInv
<1>17. CASE agenda[1].op = "endOld" /\ EndOldOffices
  BY <1>1, <1>17, EndOldOfficesInv
<1>18. CASE agenda[1].op = "endOffice" /\ EndOffice(agenda[1].id)
  BY <1>1, <1>18, EndOfficeInv
<1> QED
  BY <1>3, <1>4, <1>5, <1>6, <1>7, <1>8, <1>9, <1>10, <1>11, <1>12, <1>13, <1>14, <1>15, <1>16,
     <1>17, <1>18 DEF Work

LEMMA AbortInv == OfficesInv /\ Abort => OfficesInv'
<1> SUFFICES ASSUME OfficesInv, Abort PROVE OfficesInv'
  OBVIOUS
<1>1. agenda # <<>> /\ Fails(Head(agenda)) /\ Stop /\ UNCHANGED <<office, pos, cell, tally>>
  BY DEF Abort
<1>2. agenda[1].op \in {"open", "relate", "furnish", "locate", "person"}
  BY <1>1, Standing DEF Fails
<1>3. Turn(agenda[1]) # 0
  BY <1>2 DEF Turn
<1>4. ToTitle = {} /\ Leaving = {}
  BY <1>2, <1>3, NotLeaving
<1> QED
  BY <1>1, <1>4, StopInv

LEMMA KillInv == OfficesInv /\ Kill => OfficesInv'
BY StopInv DEF Kill

LEMMA OfficesStep == OfficesInv /\ [OfficesNext]_officesVars => OfficesInv'
<1> SUFFICES ASSUME OfficesInv, [OfficesNext]_officesVars PROVE OfficesInv'
  OBVIOUS
<1>1. CASE Start
  BY <1>1, StartInv
<1>2. CASE Step
  BY <1>2, StepInv
<1>3. CASE Finish
  BY <1>3, FinishInv
<1>4. CASE Abort
  BY <1>4, AbortInv
<1>5. CASE Kill
  BY <1>5, KillInv
<1>6. CASE UNCHANGED officesVars
  <2>1. UNCHANGED <<office, pos, cell, file, mem, agenda, tally, served, last>>
    BY <1>6 DEF officesVars
  <2>2. People' = People /\ Untitled' = Untitled /\ Haunted' = Haunted
    BY <2>1 DEF People, Untitled, Haunted, ActiveIn
  <2>3. Rows' /\ agenda' \in Seq(Item) /\ Single' /\ OneOfficeEach' /\ Unique'
    BY <2>1, <2>2 DEF OfficesInv, Rows, Single, OneOfficeEach, Unique
  <2>4. ToTitle' = ToTitle /\ Leaving' = Leaving
    BY <2>1 DEF ToTitle, Leaving
  <2>5. UntitledFew' /\ HauntedFew'
    BY <2>1, <2>2, <2>4 DEF OfficesInv, UntitledFew, HauntedFew, ActiveIn
  <2>6. \A x : Grounded(x)' = Grounded(x)
    BY <2>1, <2>2 DEF Grounded
  <2>7. Ordered' /\ Visited'
    BY <2>1, <2>6 DEF OfficesInv, Ordered, Visited, Nothing
  <2>8. Ending'
    BY <2>1 DEF OfficesInv, Ending, Remaining
  <2> QED
    BY <2>3, <2>5, <2>7, <2>8 DEF OfficesInv
<1> QED
  BY <1>1, <1>2, <1>3, <1>4, <1>5, <1>6 DEF OfficesNext

LEMMA OfficesInvariance == OfficesSpec => []OfficesInv
BY InitOffices, OfficesStep, PTL DEF OfficesSpec

(* Offices are found by their name, by an identifier or by a search, and   *)
(* renamed; positions are made, given their title by a second save, and    *)
(* ended.  Whatever the files, the calls and the kills, no two offices     *)
(* ever have one name or one slug, nobody holds a title at an office twice *)
(* at a time, and between runs no more positions are without the title     *)
(* that was meant for them than runs were killed.                          *)
THEOREM NothingStaysTwice == OfficesSpec => []NothingTwice
<1>1. OfficesInv => NothingTwice
  <2> SUFFICES ASSUME OfficesInv PROVE NothingTwice
    OBVIOUS
  <2>1. OfficesTypeOK
    BY DEF OfficesInv, Rows, OfficesTypeOK
  <2>2. Single /\ OneOfficeEach /\ UntitledFew
    BY DEF OfficesInv
  <2>3. file = Null => ToTitle = {}
    BY Idle DEF OfficesInv, Ordered
  <2>4. Untitled = {i \in DOMAIN pos : pos[i].title = Null /\ \A f \in Files : Titled(f, pos[i].who)}
    BY DEF Untitled, AlwaysTitled
  <2>5. file = Null => Cardinality(Untitled) <= tally.kills
    <3>1. file = Null => Untitled \ ToTitle = Untitled
      BY <2>3
    <3> QED
      BY <2>2, <3>1 DEF UntitledFew
  <2>6. OnePositionEach
    BY <2>2, <2>4, <2>5 DEF OnePositionEach, Single
  <2> QED
    BY <2>1, <2>2, <2>6 DEF NothingTwice
<1> QED
  BY <1>1, OfficesInvariance, PTL

(* --end-old-offices: after a run that was called with a party, whatever   *)
(* had been killed before it, the offices of the party that go on are in   *)
(* the file or were excluded, and between runs no more ended offices still *)
(* have somebody there than runs were killed.                              *)
THEOREM OldOfficesStayEnded == OfficesSpec => []OldOfficesEnd
<1>1. OfficesInv => OldOfficesEnd
  <2> SUFFICES ASSUME OfficesInv PROVE OldOfficesEnd
    OBVIOUS
  <2>1. Ending /\ HauntedFew
    BY DEF OfficesInv
  <2>2. file = Null => Leaving = {}
    BY Idle DEF OfficesInv, Ordered
  <2>3. file = Null => Cardinality(Haunted) <= tally.kills
    <3>1. file = Null => Haunted \ Leaving = Haunted
      BY <2>2
    <3> QED
      BY <2>1, <3>1 DEF HauntedFew
  <2>4. \A s : {e.name : e \in Range(s)} = {s[n].name : n \in DOMAIN s}
    BY DEF Range
  <2>5. {e.name : e \in Range(last.file.offices)} = Names(last.file)
    BY <2>4 DEF Names
  <2>6. ASSUME file = Null, last # Null, last.file.endOld # Null, NEW o \in DOMAIN office,
               last.file.endOld \in office[o].parties, Ongoing(office[o])
        PROVE  office[o].name \in last.file.exclude \cup {e.name : e \in Range(last.file.offices)}
    <3>1. o \notin Remaining(last.file)
      BY <2>1, <2>6 DEF Ending
    <3> QED
      BY <2>5, <2>6, <3>1 DEF Remaining
  <2>7. Haunted = {o \in DOMAIN office : ~Ongoing(office[o]) /\ ActiveIn(o) # {}}
    BY DEF Haunted
  <2> QED
    BY <2>3, <2>6, <2>7 DEF OldOfficesEnd, Ended
<1> QED
  BY <1>1, OfficesInvariance, PTL
=============================================================================
