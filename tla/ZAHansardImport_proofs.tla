------------------------ MODULE ZAHansardImport_proofs ------------------------
(***************************************************************************)
(* Proofs about ZAHansardImport, for every set of documents, any number of *)
(* failed requests, kills and commands of staff.  Inv is what the steps of *)
(* the two commands have established about the source in hand; Whole and   *)
(* Once add what holds as long as nothing went wrong.                      *)
(***************************************************************************)
EXTENDS ZAHansardImport, FiniteSetTheorems, TLAPS

(* Parsing goes from an attempt over a document to an XML file; loading    *)
(* takes sources that were parsed, and adds a copy before it marks it.     *)
InHand ==
    /\ pc = "idle" => todo = {}
    /\ pc \in {"idle", "parse", "load"} => cur = None
    /\ pc \notin {"idle", "parse", "load"} => cur \in attempted
    /\ pc \in {"convert", "save"} => doc[cur] # "none"
    /\ pc = "save" => xml[cur] # "none"
    /\ pc \in {"load", "mark", "tag"} => todo \subseteq succeeded
    /\ pc \in {"mark", "tag"} => cur \in succeeded /\ untagged[cur] > 0

HasXml == \A d \in succeeded : xml[d] # "none"

Inv == TypeOK /\ InHand /\ HasXml

(* Only a kill tears a document or an XML file.                            *)
Whole ==
    failures = 0 => \A d \in Doc : doc[d] \in {"none", "whole"} /\ xml[d] \in {"none", "whole"}

(* Undisturbed, the loader walks sources that are not imported, and the    *)
(* copies are those of the imported ones and of the source in hand.        *)
Once ==
    errors = 0 /\ failures = 0 /\ commands = 0 =>
        /\ cur \notin todo
        /\ pc \in {"load", "mark"} => cur \notin imported
        /\ pc = "tag" => cur \in imported
        /\ pc \in {"load", "mark", "tag"} => todo \cap imported = {}
        /\ \A d \in Doc :
             /\ tagged[d] = (IF d \in imported /\ ~(pc = "tag" /\ d = cur) THEN 1 ELSE 0)
             /\ untagged[d] = (IF pc \in {"mark", "tag"} /\ d = cur THEN 1 ELSE 0)
-----------------------------------------------------------------------------
LEMMA InitInv == Init => Inv /\ Whole /\ Once
  BY ImportAssumption DEF Init, Inv, TypeOK, InHand, HasXml, Whole, Once

(* Every step keeps the invariant.                                         *)
LEMMA NextInv ==
  ASSUME Inv, Next
  PROVE  Inv'
<1> USE ImportAssumption DEF Inv, TypeOK, InHand, HasXml, rows, cache, sayit, run
<1>1. CASE End("parse") \/ End("load")
  BY <1>1 DEF End
<1>2. CASE FileFromCache
  BY <1>2 DEF FileFromCache, Goto
<1>3. CASE FileFetched
  BY <1>3 DEF FileFetched, Goto
<1>4. CASE WriteXml
  BY <1>4 DEF WriteXml, Goto
<1>5. CASE ParseFails
  BY <1>5 DEF ParseFails, Continue
<1>6. CASE SaveSuccess
  BY <1>6 DEF SaveSuccess, Continue
<1>7. CASE MarkImported
  BY <1>7 DEF MarkImported, Goto
<1>8. CASE TagSpeeches
  BY <1>8 DEF TagSpeeches, Continue
<1>9. CASE \E d \in Doc : Attempt(d)
  BY <1>9 DEF Attempt
<1>10. CASE \E d \in Doc : Import(d)
  BY <1>10 DEF Import
<1>11. CASE FileFails
  BY <1>11 DEF FileFails, Continue, Error
<1>12. CASE \E d \in Doc : ImportFails(d)
  BY <1>12 DEF ImportFails, Error
<1>13. CASE \E d \in Doc : List(d)
  BY <1>13 DEF List
<1>14. CASE DeleteSources
  BY <1>14 DEF DeleteSources, ByStaff
<1>15. CASE StartParsing
  BY <1>15 DEF StartParsing, Start, requires_processing
<1>16. CASE StartLoading
  BY <1>16 DEF StartLoading, Start, unloaded
<1>17. CASE \E redo, retry \in BOOLEAN : StartParsingAgain(redo, retry)
  BY <1>17 DEF StartParsingAgain, Start, ByStaff, requires_completion
<1>18. CASE \E reimport, delete \in BOOLEAN : StartLoadingAgain(reimport, delete)
  BY <1>18 DEF StartLoadingAgain, Start, ByStaff, unloaded
<1>19. CASE Crash
  BY <1>19 DEF Crash, Killed
<1>20. CASE CrashWritingFile
  BY <1>20 DEF CrashWritingFile, Killed
<1>21. CASE CrashWritingXml
  BY <1>21 DEF CrashWritingXml, Killed
<1> QED
  BY <1>1, <1>2, <1>3, <1>4, <1>5, <1>6, <1>7, <1>8, <1>9, <1>10, <1>11, <1>12, <1>13,
     <1>14, <1>15, <1>16, <1>17, <1>18, <1>19, <1>20, <1>21
  DEF Next, RunStep

(* While no process was killed, files are whole: two steps write one, the  *)
(* removal of the sources forgets them all.                                *)
LEMMA NextWhole ==
  ASSUME Inv, Whole, Next
  PROVE  Whole'
<1> USE DEF Whole
<1>1. CASE UNCHANGED <<cache, failures>>
  BY <1>1 DEF cache
<1>2. CASE FileFetched
  BY <1>2 DEF FileFetched, Inv, TypeOK
<1>3. CASE WriteXml
  BY <1>3 DEF WriteXml, Inv, TypeOK, InHand
<1>4. CASE DeleteSources
  BY <1>4 DEF DeleteSources
<1>5. CASE Crash \/ CrashWritingFile \/ CrashWritingXml
  BY <1>5 DEF Crash, CrashWritingFile, CrashWritingXml, Killed, Inv, TypeOK
<1> QED
  BY <1>1, <1>2, <1>3, <1>4, <1>5
  DEF Next, RunStep, End, FileFromCache, ParseFails, SaveSuccess, MarkImported,
      TagSpeeches, Attempt, Import, FileFails, ImportFails, List, StartParsing,
      StartLoading, StartParsingAgain, StartLoadingAgain

(* While nothing went wrong, each source has the copies it should have.    *)
LEMMA NextOnce ==
  ASSUME Inv, Once, Next
  PROVE  Once'
<1> USE ImportAssumption DEF Inv, TypeOK, InHand, HasXml, Once, rows, cache, sayit, run
<1>1. CASE End("parse") \/ End("load")
  BY <1>1 DEF End
<1>2. CASE FileFromCache
  BY <1>2 DEF FileFromCache, Goto
<1>3. CASE FileFetched
  BY <1>3 DEF FileFetched, Goto
<1>4. CASE WriteXml
  BY <1>4 DEF WriteXml, Goto
<1>5. CASE ParseFails
  BY <1>5 DEF ParseFails, Continue
<1>6. CASE SaveSuccess
  BY <1>6 DEF SaveSuccess, Continue
<1>7. CASE MarkImported
  BY <1>7 DEF MarkImported, Goto
<1>8. CASE TagSpeeches
  <2> SUFFICES ASSUME errors = 0, failures = 0, commands = 0
               PROVE  Once'
    BY <1>8 DEF TagSpeeches
  <2>1. cur \in imported /\ cur \in Doc /\ tagged[cur] = 0 /\ untagged[cur] = 1
    BY <1>8 DEF TagSpeeches
  <2>2. tagged' = [tagged EXCEPT ![cur] = 1] /\ untagged' = [untagged EXCEPT ![cur] = 0]
    BY <1>8, <2>1 DEF TagSpeeches
  <2>3. \A d \in Doc : /\ tagged'[d] = (IF d \in imported THEN 1 ELSE 0)
                       /\ untagged'[d] = 0
    BY <1>8, <2>1, <2>2 DEF TagSpeeches
  <2> QED
    BY <1>8, <2>3 DEF TagSpeeches, Continue
<1>9. CASE \E d \in Doc : Attempt(d)
  BY <1>9 DEF Attempt
<1>10. CASE \E d \in Doc : Import(d)
  BY <1>10 DEF Import
<1>11. CASE FileFails
  BY <1>11 DEF FileFails, Continue, Error
<1>12. CASE \E d \in Doc : ImportFails(d)
  BY <1>12 DEF ImportFails, Error
<1>13. CASE \E d \in Doc : List(d)
  BY <1>13 DEF List
<1>14. CASE DeleteSources
  BY <1>14 DEF DeleteSources, ByStaff
<1>15. CASE StartParsing
  BY <1>15 DEF StartParsing, Start, requires_processing
<1>16. CASE StartLoading
  BY <1>16 DEF StartLoading, Start, unloaded
<1>17. CASE \E redo, retry \in BOOLEAN : StartParsingAgain(redo, retry)
  BY <1>17 DEF StartParsingAgain, Start, ByStaff, requires_completion
<1>18. CASE \E reimport, delete \in BOOLEAN : StartLoadingAgain(reimport, delete)
  BY <1>18 DEF StartLoadingAgain, Start, ByStaff, unloaded
<1>19. CASE Crash
  BY <1>19 DEF Crash, Killed
<1>20. CASE CrashWritingFile
  BY <1>20 DEF CrashWritingFile, Killed
<1>21. CASE CrashWritingXml
  BY <1>21 DEF CrashWritingXml, Killed
<1> QED
  BY <1>1, <1>2, <1>3, <1>4, <1>5, <1>6, <1>7, <1>8, <1>9, <1>10, <1>11, <1>12, <1>13,
     <1>14, <1>15, <1>16, <1>17, <1>18, <1>19, <1>20, <1>21
  DEF Next, RunStep

-----------------------------------------------------------------------------
(* The copies without the tag, numbered for each document: a copy more is  *)
(* the next number, a copy less the last one.                              *)
LEMMA CopyAdded ==
  ASSUME TypeOK, IsFiniteSet(Untagged), NEW d \in Doc,
         untagged' = [untagged EXCEPT ![d] = untagged[d] + 1]
  PROVE  /\ IsFiniteSet(Untagged')
         /\ Cardinality(Untagged') = Cardinality(Untagged) + 1
<1>1. untagged \in [Doc -> Nat]
  BY DEF TypeOK
<1>2. Untagged' = Untagged \cup {<<d, untagged[d] + 1>>}
  BY <1>1 DEF Untagged
<1>3. <<d, untagged[d] + 1>> \notin Untagged
  BY <1>1 DEF Untagged
<1> QED
  BY <1>2, <1>3, FS_AddElement

LEMMA CopyRemoved ==
  ASSUME TypeOK, IsFiniteSet(Untagged), NEW d \in Doc, untagged[d] > 0,
         untagged' = [untagged EXCEPT ![d] = untagged[d] - 1]
  PROVE  /\ IsFiniteSet(Untagged')
         /\ Cardinality(Untagged') = Cardinality(Untagged) - 1
<1>1. untagged \in [Doc -> Nat]
  BY DEF TypeOK
<1>2. Untagged' = Untagged \ {<<d, untagged[d]>>}
  BY <1>1 DEF Untagged
<1>3. <<d, untagged[d]>> \in Untagged
  BY <1>1 DEF Untagged
<1> QED
  BY <1>2, <1>3, FS_RemoveElement

(* A copy is without its tag between its import and the tagging; it stays  *)
(* so if an exception or a kill comes between them.                        *)
Few == IsFiniteSet(Untagged) /\ FewUntagged

LEMMA NextFew ==
  ASSUME Inv, Few, Next
  PROVE  Few'
<1>1. /\ errors \in Nat /\ failures \in Nat /\ Cardinality(Untagged) \in Nat
      /\ TypeOK /\ IsFiniteSet(Untagged)
  BY ImportAssumption, FS_CardinalityType DEF Inv, TypeOK, Few
<1>2. CASE \E d \in Doc : Import(d)
  <2>1. PICK d \in Doc : Import(d)
    BY <1>2
  <2>2. /\ untagged' = [untagged EXCEPT ![d] = untagged[d] + 1]
        /\ pc = "load" /\ pc' = "mark" /\ UNCHANGED <<errors, failures>>
    BY <2>1 DEF Import
  <2>3. IsFiniteSet(Untagged') /\ Cardinality(Untagged') = Cardinality(Untagged) + 1
    BY <1>1, <2>2, CopyAdded
  <2> QED
    BY <1>1, <2>2, <2>3 DEF Few, FewUntagged
<1>3. CASE \E d \in Doc : ImportFails(d)
  <2>1. PICK d \in Doc : ImportFails(d)
    BY <1>3
  <2>2. CASE untagged' = untagged
    <3>1. Untagged' = Untagged /\ pc = "load" /\ pc' = "load"
          /\ errors' \in {errors, errors + 1} /\ failures' = failures
      BY <2>1, <2>2 DEF ImportFails, Error, Untagged
    <3> QED
      BY <1>1, <3>1 DEF Few, FewUntagged
  <2>3. CASE untagged' # untagged
    <3>1. /\ untagged' = [untagged EXCEPT ![d] = untagged[d] + 1]
          /\ pc = "load" /\ pc' = "load" /\ errors' = errors + 1 /\ failures' = failures
      BY <2>1, <2>3 DEF ImportFails, Error
    <3>2. IsFiniteSet(Untagged') /\ Cardinality(Untagged') = Cardinality(Untagged) + 1
      BY <1>1, <3>1, CopyAdded
    <3> QED
      BY <1>1, <3>1, <3>2 DEF Few, FewUntagged
  <2> QED
    BY <2>2, <2>3
<1>4. CASE TagSpeeches
  <2>1. /\ untagged' = [untagged EXCEPT ![cur] = untagged[cur] - 1]
        /\ pc = "tag" /\ pc' = "load" /\ UNCHANGED <<errors, failures>>
    BY <1>4 DEF TagSpeeches, Continue
  <2>2. cur \in Doc /\ untagged[cur] > 0
    BY <2>1 DEF Inv, InHand, TypeOK
  <2>3. IsFiniteSet(Untagged') /\ Cardinality(Untagged') = Cardinality(Untagged) - 1
    BY <1>1, <2>1, <2>2, CopyRemoved
  <2> QED
    BY <1>1, <2>1, <2>3 DEF Few, FewUntagged
<1>5. CASE Crash \/ CrashWritingFile \/ CrashWritingXml
  <2>1. Untagged' = Untagged /\ pc' = "idle" /\ failures' = failures + 1 /\ errors' = errors
    BY <1>5 DEF Crash, CrashWritingFile, CrashWritingXml, Killed, sayit, Untagged
  <2> QED
    BY <1>1, <2>1 DEF Few, FewUntagged
<1>6. CASE /\ UNCHANGED <<untagged, failures>> /\ errors' \in {errors, errors + 1}
           /\ pc' \in {"mark", "tag"} => pc \in {"mark", "tag"}
           /\ pc \in {"mark", "tag"} => pc' \in {"mark", "tag"}
  <2>1. Untagged' = Untagged
    BY <1>6 DEF Untagged
  <2> QED
    BY <1>1, <1>6, <2>1 DEF Few, FewUntagged
<1>7. CASE \/ MarkImported \/ FileFromCache \/ FileFetched \/ WriteXml \/ ParseFails \/ SaveSuccess
           \/ End("parse") \/ End("load") \/ FileFails \/ DeleteSources
           \/ \E d \in Doc : Attempt(d) \/ List(d)
  BY <1>6, <1>7
  DEF MarkImported, FileFromCache, FileFetched, WriteXml, ParseFails, SaveSuccess, End, FileFails,
      DeleteSources, Attempt, List, Error, Continue, Goto, sayit, run
<1>8. CASE \/ StartParsing \/ StartLoading
           \/ \E again, option \in BOOLEAN : \/ StartParsingAgain(again, option)
                                             \/ StartLoadingAgain(again, option)
  BY <1>6, <1>8 DEF StartParsing, StartLoading, StartParsingAgain, StartLoadingAgain, Start, sayit
<1> QED
  BY <1>2, <1>3, <1>4, <1>5, <1>7, <1>8 DEF Next, RunStep

-----------------------------------------------------------------------------
(* The parts of the invariant hold in every behaviour.                     *)
LEMMA Invariance == Spec => [](Inv /\ Whole /\ Once)
<1>1. Inv /\ Whole /\ Once /\ [Next]_vars => (Inv /\ Whole /\ Once)'
  <2> SUFFICES ASSUME Inv, Whole, Once, [Next]_vars
               PROVE  Inv' /\ Whole' /\ Once'
    OBVIOUS
  <2>1. CASE Next
    BY <2>1, NextInv, NextWhole, NextOnce
  <2>2. CASE UNCHANGED vars
    BY <2>2 DEF vars, rows, cache, sayit, run, Inv, TypeOK, InHand, HasXml, Whole, Once
  <2> QED
    BY <2>1, <2>2
<1> QED
  BY InitInv, <1>1, PTL DEF Spec

(* The variables keep their types: what is imported was parsed, what was   *)
(* parsed was attempted, and is404 is set for attempted sources only whose *)
(* document is not in the cache.                                           *)
THEOREM TypeCorrect == Spec => []TypeOK
<1>1. Inv => TypeOK
  BY DEF Inv
<1> QED
  BY <1>1, Invariance, PTL

(* The loader finds an XML file for every success, whatever was killed,    *)
(* and the whole one if nothing was.                                       *)
THEOREM SuccessHasXml == Spec => []XmlBehindSuccess
<1>1. Inv /\ Whole => XmlBehindSuccess
  BY DEF Inv, TypeOK, HasXml, Whole, XmlBehindSuccess
<1> QED
  BY <1>1, Invariance, PTL

(* Undisturbed, marks and copies in SayIt agree, however many documents    *)
(* and daily runs there are.                                               *)
THEOREM ImportsOnce == Spec => []ImportedOnce
<1>1. Once => ImportedOnce
  BY DEF Once, ImportedOnce
<1> QED
  BY <1>1, Invariance, PTL

(* Failed imports and kills leave one copy each that --delete-existing     *)
(* does not find, however many documents, daily runs and commands of staff *)
(* there are.                                                              *)
THEOREM FewCopiesStay == Spec => []FewUntagged
<1>1. Init => Few
  <2> SUFFICES ASSUME Init
               PROVE  Few
    OBVIOUS
  <2>1. Untagged = {}
    BY DEF Init, Untagged
  <2> QED
    BY <2>1, FS_EmptySet DEF Init, Few, FewUntagged
<1>2. Inv /\ Few /\ [Next]_vars => Few'
  <2> SUFFICES ASSUME Inv, Few, [Next]_vars
               PROVE  Few'
    OBVIOUS
  <2>1. CASE UNCHANGED vars
    BY <2>1 DEF vars, sayit, run, Few, FewUntagged, Untagged
  <2> QED
    BY <2>1, NextFew
<1>3. Few => FewUntagged
  BY DEF Few
<1> QED
  BY <1>1, <1>2, <1>3, Invariance, PTL DEF Spec
=============================================================================
