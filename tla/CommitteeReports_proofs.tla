----------------------- MODULE CommitteeReports_proofs -----------------------
(***************************************************************************)
(* Proofs about CommitteeReports, for all reports, committees and sections *)
(* and any number of edits, failures, kills and imports by hand; and about *)
(* MessageWizard.                                                          *)
(***************************************************************************)
EXTENDS CommitteeReports, MessageWizard, FiniteSetTheorems, SequenceTheorems, TLAPS

Importing == pc \in {"import", "delete speeches", "add speeches", "mark"}

(* The report in hand, and what is left to walk: stored reports, from the  *)
(* moment the files are written, each once.                                *)
InHand ==
    /\ pc \in {"delete rows", "save rows", "delete speeches", "add speeches", "mark"}
         <=> cur # {}
    /\ pc = "json" \/ Importing => todo \subseteq stored
    /\ cur \cap todo = {} \/ pc \in {"delete rows", "save rows"}
    /\ pc \in {"delete rows", "save rows"} => fresh <= MaxNames
    /\ Importing /\ ~deleting => todo \cap marked = {}
    /\ pc # "idle" /\ (~Importing \/ byHand = 0) => deleting
    /\ pc = "delete speeches" => deleting
    /\ Importing => \A r \in cur : file[r] \notin {NoFile, Torn}

(* Nothing is in a section that was not in a file, or in a file that was   *)
(* not stored.                                                             *)
Origins ==
    /\ \A r \in Report \ stored : file[r] = NoFile
    /\ \A r \in Report : file[r] = NoFile => page[r] = 0

(* Deleted appearances of an old report are about to be replaced by as     *)
(* many as it ever had.                                                    *)
Replaced == pc = "save rows" => \A r \in (cur \cap Old) \ hurt : Before[r] <= fresh

(* Without a mishap a section shows the file of each report that is not    *)
(* still to import, and nothing of one that was never imported; the        *)
(* speeches in hand are those of the file.                                 *)
Whole ==
    ~mishap =>
        /\ \A r \in Report : file[r] # Torn
        /\ pc # "json" => \A r \in Report :
              (Importing /\ r \in todo \cup cur) \/ page[r] \in {0, file[r]}
        /\ \A r \in Report \ marked :
              page[r] = 0 \/ (r \in cur /\ pc \in {"add speeches", "mark"})
        /\ Importing => \A r \in cur : fresh = file[r]
        /\ pc = "mark" => \A r \in cur : page[r] = fresh

(* While nothing is imported by hand, the speeches of the report in hand   *)
(* are added to an empty section.                                          *)
EmptySection ==
    byHand = 0 /\ pc = "add speeches" =>
        \A r \in cur, x \in Report : r # x /\ SectionOf[x] = SectionOf[r] => page[x] = 0

Inv ==
    /\ TypeOK /\ InHand /\ Origins
    /\ OldReportsKept /\ Replaced
    /\ Whole /\ EmptySection /\ OneReportPerSection

-----------------------------------------------------------------------------
LEMMA InitInv == Init => Inv
<1> SUFFICES ASSUME Init
             PROVE  Inv
  OBVIOUS
<1>1. Cardinality({}) <= 1
  BY FS_EmptySet, 0 <= 1
<1>2. TypeOK
  <2>1. Nothing \in [Event -> Answers] /\ 0..MaxNames \subseteq NoFile..MaxNames
    BY ReportAssumption DEF Nothing, Answers, Unlisted, NoFile
  <2>2. NoFile \in NoFile..MaxNames
    BY ReportAssumption DEF NoFile
  <2>3. /\ 0 \in 0..MaxEdits /\ 0 \in 0..MaxErrors /\ 0 \in 0..MaxFailures
        /\ 0 \in 0..MaxByHand
    BY ReportAssumption
  <2> QED
    BY <1>1, <2>1, <2>2, <2>3, ReportAssumption DEF Init, TypeOK
<1>3. InHand /\ Origins /\ Replaced /\ EmptySection
  BY DEF Init, InHand, Origins, Replaced, EmptySection, Importing
<1>4. OldReportsKept /\ Whole /\ OneReportPerSection
  BY ReportAssumption DEF Init, OldReportsKept, Whole, OneReportPerSection, Torn, NoFile
<1> QED
  BY <1>2, <1>3, <1>4 DEF Inv

(* The part of TypeOK that is about the tables and the files.              *)
TablesOK ==
    /\ body \in [Event -> Answers] /\ edits \in 0..MaxEdits
    /\ Old \subseteq stored /\ stored \subseteq Report /\ linked \subseteq Old
    /\ rows \in [Report -> 0..MaxNames] /\ file \in [Report -> NoFile..MaxNames]
    /\ page \in [Report -> Nat] /\ marked \subseteq stored

LEMMA TablesInv ==
  ASSUME Inv, [Next]_vars
  PROVE  TablesOK'
<1>0. TypeOK /\ InHand
  BY DEF Inv
<1>1. TablesOK
  BY <1>0 DEF TypeOK, TablesOK
<1>2. CASE \E e \in Event, names \in Bodies : Publish(e, names)
  <2>1. edits < MaxEdits /\ edits' = edits + 1 => edits' \in 0..MaxEdits
    BY <1>1, ReportAssumption DEF TablesOK
  <2>2. Bodies \subseteq Answers
    BY DEF Bodies, Answers, NoBody, Unlisted
  <2>3. PICK e \in Event, names \in Bodies : Publish(e, names)
    BY <1>2
  <2>4. body' \in [Event -> Answers]
    BY <1>1, <2>2, <2>3 DEF Publish, TablesOK
  <2> QED
    BY <1>1, <2>1, <2>3, <2>4 DEF Publish, TablesOK, reports, sayit
<1>3. CASE \E e \in Event : GetReport(e)
  BY <1>1, <1>3, ReportAssumption DEF GetReport, TablesOK, site, sayit
<1>4. CASE \E r \in Report : DeleteRows(r)
  <2>1. rows' \in [Report -> 0..MaxNames]
    <3>1. 0 \in 0..MaxNames
      BY ReportAssumption
    <3> QED
      BY <1>1, <1>4, <3>1 DEF DeleteRows, TablesOK
  <2> QED
    BY <1>1, <1>4, <2>1 DEF DeleteRows, TablesOK, site, sayit
<1>5. CASE \E r \in Report : SaveRow(r)
  <2>1. PICK r \in Report : SaveRow(r)
    BY <1>5
  <2>2. rows[r] < fresh /\ fresh <= MaxNames /\ rows[r] \in 0..MaxNames /\ fresh \in Nat
    BY <1>0, <2>1 DEF SaveRow, InHand, TypeOK
  <2>3. rows[r] + 1 \in 0..MaxNames
    BY <2>2, ReportAssumption
  <2> QED
    BY <1>1, <2>1, <2>3 DEF SaveRow, TablesOK, site, sayit
<1>6. CASE \E r \in Report : SaveJson(r) \/ CrashWritingFile(r)
  <2>1. Torn \in NoFile..MaxNames /\ 0..MaxNames \subseteq NoFile..MaxNames
    BY ReportAssumption DEF Torn, NoFile
  <2>2. file' \in [Report -> NoFile..MaxNames]
    BY <1>1, <1>6, <2>1 DEF SaveJson, CrashWritingFile, TablesOK
  <2> QED
    BY <1>1, <1>6, <2>2 DEF SaveJson, CrashWritingFile, TablesOK, site, reports, sayit
<1>7. CASE \E r \in Report : DeleteSpeeches(r) \/ AddSpeech(r)
  <2>1. page' \in [Report -> Nat]
    <3>1. ASSUME NEW r \in Report, AddSpeech(r)
          PROVE  page' \in [Report -> Nat]
      <4>1. page[r] + 1 \in Nat
        BY <1>1 DEF TablesOK
      <4> QED
        BY <1>1, <3>1, <4>1 DEF AddSpeech, TablesOK
    <3>2. ASSUME NEW r \in Report, DeleteSpeeches(r)
          PROVE  page' \in [Report -> Nat]
      BY <1>1, <3>2 DEF DeleteSpeeches, TablesOK
    <3> QED
      BY <1>7, <3>1, <3>2
  <2> QED
    BY <1>1, <1>7, <2>1 DEF DeleteSpeeches, AddSpeech, TablesOK, site, reports
<1>8. CASE \E r \in Report : Mark(r)
  <2>1. PICK r \in Report : Mark(r)
    BY <1>8
  <2>2. r \in stored
    BY <1>0, <2>1 DEF Mark, TypeOK
  <2> QED
    BY <1>1, <2>1, <2>2 DEF Mark, TablesOK, site, reports
<1>9. CASE UNCHANGED <<body, edits, stored, linked, rows, file, page, marked>>
  BY <1>1, <1>9 DEF TablesOK
<1> QED
  BY <1>2, <1>3, <1>4, <1>5, <1>6, <1>7, <1>8, <1>9
  DEF Next, RunStep, Scrape, ToSayIt, StartRun, Fetch, FetchFails, CommitteeDone, ScrapeDone,
      KeepRows, RowsSaved, JsonDone, StartByHand, SkipReport, OpenReport, SpeechesAdded,
      ImportFails, ImportDone, Crash, vars, site, reports, sayit

LEMMA TypeInv ==
  ASSUME Inv, [Next]_vars
  PROVE  TypeOK'
<1>0. TypeOK /\ InHand
  BY DEF Inv
<1>1. TablesOK'
  BY TablesInv
<1>2. Cardinality({}) <= 1 /\ \A x : Cardinality({x}) <= 1
  <2>1. Cardinality({}) <= 1
    BY FS_EmptySet, 0 <= 1
  <2>2. ASSUME NEW x
        PROVE  Cardinality({x}) <= 1
    BY FS_Singleton, 1 <= 1
  <2> QED
    BY <2>1, <2>2
<1>3. stored \subseteq stored'
  BY DEF Next, RunStep, Scrape, ToSayIt, StartRun, Fetch, GetReport, FetchFails,
     CommitteeDone, ScrapeDone, KeepRows, DeleteRows, SaveRow, RowsSaved, SaveJson, JsonDone,
     StartByHand, SkipReport, OpenReport, DeleteSpeeches, AddSpeech, SpeechesAdded, Mark,
     ImportFails, ImportDone, Crash, CrashWritingFile, Publish, vars, reports
<1>4. errors' \in 0..MaxErrors /\ failures' \in 0..MaxFailures /\ byHand' \in 0..MaxByHand
  <2>1. errors \in 0..MaxErrors /\ failures \in 0..MaxFailures /\ byHand \in 0..MaxByHand
    BY <1>0 DEF TypeOK
  <2>2. /\ errors' = errors \/ (errors < MaxErrors /\ errors' = errors + 1)
        /\ failures' = failures \/ (failures < MaxFailures /\ failures' = failures + 1)
        /\ byHand' = byHand \/ (byHand < MaxByHand /\ byHand' = byHand + 1)
    BY DEF Next, RunStep, Scrape, ToSayIt, StartRun, Fetch, GetReport, FetchFails,
       CommitteeDone, ScrapeDone, KeepRows, DeleteRows, SaveRow, RowsSaved, SaveJson, JsonDone,
       StartByHand, SkipReport, OpenReport, DeleteSpeeches, AddSpeech, SpeechesAdded, Mark,
       ImportFails, ImportDone, Killed, Crash, CrashWritingFile, Publish, vars, history
  <2> QED
    BY <2>1, <2>2, ReportAssumption
<1>5. hurt' \subseteq stored' /\ mishap' \in BOOLEAN /\ deleting' \in BOOLEAN
  <2>1. hurt \subseteq stored /\ cur \subseteq stored /\ mishap \in BOOLEAN /\ deleting \in BOOLEAN
    BY <1>0 DEF TypeOK
  <2>2. /\ hurt' \subseteq hurt \cup cur
        /\ mishap' \in {mishap, TRUE} /\ deleting' \in {deleting, TRUE, FALSE}
    BY DEF Next, RunStep, Scrape, ToSayIt, StartRun, Fetch, GetReport, FetchFails, Stopped,
       CommitteeDone, ScrapeDone, KeepRows, DeleteRows, SaveRow, RowsSaved, SaveJson, JsonDone,
       StartByHand, SkipReport, OpenReport, DeleteSpeeches, AddSpeech, SpeechesAdded, Mark,
       ImportFails, ImportDone, Killed, Crash, CrashWritingFile, Publish, vars, history, hand
  <2> QED
    BY <1>3, <2>1, <2>2
(* What is in hand.                                                        *)
<1>6. ASSUME UNCHANGED hand
      PROVE  /\ todo' \subseteq Report \cup Committee
             /\ cur' \subseteq stored' /\ Cardinality(cur') <= 1
             /\ seen' \in [Event -> Answers] /\ fresh' \in Nat
  BY <1>0, <1>3, <1>6 DEF hand, TypeOK
<1>7. ASSUME NEW step, NEW rest, Goto(step, rest), rest \subseteq Report \cup Committee
      PROVE  /\ todo' \subseteq Report \cup Committee
             /\ cur' \subseteq stored' /\ Cardinality(cur') <= 1
             /\ seen' \in [Event -> Answers] /\ fresh' \in Nat
  BY <1>2, <1>7, ReportAssumption DEF Goto, Nothing, Answers, Unlisted
<1>8. ASSUME NEW r \in stored', cur' = {r}
      PROVE  cur' \subseteq stored' /\ Cardinality(cur') <= 1
  BY <1>2, <1>8
<1>9. /\ todo' \subseteq Report \cup Committee
      /\ cur' \subseteq stored' /\ Cardinality(cur') <= 1
      /\ seen' \in [Event -> Answers] /\ fresh' \in Nat
  <2>1. todo \subseteq Report \cup Committee /\ stored \subseteq Report /\ {} \subseteq Report
    BY <1>0 DEF TypeOK
  <2>2. CASE UNCHANGED hand
    BY <1>6, <2>2
  <2>3. CASE \E step : \E rest \in {{}, Committee, stored, todo, stored \ marked} : Goto(step, rest)
    BY <1>7, <2>1, <2>3
  <2>4. CASE \E step, r : Goto(step, todo \ {r})
    BY <1>7, <2>1, <2>4
  <2>5. CASE \E c \in Committee : Fetch(c)
    BY <1>0, <1>3, <2>5, ReportAssumption DEF Fetch, TypeOK, Answers, Unlisted
  <2>6. CASE \E e \in Event : GetReport(e)
    <3>1. PICK e \in Event : GetReport(e)
      BY <2>6
    <3>2. seen' \in [Event -> Answers] /\ todo' = todo
      <4>1. Unlisted \in Answers
        BY ReportAssumption DEF Answers, Unlisted
      <4> QED
        BY <1>0, <3>1, <4>1 DEF GetReport, TypeOK
    <3>3. CASE seen[e] = NoBody
      BY <1>0, <1>3, <2>1, <3>1, <3>2, <3>3 DEF GetReport, TypeOK
    <3>4. CASE seen[e] # NoBody
      <4>1. cur' = {e} /\ e \in stored' /\ fresh' = seen[e]
        BY <3>1, <3>4 DEF GetReport
      <4>2. seen[e] \in Nat
        <5>1. seen[e] \in Answers /\ seen[e] # Unlisted /\ seen[e] # NoBody
          BY <1>0, <3>1, <3>4 DEF GetReport, TypeOK
        <5> QED
          BY <5>1, ReportAssumption DEF Answers, Unlisted, NoBody
      <4> QED
        BY <1>8, <2>1, <3>2, <4>1, <4>2
    <3> QED
      BY <3>3, <3>4
  <2>7. CASE \E r \in Report : KeepRows(r) \/ RowsSaved(r)
    <3>1. cur' = {} /\ fresh' = 0 /\ UNCHANGED <<todo, seen>>
      BY <2>7 DEF KeepRows, RowsSaved
    <3> QED
      BY <1>0, <1>2, <3>1 DEF TypeOK
  <2>8. CASE \E r \in Report : OpenReport(r)
    <3>1. PICK r \in Report : OpenReport(r)
      BY <2>8
    <3>2. r \in stored' /\ cur' = {r}
      BY <1>0, <1>3, <3>1 DEF OpenReport, InHand, Importing
    <3>3. file[r] \in Nat /\ page[r] \in Nat
      <4>1. file[r] \in NoFile..MaxNames /\ file[r] # NoFile /\ file[r] # Torn
        BY <1>0, <3>1 DEF OpenReport, TypeOK
      <4>2. file[r] \in Nat
        BY <4>1, ReportAssumption DEF NoFile, Torn
      <4> QED
        BY <1>0, <4>2 DEF TypeOK
    <3>4. fresh' \in Nat /\ seen' = seen /\ todo' \subseteq todo
      <4>1. fresh' \in {file[r], page[r] + file[r]} /\ seen' = seen /\ todo' = todo \ {r}
        BY <3>1 DEF OpenReport
      <4>2. page[r] + file[r] \in Nat
        BY <3>3
      <4> QED
        BY <3>3, <4>1, <4>2
    <3> QED
      BY <1>0, <1>8, <2>1, <3>2, <3>4 DEF TypeOK
  <2> QED
    BY <2>2, <2>3, <2>4, <2>5, <2>6, <2>7, <2>8
    DEF Next, RunStep, Scrape, ToSayIt, StartRun, FetchFails, CommitteeDone, ScrapeDone,
        DeleteRows, SaveRow, SaveJson, JsonDone, StartByHand, SkipReport, DeleteSpeeches,
        AddSpeech, SpeechesAdded, Mark, ImportFails, ImportDone, Stopped, Killed, Crash,
        CrashWritingFile, Publish, vars
<1>10. pc' \in {"idle", "fetch", "report", "delete rows", "save rows",
                "json", "import", "delete speeches", "add speeches", "mark"}
  <2> DEFINE Labels == {"idle", "fetch", "report", "delete rows", "save rows",
                        "json", "import", "delete speeches", "add speeches", "mark"}
  <2>1. pc \in Labels
    BY <1>0 DEF TypeOK
  <2>2. CASE RunStep
    <3>1. Scrape => pc' \in Labels
      BY <2>1 DEF Scrape, Fetch, GetReport, CommitteeDone, ScrapeDone, KeepRows,
         DeleteRows, SaveRow, RowsSaved, StartRun, Goto, Stopped
    <3>2. ToSayIt => pc' \in Labels
      BY <2>1 DEF ToSayIt, SaveJson, JsonDone, SkipReport, OpenReport, DeleteSpeeches, AddSpeech, SpeechesAdded,
         Mark, ImportDone, Goto, Stopped
    <3> QED
      BY <2>2, <3>1, <3>2 DEF RunStep
  <2>3. CASE ~ RunStep
    BY <2>1, <2>3 DEF Next, StartByHand, FetchFails, ImportFails, Publish, Crash, CrashWritingFile, Killed, Stopped, Goto, vars
  <2> QED
    BY <2>2, <2>3
<1> QED
  BY <1>0, <1>1, <1>4, <1>5, <1>9, <1>10 DEF TypeOK, TablesOK

LEMMA HandInv ==
  ASSUME Inv, [Next]_vars
  PROVE  InHand'
<1>0. TypeOK /\ InHand
  BY DEF Inv
<1>1. Importing => pc \notin {"idle", "fetch", "report", "delete rows", "save rows", "json"}
  BY DEF Importing
<1>2. CASE Stopped
  BY <1>2 DEF Goto, Stopped, InHand, Importing
<1>13. CASE StartRun \/ CommitteeDone
  BY <1>0, <1>13 DEF StartRun, CommitteeDone, Goto, InHand, Importing, history
<1>3. CASE ScrapeDone \/ JsonDone
  <2>1. /\ cur' = {} /\ todo' = stored /\ UNCHANGED <<stored, deleting, byHand>>
        /\ \/ pc = "fetch" /\ pc' = "json"
           \/ pc = "json" /\ pc' = "import"
    BY <1>3 DEF ScrapeDone, JsonDone, Goto, reports, history
  <2> QED
    BY <1>0, <2>1 DEF InHand, Importing
<1>4. CASE StartByHand
  <2>1. /\ pc' = "import" /\ todo' = stored \ marked /\ cur' = {} /\ byHand' # 0
        /\ UNCHANGED <<stored, marked>>
    <3>1. byHand + 1 # 0
      <4>1. byHand \in 0..MaxByHand
        BY <1>0 DEF TypeOK
      <4> QED
        BY <4>1, ReportAssumption
    <3> QED
      BY <1>4, <3>1 DEF StartByHand, Goto, reports, sayit
  <2> QED
    BY <2>1 DEF InHand, Importing
<1>5. CASE \E c \in Committee : Fetch(c)
  BY <1>0, <1>5 DEF Fetch, InHand, Importing, history
<1>6. CASE \E e \in Event : GetReport(e)
  <2>1. PICK e \in Event : GetReport(e)
    BY <1>6
  <2>2. seen[e] <= MaxNames
    <3>1. seen[e] \in Answers
      BY <1>0 DEF TypeOK
    <3> QED
      BY <3>1, ReportAssumption DEF Answers, Unlisted
  <2>3. pc = "report" /\ cur = {} /\ pc' \in {"report", "delete rows"}
    BY <1>0, <2>1 DEF GetReport, InHand
  <2>4. /\ pc' = "report" => cur' = {}
        /\ pc' = "delete rows" => cur' # {} /\ fresh' = seen[e]
    BY <2>1, <2>3 DEF GetReport
  <2>5. deleting' = deleting /\ byHand' = byHand
    BY <2>1 DEF GetReport, history
  <2> QED
    BY <1>0, <2>2, <2>3, <2>4, <2>5 DEF InHand, Importing
<1>7. ASSUME NEW r \in Report, KeepRows(r) \/ RowsSaved(r)
      PROVE  InHand'
  BY <1>0, <1>7 DEF KeepRows, RowsSaved, InHand, Importing, history
<1>8. ASSUME NEW r \in Report, DeleteRows(r) \/ SaveRow(r)
      PROVE  InHand'
  BY <1>0, <1>8 DEF DeleteRows, SaveRow, InHand, Importing, hand, history
<1>9. ASSUME NEW r \in Report, SaveJson(r) \/ SkipReport(r)
      PROVE  InHand'
  BY <1>0, <1>9 DEF SaveJson, SkipReport, Goto, InHand, Importing, reports, sayit, history
<1>10. ASSUME NEW r \in Report, OpenReport(r)
       PROVE  InHand'
  BY <1>0, <1>10 DEF OpenReport, InHand, Importing, reports, sayit, history
<1>11. ASSUME NEW r \in Report, DeleteSpeeches(r) \/ AddSpeech(r)
       PROVE  InHand'
  BY <1>0, <1>11 DEF DeleteSpeeches, AddSpeech, InHand, Importing, reports, hand, history
<1>12. ASSUME NEW r \in Report, SpeechesAdded(r)
       PROVE  InHand'
  BY <1>0, <1>12 DEF SpeechesAdded, InHand, Importing, reports, sayit, hand, history
<1>14. ASSUME NEW r \in Report, Mark(r)
       PROVE  InHand'
  BY <1>0, <1>14 DEF Mark, Goto, InHand, Importing, reports, history
<1>15. CASE ImportFails
  BY <1>0, <1>15 DEF ImportFails, Goto, InHand, Importing, reports, sayit, history
<1>16. CASE \/ \E e \in Event, names \in Bodies : Publish(e, names)
            \/ UNCHANGED vars
  <2>1. UNCHANGED <<stored, file, marked, pc, todo, cur, fresh, deleting, byHand>>
    BY <1>16 DEF Publish, vars, reports, sayit, hand, history
  <2> QED
    BY <1>0, <2>1 DEF InHand, Importing
<1> QED
  BY <1>2, <1>3, <1>4, <1>5, <1>6, <1>7, <1>8, <1>9, <1>10, <1>11, <1>12, <1>13, <1>14,
     <1>15, <1>16
  DEF Next, RunStep, Scrape, ToSayIt, FetchFails, ImportDone, Killed, Crash, CrashWritingFile

(* Files come from rows, and speeches from files.                          *)
LEMMA OriginsInv ==
  ASSUME Inv, [Next]_vars
  PROVE  Origins'
<1>0. TypeOK /\ InHand /\ Origins
  BY DEF Inv
<1>1. CASE \E e \in Event : GetReport(e)
  BY <1>0, <1>1 DEF GetReport, Origins, sayit
<1>2. CASE \E r \in Report : SaveJson(r) \/ CrashWritingFile(r)
  <2>1. PICK r \in Report : SaveJson(r) \/ CrashWritingFile(r)
    BY <1>2
  <2>2. r \in stored /\ UNCHANGED <<stored, page>>
    BY <1>0, <2>1 DEF SaveJson, CrashWritingFile, InHand, reports, sayit
  <2>3. rows[r] # NoFile /\ Torn # NoFile
    <3>1. rows[r] \in 0..MaxNames
      BY <1>0 DEF TypeOK
    <3> QED
      BY <3>1, ReportAssumption DEF NoFile, Torn
  <2> QED
    BY <1>0, <2>1, <2>2, <2>3 DEF SaveJson, CrashWritingFile, Origins, TypeOK
<1>3. CASE \E r \in Report : DeleteSpeeches(r) \/ AddSpeech(r)
  BY <1>0, <1>3 DEF DeleteSpeeches, AddSpeech, Origins, InHand, TypeOK, Importing, reports
<1>4. CASE UNCHANGED <<stored, file, page>>
  BY <1>0, <1>4 DEF Origins
<1> QED
  BY <1>1, <1>2, <1>3, <1>4
  DEF Next, RunStep, Scrape, ToSayIt, StartRun, Fetch, FetchFails, CommitteeDone, ScrapeDone,
      KeepRows, DeleteRows, SaveRow, RowsSaved, JsonDone, StartByHand, SkipReport, OpenReport,
      SpeechesAdded, Mark, ImportFails, ImportDone, Crash, Publish, vars, reports, sayit

(* The appearances of an old report go down only to come back.             *)
LEMMA KeptInv ==
  ASSUME Inv, [Next]_vars
  PROVE  OldReportsKept' /\ Replaced'
<1>0. TypeOK /\ InHand /\ OldReportsKept /\ Replaced
  BY DEF Inv
<1>1. rows \in [Report -> Nat] /\ Old \subseteq Report /\ Before \in [Report -> Nat] /\ fresh \in Nat
  <2>1. /\ rows \in [Report -> 0..MaxNames] /\ Before \in [Report -> 0..MaxNames]
        /\ fresh \in Nat /\ Old \subseteq Report
    BY <1>0, ReportAssumption DEF TypeOK
  <2>2. 0..MaxNames \subseteq Nat
    BY ReportAssumption
  <2> QED
    BY <2>1, <2>2
<1>2. CASE \E r \in Report : DeleteRows(r)
  <2>1. PICK r \in Report : DeleteRows(r)
    BY <1>2
  <2>2. /\ pc = "delete rows" /\ pc' = "save rows" /\ cur = {r} /\ cur' = {r}
        /\ rows' = [rows EXCEPT ![r] = 0]
        /\ hurt' = hurt /\ fresh' = fresh
        /\ r \in Old => ~(rows[r] > fresh)
    BY <2>1 DEF DeleteRows, Worse, hand, history
  <2>3. \A x \in Old \ hurt : ~(rows[x] < Before[x])
    BY <1>0, <2>2 DEF OldReportsKept, Saving
  <2>4. OldReportsKept'
    BY <1>1, <2>2, <2>3 DEF OldReportsKept, Saving
  <2>5. r \in Old \ hurt => Before[r] <= fresh
    <3>1. rows[r] \in Nat /\ Before[r] \in Nat /\ fresh \in Nat
      BY <1>1
    <3>2. r \in Old \ hurt => ~(rows[r] > fresh) /\ ~(rows[r] < Before[r])
      BY <2>2, <2>3
    <3> QED
      BY <3>1, <3>2
  <2>6. Replaced'
    BY <2>2, <2>5 DEF Replaced
  <2> QED
    BY <2>4, <2>6
<1>3. CASE \E r \in Report : SaveRow(r)
  <2>1. PICK r \in Report : SaveRow(r)
    BY <1>3
  <2>2. /\ rows' = [rows EXCEPT ![r] = rows[r] + 1] /\ cur = {r} /\ pc = "save rows"
        /\ UNCHANGED <<pc, cur, fresh, hurt>>
    BY <2>1 DEF SaveRow, hand, history
  <2> QED
    BY <1>0, <1>1, <2>2 DEF OldReportsKept, Saving, Replaced
<1>4. CASE \E r \in Report : RowsSaved(r)
  <2>1. PICK r \in Report : RowsSaved(r)
    BY <1>4
  <2>2. /\ pc = "save rows" /\ pc' = "report" /\ cur = {r} /\ rows[r] >= fresh
        /\ UNCHANGED <<rows, hurt>>
    BY <2>1 DEF RowsSaved, reports, history
  <2>3. r \in Old \ hurt => ~(rows[r] < Before[r])
    <3>1. r \in Old \ hurt => Before[r] <= fresh
      BY <1>0, <2>2 DEF Replaced
    <3>2. rows[r] \in Nat /\ Before[r] \in Nat /\ fresh \in Nat /\ rows[r] >= fresh
      BY <1>1, <2>2
    <3> QED
      BY <3>1, <3>2
  <2> QED
    BY <1>0, <2>2, <2>3 DEF OldReportsKept, Saving, Replaced
<1>5. CASE Crash
  <2>1. /\ pc' = "idle" /\ rows' = rows
        /\ hurt' = IF pc = "save rows" THEN hurt \cup cur ELSE hurt
    BY <1>5 DEF Crash, Killed, Stopped, Goto, reports
  <2> QED
    BY <1>0, <2>1 DEF OldReportsKept, Saving, Replaced
<1>6. CASE pc # "save rows" /\ pc' # "save rows" /\ UNCHANGED <<rows, hurt>>
  BY <1>0, <1>6 DEF OldReportsKept, Saving, Replaced
<1>7. CASE UNCHANGED <<pc, cur, fresh, rows, hurt>>
  BY <1>0, <1>7 DEF OldReportsKept, Saving, Replaced
<1> QED
  BY <1>2, <1>3, <1>4, <1>5, <1>6, <1>7
  DEF Next, RunStep, Scrape, ToSayIt, StartRun, Fetch, GetReport, FetchFails, CommitteeDone,
      ScrapeDone, KeepRows, SaveJson, JsonDone, StartByHand, SkipReport, OpenReport,
      DeleteSpeeches, AddSpeech, SpeechesAdded, Mark, ImportFails, ImportDone, Goto, Stopped,
      Killed, CrashWritingFile, Publish, vars, reports, hand, history

(* Reports of one section take turns in it.                                *)
LEMMA SectionInv ==
  ASSUME Inv, [Next]_vars
  PROVE  EmptySection' /\ OneReportPerSection'
<1>0. TypeOK /\ InHand /\ EmptySection /\ OneReportPerSection
  BY DEF Inv
<1>1. page \in [Report -> Nat]
  BY <1>0 DEF TypeOK
<1>2. CASE \E r \in Report : DeleteSpeeches(r)
  <2>1. PICK r \in Report : DeleteSpeeches(r)
    BY <1>2
  <2>2. /\ cur' = {r} /\ byHand' = byHand
        /\ \A x \in Report : page'[x] = IF SectionOf[x] = SectionOf[r] THEN 0 ELSE page[x]
    BY <1>1, <2>1 DEF DeleteSpeeches, hand, history
  <2> QED
    BY <1>0, <1>1, <2>2 DEF EmptySection, OneReportPerSection
<1>3. CASE \E r \in Report : AddSpeech(r)
  <2>1. PICK r \in Report : AddSpeech(r)
    BY <1>3
  <2>2. /\ pc = "add speeches" /\ cur = {r} /\ page' = [page EXCEPT ![r] = page[r] + 1]
        /\ UNCHANGED <<pc, cur, byHand>>
    BY <2>1 DEF AddSpeech, hand, history
  <2>3. byHand = 0 => \A x \in Report : r # x /\ SectionOf[x] = SectionOf[r] => page[x] = 0
    BY <1>0, <2>2 DEF EmptySection
  <2>4. \A x \in Report : x # r => page'[x] = page[x]
    BY <1>1, <2>2
  <2>5. EmptySection'
    BY <1>0, <2>2, <2>3, <2>4 DEF EmptySection
  <2>6. OneReportPerSection'
    BY <1>0, <2>2, <2>3, <2>4 DEF OneReportPerSection
  <2> QED
    BY <2>5, <2>6
<1>4. CASE \E r \in Report : OpenReport(r)
  <2>1. deleting \/ byHand # 0
    BY <1>0, <1>4 DEF OpenReport, InHand
  <2>2. PICK r \in Report : OpenReport(r)
    BY <1>4
  <2> QED
    BY <1>0, <2>1, <2>2 DEF OpenReport, EmptySection, OneReportPerSection, sayit, history
<1>5. CASE StartByHand
  <2>1. pc' = "import" /\ page' = page /\ byHand' # 0
    <3>1. byHand \in 0..MaxByHand
      BY <1>0 DEF TypeOK
    <3>2. byHand + 1 # 0
      BY <3>1, ReportAssumption
    <3> QED
      BY <1>5, <3>2 DEF StartByHand, Goto, sayit
  <2> QED
    BY <2>1 DEF EmptySection, OneReportPerSection
<1>6. CASE page' = page /\ byHand' = byHand /\ (pc' # "add speeches" \/ UNCHANGED <<pc, cur>>)
  BY <1>0, <1>6 DEF EmptySection, OneReportPerSection
<1> QED
  BY <1>2, <1>3, <1>4, <1>5, <1>6
  DEF Next, RunStep, Scrape, ToSayIt, StartRun, Fetch, GetReport, FetchFails, CommitteeDone,
      ScrapeDone, KeepRows, DeleteRows, SaveRow, RowsSaved, SaveJson, JsonDone, SkipReport,
      SpeechesAdded, Mark, ImportFails, ImportDone, Goto, Stopped, Killed, Crash,
      CrashWritingFile, Publish, vars, sayit, hand, history

(* Without a mishap every import that is begun is brought to its end.      *)
LEMMA WholeInv ==
  ASSUME Inv, [Next]_vars
  PROVE  Whole'
<1>0. TypeOK /\ InHand /\ Origins /\ Whole
  BY DEF Inv
<1>1. mishap \in BOOLEAN /\ page \in [Report -> Nat] /\ stored \subseteq Report
  BY <1>0 DEF TypeOK
<1>2. CASE ImportFails \/ Killed
  BY <1>2 DEF ImportFails, Killed, Whole
<1>3. CASE StartRun \/ CommitteeDone \/ ScrapeDone \/ FetchFails
  <2>1. /\ ~Importing /\ pc # "json" /\ ~Importing' /\ cur' = {}
        /\ UNCHANGED <<mishap, file, page, marked>>
    BY <1>3 DEF StartRun, CommitteeDone, ScrapeDone, FetchFails, Goto, Stopped, Importing,
       sayit, history
  <2> QED
    BY <1>0, <2>1 DEF Whole, Importing
<1>4. CASE \E c \in Committee : Fetch(c)
  BY <1>0, <1>4 DEF Fetch, Whole, Importing, sayit, history
<1>5. CASE \E e \in Event : GetReport(e)
  <2>1. /\ pc = "report" /\ pc' \in {"report", "delete rows"}
        /\ UNCHANGED <<mishap, file, page, marked>>
    BY <1>5 DEF GetReport, sayit, history
  <2> QED
    BY <1>0, <2>1 DEF Whole, Importing
<1>6. CASE \E r \in Report : KeepRows(r) \/ DeleteRows(r) \/ SaveRow(r) \/ RowsSaved(r)
  <2>1. /\ pc \in {"delete rows", "save rows"} /\ pc' \in {"report", "save rows"}
        /\ UNCHANGED <<mishap, file, page, marked>>
    BY <1>6 DEF KeepRows, DeleteRows, SaveRow, RowsSaved, sayit, history
  <2> QED
    BY <1>0, <2>1 DEF Whole, Importing
<1>7. CASE \E r \in Report : SaveJson(r)
  <2>1. PICK r \in Report : SaveJson(r)
    BY <1>7
  <2>2. rows[r] # Torn
    <3>1. rows[r] \in 0..MaxNames
      BY <1>0 DEF TypeOK
    <3> QED
      BY <3>1, ReportAssumption DEF Torn
  <2>3. /\ pc = "json" /\ pc' = "json" /\ UNCHANGED <<mishap, page, marked>>
        /\ file' = [file EXCEPT ![r] = rows[r]]
    BY <2>1 DEF SaveJson, Goto, sayit, history
  <2> QED
    BY <1>0, <2>2, <2>3 DEF Whole, Importing, TypeOK
<1>8. CASE JsonDone
  <2>1. /\ pc = "json" /\ pc' = "import" /\ todo' = stored /\ cur' = {}
        /\ UNCHANGED <<mishap, file, page, marked>>
    BY <1>8 DEF JsonDone, Goto, sayit, history
  <2>2. \A r \in Report \ stored : page[r] = 0
    BY <1>0 DEF Origins
  <2> QED
    BY <1>0, <2>1, <2>2 DEF Whole, Importing
<1>9. CASE StartByHand
  <2>1. /\ pc = "idle" /\ pc' = "import" /\ cur' = {}
        /\ UNCHANGED <<mishap, file, page, marked>>
    BY <1>9 DEF StartByHand, Goto, sayit
  <2> QED
    BY <1>0, <2>1 DEF Whole, Importing
<1>10. CASE \E r \in Report : SkipReport(r)
  <2>1. PICK r \in Report : SkipReport(r)
    BY <1>10
  <2>2. /\ pc = "import" /\ pc' = "import" /\ cur' = {} /\ todo' = todo \ {r}
        /\ file[r] \in {NoFile, Torn}
        /\ UNCHANGED <<mishap, file, page, marked>>
    BY <2>1 DEF SkipReport, Goto, sayit, history
  <2>3. cur = {}
    BY <1>0, <2>2 DEF InHand
  <2>4. ~mishap => page[r] = 0
    BY <1>0, <2>2 DEF Whole, Origins
  <2> QED
    BY <1>0, <2>2, <2>3, <2>4 DEF Whole, Importing
<1>11. CASE \E r \in Report : OpenReport(r)
  <2>1. PICK r \in Report : OpenReport(r)
    BY <1>11
  <2>2. /\ pc = "import" /\ r \in todo /\ cur' = {r} /\ todo' = todo \ {r}
        /\ pc' \in {"delete speeches", "add speeches"}
        /\ fresh' = IF deleting THEN file[r] ELSE page[r] + file[r]
        /\ UNCHANGED <<mishap, file, page, marked, deleting>>
    BY <2>1 DEF OpenReport, sayit, history
  <2>3. cur = {}
    BY <1>0, <2>2 DEF InHand
  <2>4. ~mishap => fresh' = file[r]
    <3>1. file[r] \in Int
      <4>1. file[r] \in NoFile..MaxNames
        BY <1>0 DEF TypeOK
      <4> QED
        BY <4>1, ReportAssumption DEF NoFile
    <3>2. ~mishap /\ ~deleting => page[r] = 0
      BY <1>0, <2>2, <2>3 DEF Whole, InHand, Importing
    <3>3. ~mishap /\ ~deleting => fresh' = file[r]
      <4>1. 0 + file[r] = file[r]
        BY <3>1
      <4> QED
        BY <2>2, <3>2, <4>1
    <3> QED
      BY <2>2, <3>3
  <2>5. \A x \in Report : x \in todo' \cup cur' <=> x \in todo \cup cur
    BY <2>2, <2>3
  <2> QED
    BY <1>0, <2>2, <2>3, <2>4, <2>5 DEF Whole, Importing
<1>12. CASE \E r \in Report : DeleteSpeeches(r)
  <2>1. PICK r \in Report : DeleteSpeeches(r)
    BY <1>12
  <2>2. /\ pc = "delete speeches" /\ pc' = "add speeches" /\ cur = {r}
        /\ \A x \in Report : page'[x] \in {0, page[x]}
        /\ UNCHANGED <<mishap, file, marked, todo, cur, fresh>>
    BY <2>1 DEF DeleteSpeeches, hand, history
  <2> QED
    BY <1>0, <2>2 DEF Whole, Importing
<1>13. CASE \E r \in Report : AddSpeech(r)
  <2>1. PICK r \in Report : AddSpeech(r)
    BY <1>13
  <2>2. /\ pc = "add speeches" /\ cur = {r}
        /\ \A x \in Report \ {r} : page'[x] = page[x]
        /\ UNCHANGED <<mishap, file, marked, pc, todo, cur, fresh>>
    BY <1>1, <2>1 DEF AddSpeech, hand, history
  <2> QED
    BY <1>0, <2>2 DEF Whole, Importing
<1>14. CASE \E r \in Report : SpeechesAdded(r)
  <2>1. PICK r \in Report : SpeechesAdded(r)
    BY <1>14
  <2>2. /\ pc = "add speeches" /\ pc' = "mark" /\ cur = {r} /\ page[r] = fresh
        /\ UNCHANGED <<mishap, file, page, marked, todo, cur, fresh>>
    BY <2>1 DEF SpeechesAdded, sayit, hand, history
  <2> QED
    BY <1>0, <2>2 DEF Whole, Importing
<1>15. CASE \E r \in Report : Mark(r)
  <2>1. PICK r \in Report : Mark(r)
    BY <1>15
  <2>2. /\ pc = "mark" /\ pc' = "import" /\ cur = {r} /\ cur' = {} /\ todo' = todo
        /\ marked' = marked \cup {r}
        /\ UNCHANGED <<mishap, file, page>>
    BY <2>1 DEF Mark, Goto, history
  <2> QED
    BY <1>0, <2>2 DEF Whole, Importing
<1>16. CASE ImportDone
  <2>1. /\ pc = "import" /\ pc' = "idle" /\ todo = {} /\ cur' = {}
        /\ UNCHANGED <<mishap, file, page, marked>>
    BY <1>16 DEF ImportDone, Stopped, Goto, sayit, history
  <2>2. cur = {}
    BY <1>0, <2>1 DEF InHand
  <2> QED
    BY <1>0, <2>1, <2>2 DEF Whole, Importing
<1>17. CASE \/ \E e \in Event, names \in Bodies : Publish(e, names)
            \/ UNCHANGED vars
  <2>1. UNCHANGED <<mishap, file, page, marked, pc, todo, cur, fresh>>
    BY <1>17 DEF Publish, vars, sayit, hand, history
  <2> QED
    BY <1>0, <2>1 DEF Whole, Importing
<1> QED
  BY <1>2, <1>3, <1>4, <1>5, <1>6, <1>7, <1>8, <1>9, <1>10, <1>11, <1>12, <1>13, <1>14,
     <1>15, <1>16, <1>17
  DEF Next, RunStep, Scrape, ToSayIt, Crash, CrashWritingFile

LEMMA Invariance == Spec => []Inv
<1>1. Inv /\ [Next]_vars => Inv'
  BY TypeInv, HandInv, OriginsInv, KeptInv, WholeInv, SectionInv DEF Inv
<1> QED
  BY <1>1, InitInv, PTL DEF Spec

-----------------------------------------------------------------------------
(* Every variable stays in its set; in particular a run holds one stored   *)
(* report at most.                                                         *)
THEOREM TypeCorrect == Spec => []TypeOK
<1>1. Inv => TypeOK
  BY DEF Inv
<1> QED
  BY <1>1, Invariance, PTL

(* No run leaves a report of the old scraper with fewer appearances than   *)
(* it had, whatever the minutes on the site become: only a kill among its  *)
(* appearances does.                                                       *)
THEOREM OldKept == Spec => []OldReportsKept
<1>1. Inv => OldReportsKept
  BY DEF Inv
<1> QED
  BY <1>1, Invariance, PTL

(* A section shows all speeches of a report's file or none of them once    *)
(* its import is over, and those of one report only, as long as no import  *)
(* fails and none is made by hand.                                         *)
THEOREM SectionsRight == Spec => []PagesRight
<1>1. Inv => PagesRight
  <2> SUFFICES ASSUME Inv
               PROVE  PagesRight
    OBVIOUS
  <2>1. PageWhole
    <3> SUFFICES ASSUME ~mishap, NEW r \in Report,
                        pc = "idle" \/ (pc = "import" /\ r \notin todo)
                 PROVE  page[r] \in {0, file[r]}
      BY DEF PageWhole
    <3>1. cur = {}
      BY DEF Inv, InHand
    <3> QED
      BY <3>1 DEF Inv, Whole, Importing
  <2> QED
    BY <2>1 DEF Inv, PagesRight
<1> QED
  BY <1>1, Invariance, PTL

-----------------------------------------------------------------------------
(* MessageWizard, for any number of tabs, ids, drafts and overlaps.        *)

Messages  == [kind : Kind, to : SUBSET Id, chosenAs : Kind \cup {None}, draft : 0..MaxDrafts,
              offered : SUBSET Id]
Counts    == [requests : Nat, drafts : Nat, captchas : Nat, overlaps : Nat, drops : Nat, leaving : Nat]

WizardTypes ==
    /\ session \in Sessions /\ sent \in Seq(Messages) /\ count \in Counts
    /\ requests \in [Tab -> Requests \cup {None}]
    /\ \A t \in Tab : requests[t] # None /\ requests[t].answer # None =>
         requests[t].act.do = "get" /\ requests[t].act.step = "done"
    /\ eligible \in [Kind -> SUBSET Id]

(* The choice in a session was made in a wizard.                           *)
KnownAs(s) == s.chosen = <<>> <=> s.chosenAs = None
ChoicesKnown == KnownAs(session) /\ \A t \in Tab : requests[t] # None => KnownAs(requests[t].data)

(* Whoever is on offer was so when a request began, and what was found     *)
(* valid goes to those only, with a draft and a captcha.                   *)
ValidFor(r) == /\ Chosen(r.kind, r.data) \subseteq r.offered
               /\ r.data.draft # 0 /\ r.data.captcha
ChecksMade == \A t \in Tab : requests[t] # None =>
                 /\ eligible[requests[t].kind] \subseteq requests[t].offered
                 /\ requests[t].checked => ValidFor(requests[t])
OnOffer == ChecksMade /\ NoStranger

(* What a message uses up: draft d or, for 0, a captcha.                   *)
Holds(s, d)  == IF d = 0 THEN s.captcha ELSE s.draft = d
Brings(a, d) == a.do = "post" /\ IF d = 0 THEN a.step = "preview" /\ a.solved
                                          ELSE a.step = "draft" /\ a.draft = d
Uses(m, d)   == d = 0 \/ m.draft = d
Users(msgs, d) == Cardinality({n \in DOMAIN msgs : Uses(msgs[n], d)})
Used(d)      == Users(sent, d)
Given(d)     == IF d = 0 THEN count.captchas ELSE IF d <= count.drafts THEN 1 ELSE 0

Excess       == count.overlaps + count.drops
Allowed(d)   == Given(d) + Excess

(* A request that has not been answered can still send it, or leave it in  *)
(* the session; the session itself counts when no request would replace it. *)
CanUse(r, d) == r # None /\ r.answer = None /\ (Holds(r.data, d) \/ Brings(r.act, d))
Holding(d)   == {t \in Tab : CanUse(requests[t], d)}
Holders(d)   == Cardinality(Holding(d))
Kept(d)      == IF ~ Overlap /\ Holds(session, d) THEN 1 ELSE 0

Budget ==
    \A d \in 0..MaxDrafts : Used(d) + Holders(d) + Kept(d) <= Allowed(d)

WizardInv == WizardTypes /\ ChoicesKnown /\ OnOffer /\ Budget

-----------------------------------------------------------------------------
(* What the forms leave in the session.                                    *)
LEMMA NoNone ==
  ASSUME WizardAssumption
  PROVE  /\ None \notin Requests
         /\ None # "ok" /\ None # "error" /\ None # "recipients" /\ None # "draft" /\ None # "preview"
         /\ None \notin Kind
BY DEF WizardAssumption, Step

LEMMA ResultLeft ==
  ASSUME WizardAssumption, NEW r \in Requests, KnownAs(r.data),
         r.answer # None => r.act.do = "get" /\ r.act.step = "done"
  PROVE  /\ Result(r) \in Sessions /\ KnownAs(Result(r))
         /\ \A d \in 0..MaxDrafts : Holds(Result(r), d) =>
               r.answer = None /\ (Holds(r.data, d) \/ Brings(r.act, d))
<1> DEFINE s == r.data
           a == r.act
<1>1. s \in Sessions /\ a \in Acts /\ r.kind \in Kind
  BY DEF Requests
<1>2. Fresh \in Sessions /\ KnownAs(Fresh) /\ \A d \in 0..MaxDrafts : ~ Holds(Fresh, d)
  BY DEF Fresh, Sessions, KnownAs, Holds, WizardAssumption
<1>3. CASE a.do = "get" /\ a.step = "done"
  <2>1. CASE r.answer # None
    <3>1. Result(r) = Fresh
      BY <1>3, <2>1 DEF Result, After, Reset
    <3> QED
      BY <1>2, <3>1
  <2>2. CASE r.answer = None
    <3>1. FailedStep(r.kind, s) \in Step \cup {None}
      BY DEF FailedStep, Step
    <3>2. Result(r) = [s EXCEPT !.step = FailedStep(r.kind, s)]
      BY <1>3, <2>2 DEF Result
    <3> HIDE DEF s
    <3>3. Result(r) \in Sessions /\ KnownAs(Result(r)) /\ \A d : Holds(Result(r), d) => Holds(s, d)
      BY <1>1, <3>1, <3>2 DEF Sessions, KnownAs, Holds, s
    <3> QED
      BY <2>2, <3>3 DEF s
  <2> QED
    BY <2>1, <2>2
<1>4. CASE a.do = "get" /\ a.step # "done"
  <2>1. r.answer = None /\ Result(r) = Showing(r.kind, a.step, s) /\ a.step \in Step
    BY <1>1, <1>4 DEF Result, Acts
  <2>2. Result(r) = [Fresh EXCEPT !.step = "recipients"] \/ Result(r) = [s EXCEPT !.step = a.step]
    BY <2>1 DEF Showing, Reset
  <2>3. LET shown == [Fresh EXCEPT !.step = "recipients"]
        IN  shown \in Sessions /\ KnownAs(shown) /\ \A d \in 0..MaxDrafts : ~ Holds(shown, d)
    BY <1>2 DEF Fresh, Sessions, KnownAs, Holds, Step
  <2>4. LET shown == [s EXCEPT !.step = a.step]
        IN  shown \in Sessions /\ KnownAs(shown) /\ \A d \in 0..MaxDrafts : Holds(shown, d) => Holds(s, d)
    BY <1>1, <2>1 DEF Sessions, KnownAs, Holds
  <2> QED
    BY <2>1, <2>2, <2>3, <2>4
<1>5. CASE a.do = "start"
  <2>1. r.answer = None /\ Result(r) = StartWith(r.kind, a.id, s) /\ a.id \in Id
    BY <1>1, <1>5 DEF Result, Acts
  <2>2. Result(r) = s \/ Result(r) = [s EXCEPT !.chosen = <<a.id>>, !.chosenAs = r.kind, !.step = "draft"]
    BY <2>1 DEF StartWith
  <2>3. LET started == [s EXCEPT !.chosen = <<a.id>>, !.chosenAs = r.kind, !.step = "draft"]
        IN  started \in Sessions /\ KnownAs(started) /\ \A d \in 0..MaxDrafts : Holds(started, d) => Holds(s, d)
    BY <1>1, <2>1, NoNone DEF Sessions, KnownAs, Holds, Step
  <2> QED
    BY <1>1, <2>1, <2>2, <2>3
<1>6. CASE a.do = "post"
  <2> DEFINE choice == [s EXCEPT !.chosen = a.choice, !.chosenAs = r.kind, !.step = "draft"]
             here   == [s EXCEPT !.step = IF @ = None THEN None ELSE a.step]
             left   == Result(r)
  <2>1. r.answer = None /\ Result(r) = Posted(r.kind, a, s) /\ a.step \in Step
    BY <1>1, <1>6 DEF Result, Acts, Step
  <2>2. \/ left = choice /\ a.step = "recipients"
        \/ left = [here EXCEPT !.draft = a.draft, !.step = "preview"] /\ a.step = "draft"
        \/ left = [here EXCEPT !.captcha = TRUE] /\ a.step = "preview" /\ (a.solved \/ s.captcha)
        \/ left = here
    BY <2>1 DEF Posted
  <2>3. here \in Sessions /\ KnownAs(here) /\ \A d \in 0..MaxDrafts : Holds(here, d) => Holds(s, d)
    BY <1>1, <2>1 DEF Sessions, KnownAs, Holds
  <2>4. CASE left = choice /\ a.step = "recipients"
    <3>1. a.choice \in Choosable /\ a.choice # <<>>
      BY <1>1, <1>6, <2>4 DEF Acts, WizardAssumption
    <3> QED
      BY <1>1, <2>1, <2>4, <3>1, NoNone DEF Sessions, KnownAs, Holds, Step
  <2>5. CASE left = [here EXCEPT !.draft = a.draft, !.step = "preview"] /\ a.step = "draft"
    <3>1. a.draft \in 1..MaxDrafts /\ a.draft \in 0..MaxDrafts /\ a.draft # 0
      BY <1>1, <1>6, <2>5 DEF Acts, WizardAssumption
    <3> HIDE DEF here
    <3>2. left \in Sessions /\ KnownAs(left)
      BY <2>3, <2>5, <3>1 DEF Sessions, KnownAs, Step
    <3>3. left.draft = a.draft /\ left.captcha = here.captcha
      BY <2>3, <2>5 DEF Sessions
    <3> QED
      BY <1>6, <2>1, <2>3, <2>5, <3>2, <3>3 DEF Holds, Brings
  <2>6. CASE left = [here EXCEPT !.captcha = TRUE] /\ a.step = "preview" /\ (a.solved \/ s.captcha)
    <3> HIDE DEF here
    <3>1. left \in Sessions /\ KnownAs(left) /\ left.draft = here.draft
      BY <2>3, <2>6 DEF Sessions, KnownAs
    <3> QED
      BY <1>6, <2>1, <2>3, <2>6, <3>1 DEF Holds, Brings
  <2> QED
    BY <2>1, <2>2, <2>3, <2>4, <2>5, <2>6
<1> QED
  BY <1>1, <1>3, <1>4, <1>5, <1>6 DEF Acts

-----------------------------------------------------------------------------
LEMMA HoldingFinite ==
  ASSUME WizardAssumption, NEW d
  PROVE  IsFiniteSet(Holding(d)) /\ Holders(d) \in Nat
<1>1. Holding(d) \subseteq Tab /\ IsFiniteSet(Tab)
  BY DEF Holding, WizardAssumption
<1> QED
  BY <1>1, FS_Subset, FS_CardinalityType DEF Holders

LEMMA MessageAppended ==
  ASSUME NEW old \in Seq(Messages), NEW m \in Messages, NEW d
  PROVE  /\ Users(old, d) \in Nat
         /\ Users(Append(old, m), d) = Users(old, d) + (IF Uses(m, d) THEN 1 ELSE 0)
<1> DEFINE new    == Append(old, m)
           before == {n \in DOMAIN old : Uses(old[n], d)}
           after  == {n \in DOMAIN new : Uses(new[n], d)}
<1>1. /\ Len(old) \in Nat /\ DOMAIN old = 1..Len(old) /\ DOMAIN new = 1..(Len(old) + 1)
      /\ \A n \in 1..Len(old) : new[n] = old[n]
      /\ new[Len(old) + 1] = m
  OBVIOUS
<1> HIDE DEF new
<1>2. IsFiniteSet(before) /\ Cardinality(before) \in Nat
  <2>1. IsFiniteSet(1..Len(old)) /\ before \subseteq 1..Len(old)
    BY <1>1, FS_Interval
  <2> QED
    BY <2>1, FS_Subset, FS_CardinalityType
<1>3. after = IF Uses(m, d) THEN before \cup {Len(old) + 1} ELSE before
  BY <1>1
<1>4. Len(old) + 1 \notin before
  BY <1>1
<1> HIDE DEF before, after
<1>5. Cardinality(after) = Cardinality(before) + (IF Uses(m, d) THEN 1 ELSE 0)
  <2>1. CASE Uses(m, d)
    <3>1. after = before \cup {Len(old) + 1}
      BY <1>3, <2>1
    <3> QED
      BY <1>2, <1>4, <2>1, <3>1, FS_AddElement
  <2>2. CASE ~ Uses(m, d)
    BY <1>2, <1>3, <2>2
  <2> QED
    BY <2>1, <2>2
<1> QED
  BY <1>2, <1>5 DEF before, after, new, Users

LEMMA InitWizard ==
  ASSUME WizardAssumption, WizardInit
  PROVE  WizardInv
<1>1. WizardTypes
  <2>1. Fresh \in Sessions
    BY DEF Fresh, Sessions, WizardAssumption
  <2> QED
    BY <2>1 DEF WizardInit, WizardTypes, Counts, WizardAssumption
<1>2. ChoicesKnown /\ OnOffer
  BY DEF WizardInit, ChoicesKnown, KnownAs, Fresh, OnOffer, ChecksMade, NoStranger
<1>3. Budget
  <2> SUFFICES ASSUME NEW d \in 0..MaxDrafts
               PROVE  Used(d) + Holders(d) + Kept(d) <= Allowed(d)
    BY DEF Budget
  <2>1. Used(d) = 0 /\ Holders(d) = 0
    <3>1. {n \in DOMAIN sent : Uses(sent[n], d)} = {} /\ Holding(d) = {}
      BY DEF WizardInit, Holding, CanUse
    <3> QED
      BY <3>1, FS_EmptySet DEF Used, Users, Holders
  <2>2. Kept(d) = 0
    BY DEF WizardInit, Kept, Holds, Fresh
  <2>3. Allowed(d) = 0
    BY DEF WizardInit, Allowed, Excess, Given, WizardAssumption
  <2> QED
    BY <2>1, <2>2, <2>3
<1> QED
  BY <1>1, <1>2, <1>3 DEF WizardInv

(* What each part of the budget is.                                        *)
LEMMA Numbers ==
  ASSUME WizardAssumption, WizardTypes, NEW d
  PROVE  /\ Used(d) \in Nat /\ Kept(d) \in Nat /\ Given(d) \in Nat /\ Allowed(d) \in Nat
         /\ Excess \in Nat /\ count.overlaps \in Nat /\ count.drops \in Nat /\ count.drafts \in Nat
         /\ Holders(d) \in Nat
<1>1. Used(d) \in Nat
  <2>1. Len(sent) \in Nat /\ DOMAIN sent = 1..Len(sent)
    BY DEF WizardTypes
  <2>2. IsFiniteSet(1..Len(sent)) /\ {n \in DOMAIN sent : Uses(sent[n], d)} \subseteq 1..Len(sent)
    BY <2>1, FS_Interval
  <2> QED
    BY <2>2, FS_Subset, FS_CardinalityType DEF Used, Users
<1>2. /\ count.overlaps \in Nat /\ count.drops \in Nat /\ count.drafts \in Nat
      /\ count.captchas \in Nat
  BY DEF WizardTypes, Counts
<1> QED
  <2>1. Kept(d) \in Nat /\ Given(d) \in Nat
    BY <1>2 DEF Kept, Given
  <2>2. Excess \in Nat
    BY <1>2 DEF Excess
  <2>3. Allowed(d) \in Nat
    BY <2>1, <2>2 DEF Allowed
  <2>4. Holders(d) \in Nat
    BY HoldingFinite DEF Holders
  <2> QED
    BY <1>1, <1>2, <2>1, <2>2, <2>3, <2>4

(* A request begins: another copy of what the session holds, or a draft or *)
(* a captcha more.                                                         *)
LEMMA RequestInv ==
  ASSUME WizardAssumption, WizardInv, NEW t \in Tab, NEW k \in Kind, NEW act \in Acts, Request(t, k, act),
         act.do = "post" /\ act.step = "draft" => act.draft = count.drafts + 1
  PROVE  WizardInv'
<1> DEFINE r == [kind |-> k, act |-> act, data |-> session, answer |-> None,
                 checked |-> FALSE, offered |-> eligible[k]]
           drafts   == act.do = "post" /\ act.step = "draft"
           captchas == act.do = "post" /\ act.step = "preview" /\ act.solved
<1>1. /\ requests[t] = None /\ requests' = [requests EXCEPT ![t] = r]
      /\ UNCHANGED <<session, eligible, sent>>
      /\ count' = [count EXCEPT !.requests = @ + 1, !.overlaps = IF Overlap THEN @ + 1 ELSE @,
                      !.drafts = IF drafts THEN @ + 1 ELSE @,
                      !.captchas = IF captchas THEN @ + 1 ELSE @]
  BY DEF Request
<1>2. /\ WizardTypes /\ session \in Sessions /\ count \in Counts /\ KnownAs(session)
      /\ requests \in [Tab -> Requests \cup {None}] /\ eligible[k] \in SUBSET Id
  BY DEF WizardInv, WizardTypes, ChoicesKnown
<1>3. /\ r \in Requests /\ r.data = session /\ r.act = act /\ r.answer = None
      /\ r.kind = k /\ r.offered = eligible[k] /\ ~ r.checked
  BY <1>2 DEF Requests
<1> HIDE DEF drafts, captchas
<1>4. /\ count' \in Counts /\ count'.drops = count.drops
      /\ count'.overlaps = (IF Overlap THEN count.overlaps + 1 ELSE count.overlaps)
      /\ count'.drafts = (IF drafts THEN count.drafts + 1 ELSE count.drafts)
      /\ count'.captchas = (IF captchas THEN count.captchas + 1 ELSE count.captchas)
  <2> DEFINE o == IF Overlap THEN count.overlaps + 1 ELSE count.overlaps
             w == IF drafts THEN count.drafts + 1 ELSE count.drafts
             c == IF captchas THEN count.captchas + 1 ELSE count.captchas
  <2>1. o \in Nat /\ w \in Nat /\ c \in Nat /\ count.requests + 1 \in Nat
    <3>1. /\ count.requests \in Nat /\ count.overlaps \in Nat
          /\ count.drafts \in Nat /\ count.captchas \in Nat
      BY <1>2 DEF Counts
    <3>2. \A n \in Nat : n + 1 \in Nat
      OBVIOUS
    <3> QED
      BY <3>1, <3>2, ZenonT(30)
  <2>2. count' = [count EXCEPT !.requests = @ + 1, !.overlaps = o, !.drafts = w, !.captchas = c]
    BY <1>1, <1>2 DEF Counts
  <2> HIDE DEF o, w, c
  <2>3. /\ count' \in Counts /\ count'.drops = count.drops
        /\ count'.overlaps = o /\ count'.drafts = w /\ count'.captchas = c
    BY <1>2, <2>1, <2>2 DEF Counts
  <2> QED
    BY <2>3 DEF o, w, c
<1> HIDE DEF r
<1>5. requests'[t] = r /\ \A u \in Tab \ {t} : requests'[u] = requests[u]
  BY <1>1, <1>2
<1>6. WizardTypes'
  BY <1>1, <1>3, <1>4, <1>5 DEF WizardInv, WizardTypes
<1>7. ChoicesKnown'
  BY <1>1, <1>2, <1>3, <1>5 DEF WizardInv, ChoicesKnown
<1>8. OnOffer'
  BY <1>1, <1>3, <1>5 DEF WizardInv, OnOffer, ChecksMade, ValidFor, NoStranger
<1>9. Budget'
  <2> SUFFICES ASSUME NEW d \in 0..MaxDrafts
               PROVE  Used(d)' + Holders(d)' + Kept(d)' <= Allowed(d)'
    BY DEF Budget
  <2>1. Used(d)' = Used(d)
    BY <1>1 DEF Used
  <2>2. Given(d)' = (IF Brings(act, d) THEN Given(d) + 1 ELSE Given(d))
    <3>1. d = 0 => (Brings(act, d) <=> captchas)
      BY DEF Brings, captchas
    <3>2. d # 0 => (Brings(act, d) <=> drafts /\ d = count.drafts + 1)
      BY DEF Brings, drafts
    <3>3. count.drafts \in Nat
      BY <1>2, Numbers
    <3> QED
      BY <1>4, <3>1, <3>2, <3>3 DEF Given
  <2>11. Allowed(d)' = Allowed(d) + (IF Brings(act, d) THEN 1 ELSE 0) + (IF Overlap THEN 1 ELSE 0)
    <3>1. Given(d) \in Nat /\ Excess \in Nat /\ count.overlaps \in Nat /\ count.drops \in Nat
      BY <1>2, Numbers
    <3>2. Excess' = (IF Overlap THEN Excess + 1 ELSE Excess)
      <4>1. Excess = count.overlaps + count.drops /\ Excess' = count'.overlaps + count.drops
        BY <1>4 DEF Excess
      <4>2. CASE Overlap
        <5>1. Excess' = (count.overlaps + 1) + count.drops
          BY <1>4, <4>1, <4>2
        <5> QED
          BY <3>1, <4>1, <4>2, <5>1, SMTT(30)
      <4>3. CASE ~ Overlap
        BY <1>4, <4>1, <4>3
      <4> QED
        BY <4>2, <4>3
    <3>3. Allowed(d) = Given(d) + Excess /\ Allowed(d)' = Given(d)' + Excess'
      BY DEF Allowed
    <3> QED
      BY <2>2, <3>1, <3>2, <3>3, SMTT(30)
  <2>3. IsFiniteSet(Holding(d)) /\ t \notin Holding(d)
    BY <1>1, HoldingFinite DEF Holding, CanUse
  <2>4. Holding(d)' = IF CanUse(r, d) THEN Holding(d) \cup {t} ELSE Holding(d)
    <3>1. Holding(d)' = {u \in Tab : CanUse(requests'[u], d)}
      BY DEF Holding, CanUse
    <3>2. \A u \in Tab \ {t} : CanUse(requests'[u], d) <=> u \in Holding(d)
      BY <1>5 DEF Holding
    <3>3. CanUse(requests'[t], d) <=> CanUse(r, d)
      BY <1>5
    <3> QED
      BY <2>3, <3>1, <3>2, <3>3 DEF Holding
  <2>5. Holders(d)' = Holders(d) + (IF CanUse(r, d) THEN 1 ELSE 0)
    <3>1. CASE CanUse(r, d)
      <4>1. Holding(d)' = Holding(d) \cup {t}
        BY <2>4, <3>1
      <4> QED
        BY <2>3, <3>1, <4>1, FS_AddElement DEF Holders
    <3>2. CASE ~ CanUse(r, d)
      <4>1. Holding(d)' = Holding(d)
        BY <2>4, <3>2
      <4> QED
        BY <2>3, <3>2, <4>1, HoldingFinite DEF Holders
    <3> QED
      BY <3>1, <3>2
  <2>6. CanUse(r, d) => r # None /\ (Holds(session, d) \/ Brings(act, d))
    BY <1>3 DEF CanUse
  <2>7. Used(d) \in Nat /\ Holders(d) \in Nat /\ Kept(d) \in Nat /\ Allowed(d) \in Nat
    BY <1>2, Numbers
  <2>8. Used(d) + Holders(d) + Kept(d) <= Allowed(d)
    BY DEF WizardInv, Budget
  <2>9. CASE Overlap
    <3>1. Overlap'
      BY <1>1, <1>5, <2>9 DEF Overlap
    <3>2. Kept(d)' = 0 /\ Kept(d) = 0
      BY <2>9, <3>1 DEF Kept
    <3>3. Holders(d)' \in Nat /\ Holders(d)' <= Holders(d) + 1 /\ Allowed(d)' \in Nat /\ Allowed(d)' >= Allowed(d) + 1
      BY <2>11, <2>5, <2>7, <2>9, SMTT(30)
    <3> QED
      BY <2>1, <2>7, <2>8, <3>2, <3>3, SMTT(30)
  <2>10. CASE ~ Overlap
    <3>1. Holding(d) = {}
      BY <2>10 DEF Overlap, Holding, CanUse
    <3>2. Holders(d) = 0
      BY <3>1, FS_EmptySet DEF Holders
    <3>3. CASE CanUse(r, d)
      <4>1. Kept(d)' = 0 /\ Holders(d)' = 1
        BY <1>5, <2>5, <2>6, <3>2, <3>3 DEF Kept, Overlap
      <4>2. (Kept(d) = 1 /\ Allowed(d)' >= Allowed(d)) \/ Allowed(d)' = Allowed(d) + 1
        BY <2>11, <2>6, <2>7, <2>10, <3>3 DEF Kept
      <4>3. Allowed(d)' \in Nat
        BY <2>7, <2>11
      <4> QED
        BY <2>1, <2>7, <2>8, <3>2, <4>1, <4>2, <4>3
    <3>4. CASE ~ CanUse(r, d)
      <4>1. Holders(d)' = 0 /\ Kept(d)' \in Nat /\ Kept(d)' <= Kept(d)
        <5>1. Overlap' \/ Kept(d)' = Kept(d)
          BY <1>1, <2>10 DEF Kept, Holds, Overlap
        <5>2. Overlap' => Kept(d)' = 0
          BY DEF Kept
        <5> QED
          BY <2>5, <2>7, <3>2, <3>4, <5>1, <5>2
      <4>2. Allowed(d)' \in Nat /\ Allowed(d)' >= Allowed(d)
        BY <2>7, <2>11
      <4> QED
        BY <2>1, <2>7, <2>8, <3>2, <4>1, <4>2
    <3> QED
      BY <3>3, <3>4
  <2> QED
    BY <2>9, <2>10
<1> QED
  BY <1>6, <1>7, <1>8, <1>9 DEF WizardInv

LEMMA BrowserInv ==
  ASSUME WizardAssumption, WizardInv, NEW t \in Tab, NEW k \in Kind, Get(t, k) \/ Post(t, k)
  PROVE  WizardInv'
<1>1. count.drafts \in Nat /\ MaxDrafts \in Nat
  BY Numbers DEF WizardInv, WizardAssumption
<1>2. ASSUME NEW step \in Step \cup {"done"}, Request(t, k, [do |-> "get", step |-> step])
      PROVE  WizardInv'
  <2>1. [do |-> "get", step |-> step] \in Acts
    BY DEF Acts
  <2> QED
    BY <1>2, <2>1, RequestInv
<1>3. ASSUME NEW id \in Id, Request(t, k, [do |-> "start", id |-> id])
      PROVE  WizardInv'
  <2>1. [do |-> "start", id |-> id] \in Acts
    BY DEF Acts
  <2> QED
    BY <1>3, <2>1, RequestInv
<1>4. ASSUME NEW c \in Choosable, Request(t, k, [do |-> "post", step |-> "recipients", choice |-> c])
      PROVE  WizardInv'
  <2>1. [do |-> "post", step |-> "recipients", choice |-> c] \in Acts
    BY DEF Acts
  <2> QED
    BY <1>4, <2>1, RequestInv
<1>5. ASSUME count.drafts < MaxDrafts,
             Request(t, k, [do |-> "post", step |-> "draft", draft |-> count.drafts + 1])
      PROVE  WizardInv'
  <2>1. count.drafts + 1 \in 1..MaxDrafts
    BY <1>1, <1>5
  <2>2. [do |-> "post", step |-> "draft", draft |-> count.drafts + 1] \in Acts
    BY <2>1 DEF Acts
  <2> QED
    BY <1>5, <2>2, RequestInv
<1>6. ASSUME NEW solved \in BOOLEAN, Request(t, k, [do |-> "post", step |-> "preview", solved |-> solved])
      PROVE  WizardInv'
  <2>1. [do |-> "post", step |-> "preview", solved |-> solved] \in Acts
    BY DEF Acts
  <2> QED
    BY <1>6, <2>1, RequestInv
<1> QED
  BY <1>2, <1>3, <1>4, <1>5, <1>6 DEF Get, Post

(* A request that has been dealt with holds nothing any more.              *)
LEMMA Released ==
  ASSUME WizardAssumption, NEW t \in Tab, NEW d,
         \A u \in Tab \ {t} : requests'[u] = requests[u], ~ CanUse(requests'[t], d)
  PROVE  Holders(d)' = Holders(d) - (IF CanUse(requests[t], d) THEN 1 ELSE 0)
<1>1. Holding(d)' = Holding(d) \ {t}
  BY DEF Holding, CanUse
<1>2. IsFiniteSet(Holding(d)) /\ Holders(d) \in Nat
  BY HoldingFinite
<1>3. t \in Holding(d) <=> CanUse(requests[t], d)
  BY DEF Holding
<1>4. CASE CanUse(requests[t], d)
  <2>1. Cardinality(Holding(d) \ {t}) = Cardinality(Holding(d)) - 1
    BY <1>2, <1>3, <1>4, FS_RemoveElement
  <2> QED
    BY <1>1, <1>4, <2>1 DEF Holders
<1>5. CASE ~ CanUse(requests[t], d)
  <2>1. Holding(d)' = Holding(d)
    BY <1>1, <1>3, <1>5
  <2> QED
    BY <1>2, <1>5, <2>1 DEF Holders
<1> QED
  BY <1>4, <1>5

(* The page "done" is asked for, and its forms are valid.                  *)
LEMMA ValidateInv ==
  ASSUME WizardAssumption, WizardInv, NEW t \in Tab, Validate(t)
  PROVE  WizardInv'
<1> DEFINE r == requests[t]
           v == [r EXCEPT !.checked = TRUE]
<1>1. /\ r # None /\ FailedStep(r.kind, r.data) = None /\ r.answer = None
      /\ requests' = [requests EXCEPT ![t].checked = TRUE]
      /\ UNCHANGED <<session, eligible, sent, count>>
  BY DEF Validate, Valid, Finishes
<1>2. /\ WizardTypes /\ r \in Requests /\ KnownAs(r.data) /\ eligible[r.kind] \subseteq r.offered
      /\ requests \in [Tab -> Requests \cup {None}]
  BY <1>1 DEF WizardInv, WizardTypes, ChoicesKnown, OnOffer, ChecksMade
<1>3. /\ v \in Requests /\ v.data = r.data /\ v.act = r.act /\ v.answer = None
      /\ v.kind = r.kind /\ v.offered = r.offered /\ v # None
  BY <1>1, <1>2, NoNone DEF Requests
<1>4. requests'[t] = v /\ \A u \in Tab \ {t} : requests'[u] = requests[u]
  BY <1>1, <1>2
<1>5. requests' \in [Tab -> Requests \cup {None}]
  BY <1>1, <1>2, <1>3
<1>6. ValidFor(v)
  <2>1. /\ Chosen(r.kind, r.data) \subseteq eligible[r.kind]
        /\ r.data.draft # 0 /\ r.data.captcha
    BY <1>1, NoNone DEF FailedStep, RecipientsValid
  <2> QED
    BY <1>2, <1>3, <2>1 DEF ValidFor
<1> HIDE DEF v
<1>7. WizardTypes' /\ ChoicesKnown'
  BY <1>1, <1>2, <1>3, <1>4, <1>5 DEF WizardInv, WizardTypes, ChoicesKnown, KnownAs
<1>8. OnOffer'
  BY <1>1, <1>2, <1>3, <1>4, <1>6 DEF WizardInv, OnOffer, ChecksMade, ValidFor, NoStranger
<1>9. Budget'
  <2> SUFFICES ASSUME NEW d \in 0..MaxDrafts
               PROVE  Used(d)' + Holders(d)' + Kept(d)' <= Allowed(d)'
    BY DEF Budget
  <2>1. Holding(d)' = Holding(d)
    <3>1. \A u \in Tab : CanUse(requests'[u], d) <=> CanUse(requests[u], d)
      BY <1>1, <1>3, <1>4 DEF CanUse
    <3> QED
      BY <3>1 DEF Holding, CanUse
  <2>2. Overlap' = Overlap
    BY <1>1, <1>3, <1>4 DEF Overlap
  <2>3. Used(d)' = Used(d) /\ Holders(d)' = Holders(d) /\ Kept(d)' = Kept(d) /\ Allowed(d)' = Allowed(d)
    BY <1>1, <2>1, <2>2 DEF Used, Holders, Kept, Allowed, Given, Excess
  <2> QED
    BY <2>3 DEF WizardInv, Budget
<1> QED
  BY <1>7, <1>8, <1>9 DEF WizardInv

(* The service is asked to send a message.                                 *)
LEMMA CreateInv ==
  ASSUME WizardAssumption, WizardInv, NEW t \in Tab, CreateMessage(t)
  PROVE  WizardInv'
<1> DEFINE r == requests[t]
           m == Message(r)
<1>1. /\ r # None /\ r.act.do = "get" /\ r.act.step = "done" /\ r.answer = None
      /\ r.checked
      /\ UNCHANGED <<session, eligible, count>>
  BY DEF CreateMessage, Sends, Finishes
<1>2. r \in Requests /\ KnownAs(r.data) /\ WizardTypes
  BY <1>1 DEF WizardInv, WizardTypes, ChoicesKnown
<1>3. r.kind \in Kind /\ r.data \in Sessions
  BY <1>2 DEF Requests
<1>4. ValidFor(r) /\ eligible[r.kind] \subseteq r.offered /\ r.offered \in SUBSET Id
  BY <1>1, <1>2 DEF WizardInv, OnOffer, ChecksMade, Requests
<1>5. Chosen(r.kind, r.data) \subseteq r.offered /\ r.data.draft # 0 /\ r.data.captcha
  BY <1>4 DEF ValidFor
<1>6. /\ m \in Messages /\ m.to = Chosen(r.kind, r.data) /\ m.draft = r.data.draft
      /\ m.offered = r.offered
  BY <1>3, <1>4, <1>5 DEF Message, Messages, Sessions
<1>7. PICK answer \in {"ok", "error"} : requests' = [requests EXCEPT ![t].answer = answer]
  BY DEF CreateMessage
<1>8. sent' = Append(sent, m) \/ sent' = sent
  BY DEF CreateMessage
<1> HIDE DEF m
<1>9. /\ requests'[t] = [r EXCEPT !.answer = answer] /\ \A u \in Tab \ {t} : requests'[u] = requests[u]
      /\ DOMAIN requests' = Tab /\ requests' = [u \in Tab |-> requests'[u]]
  BY <1>2, <1>7 DEF WizardTypes
<1>10. /\ requests'[t] \in Requests /\ requests'[t].data = r.data /\ requests'[t].act = r.act
       /\ requests'[t].answer # None /\ requests'[t].kind = r.kind
       /\ requests'[t].offered = r.offered
  BY <1>2, <1>9, NoNone DEF Requests
<1>11. WizardTypes'
  <2>1. requests' \in [Tab -> Requests \cup {None}]
    BY <1>2, <1>9, <1>10 DEF WizardTypes
  <2>2. sent' \in Seq(Messages)
    <3>1. sent \in Seq(Messages)
      BY <1>2 DEF WizardTypes
    <3>2. Append(sent, m) \in Seq(Messages)
      BY <1>6, <3>1, AppendProperties
    <3> QED
      BY <1>8, <3>1, <3>2
  <2>3. \A u \in Tab : requests'[u] # None /\ requests'[u].answer # None =>
          requests'[u].act.do = "get" /\ requests'[u].act.step = "done"
    <3> SUFFICES ASSUME NEW u \in Tab, requests'[u] # None, requests'[u].answer # None
                 PROVE  requests'[u].act.do = "get" /\ requests'[u].act.step = "done"
      OBVIOUS
    <3>1. CASE u = t
      BY <1>1, <1>10, <3>1
    <3>2. CASE u # t
      BY <1>2, <1>9, <3>2 DEF WizardTypes
    <3> QED
      BY <3>1, <3>2
  <2> QED
    BY <1>1, <1>2, <2>1, <2>2, <2>3 DEF WizardTypes
<1>12. ChoicesKnown'
  <2>1. /\ KnownAs(session)
        /\ requests'[t] # None => KnownAs(requests'[t].data)
        /\ \A u \in Tab \ {t} : requests'[u] # None => KnownAs(requests'[u].data)
    BY <1>1, <1>2, <1>9, <1>10 DEF WizardInv, ChoicesKnown
  <2> QED
    <3>1. \A u \in Tab : requests'[u] # None => KnownAs(requests'[u].data)
      BY <2>1
    <3>2. KnownAs(session')
      BY <1>1, <2>1
    <3> QED
      BY <3>1, <3>2 DEF ChoicesKnown, KnownAs
<1>13. OnOffer'
  <2>1. sent \in Seq(Messages)
    BY <1>2 DEF WizardTypes
  <2>2. ASSUME NEW n \in DOMAIN sent'
        PROVE  sent'[n].to \subseteq sent'[n].offered
    <3>1. (n \in DOMAIN sent /\ sent'[n] = sent[n]) \/ sent'[n] = m
      <4>1. CASE sent' = sent
        BY <4>1
      <4>2. CASE sent' = Append(sent, m)
        <5>1. n \in 1..Len(sent) + 1 /\ Len(sent) \in Nat /\ DOMAIN sent = 1..Len(sent)
          BY <1>6, <2>1, <4>2
        <5>2. n = Len(sent) + 1 \/ n \in DOMAIN sent
          BY <5>1
        <5> QED
          BY <1>6, <2>1, <4>2, <5>1, <5>2
      <4> QED
        BY <1>8, <4>1, <4>2
    <3> QED
      BY <1>5, <1>6, <3>1 DEF WizardInv, OnOffer, NoStranger
  <2>3. ValidFor(requests'[t])
    BY <1>4, <1>10 DEF ValidFor
  <2>4. ChecksMade'
    <3>1. ASSUME NEW u \in Tab, requests'[u] # None
          PROVE  /\ eligible[requests'[u].kind] \subseteq requests'[u].offered
                 /\ requests'[u].checked => ValidFor(requests'[u])
      <4>1. CASE u = t
        <5>1. eligible[requests'[t].kind] \subseteq requests'[t].offered
          BY <1>4, <1>10
        <5> QED
          BY <2>3, <4>1, <5>1
      <4>2. CASE u # t
        <5>1. requests'[u] = requests[u]
          BY <1>9, <4>2
        <5> QED
          BY <3>1, <5>1 DEF WizardInv, OnOffer, ChecksMade
      <4> QED
        BY <4>1, <4>2
    <3>2. eligible' = eligible
      BY <1>1
    <3> QED
      BY <3>1, <3>2 DEF ChecksMade, ValidFor, Chosen
  <2> QED
    BY <2>2, <2>4 DEF OnOffer, NoStranger
<1>14. Budget'
  <2> SUFFICES ASSUME NEW d \in 0..MaxDrafts
               PROVE  Used(d)' + Holders(d)' + Kept(d)' <= Allowed(d)'
    BY DEF Budget
  <2>1. Used(d) \in Nat /\ Holders(d) \in Nat /\ Kept(d) \in Nat /\ Allowed(d) \in Nat
    BY <1>2, Numbers
  <2>2. Used(d) + Holders(d) + Kept(d) <= Allowed(d)
    BY DEF WizardInv, Budget
  <2>3. Allowed(d)' = Allowed(d)
    BY <1>1 DEF Allowed, Given, Excess
  <2>4. Holders(d)' = Holders(d) - (IF CanUse(r, d) THEN 1 ELSE 0)
    <3>1. ~ CanUse(requests'[t], d)
      BY <1>10 DEF CanUse
    <3> QED
      BY <1>9, <3>1, Released
  <2>5. Uses(m, d) => CanUse(r, d)
    BY <1>1, <1>5, <1>6 DEF Uses, CanUse, Holds
  <2>6. Used(d)' = Used(d) \/ (Used(d)' = Used(d) + 1 /\ Uses(m, d))
    <3>1. sent \in Seq(Messages)
      BY <1>2 DEF WizardTypes
    <3>2. CASE sent' = sent
      BY <3>2 DEF Used
    <3>3. CASE sent' = Append(sent, m)
      BY <1>6, <3>1, <3>3, MessageAppended DEF Used
    <3> QED
      BY <1>8, <3>2, <3>3
  <2>7. Kept(d)' \in Nat /\ Kept(d)' <= Kept(d)
    <3>1. requests'[t] # None
      BY <1>10, NoNone
    <3>2. Kept(d)' = 0
      BY <3>1 DEF Kept, Overlap
    <3> QED
      BY <2>1, <3>2
  <2>8. Kept(d)' <= Kept(d) /\ Kept(d)' \in Nat /\ Used(d)' \in Nat
    BY <2>1, <2>6, <2>7
  <2>9. CASE CanUse(r, d)
    <3>1. Used(d)' <= Used(d) + 1 /\ Holders(d)' = Holders(d) - 1
      BY <2>1, <2>4, <2>6, <2>9
    <3>2. Used(d)' + Holders(d)' <= Used(d) + Holders(d) /\ Used(d)' + Holders(d)' \in Int
      BY <2>1, <2>8, <3>1, SMTT(30)
    <3>3. Used(d) + Holders(d) \in Nat
      BY <2>1
    <3>4. PICK u \in Int, h \in Nat, l \in Nat, k \in Nat, a \in Nat :
             /\ u = Used(d)' + Holders(d)' /\ h = Used(d) + Holders(d)
             /\ l = Kept(d)' /\ k = Kept(d) /\ a = Allowed(d)
      BY <2>1, <2>8, <3>2, <3>3
    <3>5. u <= h /\ l <= k /\ h + k <= a
      BY <2>2, <2>8, <3>2, <3>4
    <3>6. u + l <= a
      BY <3>5
    <3> QED
      BY <2>3, <3>4, <3>6
  <2>10. CASE ~ CanUse(r, d)
    <3>1. Used(d)' = Used(d) /\ Holders(d)' = Holders(d)
      BY <2>1, <2>4, <2>5, <2>6, <2>10
    <3> QED
      BY <2>1, <2>2, <2>3, <2>8, <3>1
  <2> QED
    BY <2>9, <2>10
<1> QED
  BY <1>11, <1>12, <1>13, <1>14 DEF WizardInv

(* A request is over: its response has saved the session, or it is killed. *)
LEMMA EndInv ==
  ASSUME WizardAssumption, WizardInv, NEW t \in Tab, requests[t] # None,
         requests' = [requests EXCEPT ![t] = None], UNCHANGED <<eligible, sent>>,
         count' \in Counts, session' \in Sessions, KnownAs(session'),
         \A d \in 0..MaxDrafts : Given(d)' = Given(d),
         Excess' \in Nat, Excess' >= Excess,
         \A d \in 0..MaxDrafts :
           Holds(session', d) => CanUse(requests[t], d) \/ Excess' > Excess
  PROVE  WizardInv'
<1>1. /\ requests \in [Tab -> Requests \cup {None}] /\ WizardTypes
      /\ requests'[t] = None /\ \A u \in Tab \ {t} : requests'[u] = requests[u]
  BY DEF WizardInv, WizardTypes
<1>2. WizardTypes'
  BY <1>1 DEF WizardTypes
<1>3. ChoicesKnown' /\ OnOffer'
  BY <1>1 DEF WizardInv, ChoicesKnown, OnOffer, ChecksMade, ValidFor, NoStranger, KnownAs
<1>4. Budget'
  <2> SUFFICES ASSUME NEW d \in 0..MaxDrafts
               PROVE  Used(d)' + Holders(d)' + Kept(d)' <= Allowed(d)'
    BY DEF Budget
  <2>1. Used(d) \in Nat /\ Holders(d) \in Nat /\ Kept(d) \in Nat /\ Allowed(d) \in Nat
    BY <1>1, Numbers
  <2>2. Used(d) + Holders(d) <= Allowed(d)
    <3>1. Used(d) + Holders(d) + Kept(d) <= Allowed(d)
      BY DEF WizardInv, Budget
    <3> QED
      BY <2>1, <3>1
  <2>3. Used(d)' = Used(d)
    BY DEF Used
  <2>4. Holders(d)' = Holders(d) - (IF CanUse(requests[t], d) THEN 1 ELSE 0) /\ Holders(d)' \in Nat
    <3>1. ~ CanUse(requests'[t], d)
      BY <1>1 DEF CanUse
    <3>2. Holders(d)' = Holders(d) - (IF CanUse(requests[t], d) THEN 1 ELSE 0)
      BY <1>1, <3>1, Released
    <3>3. Holding(d)' \subseteq Tab /\ IsFiniteSet(Tab)
      BY DEF Holding, WizardAssumption
    <3>4. Holders(d)' \in Nat
      BY <3>3, FS_Subset, FS_CardinalityType DEF Holders
    <3> QED
      BY <3>2, <3>4
  <2>5. Allowed(d)' = Given(d) + Excess' /\ Allowed(d) = Given(d) + Excess
        /\ Given(d) \in Nat /\ Excess \in Nat
    BY <1>1, Numbers DEF Allowed
  <2>6. Allowed(d)' \in Nat /\ Allowed(d)' >= Allowed(d)
        /\ (Excess' > Excess => Allowed(d)' >= Allowed(d) + 1)
    BY <2>5
  <2>7. CASE CanUse(requests[t], d)
    <3>1. Kept(d)' \in Nat /\ Kept(d)' <= 1
      BY DEF Kept
    <3>2. Holders(d)' = Holders(d) - 1
      BY <2>4, <2>7
    <3>3. Used(d)' + Holders(d)' + Kept(d)' <= Used(d) + Holders(d)
      BY <2>1, <2>3, <3>1, <3>2, SMTT(30)
    <3>4. Used(d)' + Holders(d)' + Kept(d)' \in Int
      BY <2>1, <2>3, <3>1, <3>2, SMTT(30)
    <3> QED
      BY <2>1, <2>2, <2>6, <3>3, <3>4, SMTT(30)
  <2>8. CASE ~ CanUse(requests[t], d) /\ Excess' > Excess
    <3>1. Kept(d)' \in Nat /\ Kept(d)' <= 1
      BY DEF Kept
    <3>2. Holders(d)' = Holders(d)
      BY <2>1, <2>4, <2>8
    <3>3. Allowed(d)' >= Allowed(d) + 1
      BY <2>6, <2>8
    <3> QED
      BY <2>1, <2>2, <2>3, <2>6, <3>1, <3>2, <3>3, SMTT(30)
  <2>9. CASE ~ CanUse(requests[t], d) /\ ~ (Excess' > Excess)
    <3>1. Kept(d)' = 0
      BY <2>9 DEF Kept, Holds
    <3>2. Holders(d)' = Holders(d)
      BY <2>1, <2>4, <2>9
    <3> QED
      BY <2>1, <2>2, <2>3, <2>6, <3>1, <3>2, SMTT(30)
  <2> QED
    BY <2>7, <2>8, <2>9
<1> QED
  BY <1>2, <1>3, <1>4 DEF WizardInv

LEMMA RespondInv ==
  ASSUME WizardAssumption, WizardInv, NEW t \in Tab, Respond(t)
  PROVE  WizardInv'
<1> DEFINE r == requests[t]
<1>1. /\ r # None /\ session' = Result(r) /\ requests' = [requests EXCEPT ![t] = None]
      /\ UNCHANGED <<eligible, sent, count>>
  BY DEF Respond
<1>2. r \in Requests /\ KnownAs(r.data) /\ count \in Counts /\ Excess \in Nat
      /\ (r.answer # None => r.act.do = "get" /\ r.act.step = "done")
  BY <1>1, Numbers DEF WizardInv, WizardTypes, ChoicesKnown
<1>3. /\ session' \in Sessions /\ KnownAs(session')
      /\ \A d \in 0..MaxDrafts : Holds(session', d) => CanUse(r, d)
  BY <1>1, <1>2, ResultLeft DEF CanUse
<1>4. Excess' = Excess /\ \A d \in 0..MaxDrafts : Given(d)' = Given(d)
  BY <1>1 DEF Excess, Given
<1>5. Excess' \in Nat /\ Excess' >= Excess
  BY <1>2, <1>4
<1> QED
  BY <1>1, <1>2, <1>3, <1>4, <1>5, EndInv

LEMMA UnsavedInv ==
  ASSUME WizardAssumption, WizardInv, NEW t \in Tab, Unsaved(t)
  PROVE  WizardInv'
<1>1. /\ requests[t] # None /\ requests' = [requests EXCEPT ![t] = None]
      /\ count' = [count EXCEPT !.drops = @ + 1]
      /\ UNCHANGED <<session, eligible, sent>>
  BY DEF Unsaved
<1>2. count \in Counts /\ session \in Sessions /\ KnownAs(session) /\ Excess \in Nat
  BY Numbers DEF WizardInv, WizardTypes, ChoicesKnown
<1>3. /\ count' \in Counts /\ count'.overlaps = count.overlaps /\ count'.drops = count.drops + 1
      /\ count'.drafts = count.drafts /\ count'.captchas = count.captchas
      /\ count.overlaps \in Nat /\ count.drops \in Nat
  <2>1. count.overlaps \in Nat /\ count.drops \in Nat /\ count.drops + 1 \in Nat
    BY <1>2 DEF Counts
  <2>2. count' = [count EXCEPT !.drops = count.drops + 1]
    BY <1>1
  <2> QED
    BY <1>2, <2>1, <2>2 DEF Counts
<1>4. Excess' = Excess + 1
  BY <1>3 DEF Excess
<1>5. \A d \in 0..MaxDrafts : Given(d)' = Given(d)
  BY <1>3 DEF Given
<1>6. Excess' \in Nat /\ Excess' > Excess /\ Excess' >= Excess
  BY <1>2, <1>4
<1>7. session' \in Sessions /\ KnownAs(session')
  BY <1>1, <1>2
<1> QED
  BY <1>1, <1>3, <1>5, <1>6, <1>7, EndInv

LEMMA NextWizard ==
  ASSUME WizardAssumption, WizardInv, [WizardNext]_wizardVars
  PROVE  WizardInv'
<1>1. ASSUME NEW t \in Tab, NEW k \in Kind, Get(t, k) \/ Post(t, k)
      PROVE  WizardInv'
  BY <1>1, BrowserInv
<1>2. ASSUME NEW t \in Tab, Validate(t) \/ CreateMessage(t) \/ Respond(t) \/ Drop(t) \/ Raise(t)
      PROVE  WizardInv'
  BY <1>2, ValidateInv, CreateInv, RespondInv, UnsavedInv DEF Drop, Raise
<1>3. CASE Leave \/ UNCHANGED wizardVars
  <2>1. UNCHANGED <<session, requests, sent>>
    BY <1>3 DEF Leave, wizardVars
  <2>2. count' \in Counts /\ count'.overlaps = count.overlaps /\ count'.drops = count.drops
        /\ count'.drafts = count.drafts /\ count'.captchas = count.captchas
    BY <1>3 DEF Leave, wizardVars, WizardInv, WizardTypes, Counts
  <2>3. eligible' \in [Kind -> SUBSET Id] /\ \A k \in Kind : eligible'[k] \subseteq eligible[k]
    BY <1>3 DEF Leave, wizardVars, WizardInv, WizardTypes
  <2>4. WizardTypes'
    BY <2>1, <2>2, <2>3 DEF WizardInv, WizardTypes
  <2>5. ChoicesKnown' /\ OnOffer'
    <3>1. ChoicesKnown' /\ NoStranger'
      BY <2>1 DEF WizardInv, ChoicesKnown, OnOffer, NoStranger
    <3>2. \A u \in Tab : requests[u] # None => requests[u].kind \in Kind
      BY DEF WizardInv, WizardTypes, Requests
    <3> QED
      BY <2>1, <2>3, <3>1, <3>2 DEF WizardInv, OnOffer, ChecksMade, ValidFor
  <2>6. Budget'
    <3> SUFFICES ASSUME NEW d \in 0..MaxDrafts
                 PROVE  Used(d)' + Holders(d)' + Kept(d)' <= Allowed(d)'
      BY DEF Budget
    <3>1. Used(d)' = Used(d) /\ Holders(d)' = Holders(d) /\ Kept(d)' = Kept(d)
      BY <2>1 DEF Used, Holders, Holding, Kept, Overlap
    <3>2. Allowed(d)' = Allowed(d)
      BY <2>2 DEF Allowed, Given, Excess
    <3> QED
      BY <3>1, <3>2 DEF WizardInv, Budget
  <2> QED
    BY <2>4, <2>5, <2>6 DEF WizardInv
<1> QED
  BY <1>1, <1>2, <1>3 DEF WizardNext

LEMMA WizardInvariance == WizardSpec => []WizardInv
<1>1. WizardInit => WizardInv
  BY WizardAssumption, InitWizard
<1>2. WizardInv /\ [WizardNext]_wizardVars => WizardInv'
  BY WizardAssumption, NextWizard
<1> QED
  BY <1>1, <1>2, PTL DEF WizardSpec

(* A draft is sent once and each message has cost a captcha, but for as    *)
(* many exceptions as there were requests that overlapped another, or were *)
(* killed: the reset of the session in WriteInPublicNewMessage.done.       *)
THEOREM SentOnce == WizardSpec => []NoneTwice
<1>1. WizardInv => NoneTwice
  <2> SUFFICES ASSUME WizardInv
               PROVE  NoneTwice
    OBVIOUS
  <2>1. WizardTypeOK
    BY DEF WizardInv, WizardTypes, ChoicesKnown, KnownAs, WizardTypeOK
  <2>2. WizardTypes /\ sent \in Seq(Messages) /\ MaxDrafts \in Nat
    BY WizardAssumption DEF WizardInv, WizardTypes
  <2>3. ASSUME NEW d \in 0..MaxDrafts
        PROVE  /\ Used(d) \in Nat /\ Used(d) <= Allowed(d) /\ Allowed(d) = Given(d) + Excess
               /\ Given(d) \in Nat /\ Excess \in Nat
    <3>1. /\ Used(d) \in Nat /\ Holders(d) \in Nat /\ Kept(d) \in Nat /\ Allowed(d) \in Nat
          /\ Given(d) \in Nat /\ Excess \in Nat
      BY <2>2, WizardAssumption, Numbers
    <3>2. Used(d) + Holders(d) + Kept(d) <= Allowed(d)
      BY DEF WizardInv, Budget
    <3> QED
      BY <3>1, <3>2 DEF Allowed
  <2>4. Excess = count.overlaps + count.drops /\ count.overlaps \in Nat /\ count.drops \in Nat
    BY <2>2, WizardAssumption, Numbers DEF Excess
  <2>5. OncePerDraft
    <3> SUFFICES ASSUME NEW d \in 1..MaxDrafts
                 PROVE  Times(d) <= 1 + count.overlaps + count.drops
      BY DEF OncePerDraft
    <3>1. d \in 0..MaxDrafts /\ d # 0
      BY <2>2, WizardAssumption
    <3>2. Times(d) = Used(d)
      BY <3>1 DEF Times, Used, Users, Uses
    <3>3. Given(d) <= 1
      BY <3>1 DEF Given
    <3>4. Times(d) \in Nat /\ Times(d) <= 1 + Excess
      BY <2>3, <3>1, <3>2, <3>3
    <3> QED
      BY <2>4, <3>4
  <2>6. CaptchaEach
    <3>1. 0 \in 0..MaxDrafts
      BY <2>2, WizardAssumption
    <3>2. Used(0) = Len(sent)
      <4>1. Len(sent) \in Nat /\ DOMAIN sent = 1..Len(sent)
        BY <2>2, WizardAssumption
      <4>2. {n \in DOMAIN sent : Uses(sent[n], 0)} = 1..Len(sent)
        BY <4>1 DEF Uses
      <4>3. \A n \in Nat : Cardinality(1..n) = n
        <5> SUFFICES ASSUME NEW n \in Nat
                     PROVE  Cardinality(1..n) = n
          OBVIOUS
        <5>1. 1 \in Int /\ n \in Int
          OBVIOUS
        <5>2. Cardinality(1..n) = IF 1 > n THEN 0 ELSE n - 1 + 1
          BY <5>1, FS_Interval
        <5> QED
          BY <5>2
      <4> QED
        BY <4>1, <4>2, <4>3 DEF Used, Users
    <3>3. Given(0) = count.captchas
      BY DEF Given
    <3>4. Len(sent) <= count.captchas + Excess /\ count.captchas \in Nat
      BY <2>3, <3>1, <3>2, <3>3
    <3> QED
      BY <2>4, <3>4 DEF CaptchaEach
  <2> QED
    BY <2>1, <2>5, <2>6 DEF NoneTwice
<1> QED
  BY <1>1, WizardInvariance, PTL

(* Nobody is written to who was not on offer in the wizard that sends when *)
(* its page "done" was asked for, whenever and in whichever wizard they    *)
(* were chosen: the forms are validated again before a message is sent     *)
(* (PersonAdapter and CommitteeAdapter.get_form_kwargs).                   *)
THEOREM SentToOffered == WizardSpec => []NoStranger
<1>1. WizardInv => NoStranger
  BY DEF WizardInv, OnOffer
<1> QED
  BY <1>1, WizardInvariance, PTL
=============================================================================
