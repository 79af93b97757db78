--------------------------- MODULE Positions_proofs ---------------------------
(***************************************************************************)
(* The strings in which positions are compared order them as their days    *)
(* do, for every calendar.  The commands over positions write rows of the  *)
(* right type only; the coalitions of the aspirants follow their parties;  *)
(* and the change of party leaves out nobody but one person for each kill  *)
(* and each edit.                                                          *)
(***************************************************************************)
EXTENDS PositionCommands, FiniteSetTheorems, TLAPS

(* A date that is neither empty nor a word.                                *)
Known == Approximate \ {NoDate, Past, Future}

LEMMA DayShape ==
    ASSUME NEW t \in Day
    PROVE  /\ t.y \in Year /\ t.y \in Int /\ 2 <= t.y /\ t.y <= 9998
           /\ t.m \in Month /\ t.m \in Int /\ 1 <= t.m /\ t.m <= LastMonth
           /\ t.d \in Int /\ 1 <= t.d /\ t.d <= 31
           /\ t.d <= LastDay(t.y, t.m)
<1>1. t.y \in Year /\ t.m \in Month /\ t.d \in 1..31 /\ RealDay(t)
  BY DEF Day
<1>2. t.y \in Int /\ 2 <= t.y /\ t.y <= 9998
  BY <1>1, YearAssumption
<1>3. t.m \in Int /\ 1 <= t.m /\ t.m <= LastMonth
  BY <1>1, MonthAssumption DEF Month
<1> QED BY <1>1, <1>2, <1>3 DEF RealDay

LEMMA KnownShape ==
    ASSUME NEW t \in Known
    PROVE  /\ t = Date(t.y, t.m, t.d)
           /\ t.y \in Year /\ t.y \in Int /\ 2 <= t.y /\ t.y <= 9998
           /\ t.m \in Int /\ 0 <= t.m /\ t.m <= LastMonth /\ t.m <= 12
           /\ t.d \in Int /\ 0 <= t.d /\ t.d <= 31
           /\ t.m = 0 => t.d = 0
           /\ t.m # 0 => t.m \in Month /\ t.d <= LastDay(t.y, t.m)
<1>1. /\ t \in [y : Year, m : 0..LastMonth, d : 0..31]
      /\ t.m = 0 => t.d = 0
      /\ t.m # 0 => RealDay(t)
  BY DEF Known, Approximate
<1>2. t.y \in Year
  BY <1>1
<1>3. t.y \in Int /\ 2 <= t.y /\ t.y <= 9998
  BY <1>2, YearAssumption
<1>4. t.m \in Int /\ 0 <= t.m /\ t.m <= LastMonth /\ t.d \in Int /\ 0 <= t.d /\ t.d <= 31
  BY <1>1, MonthAssumption
<1>5. t.m <= 12
  BY <1>4, MonthAssumption
<1>6. t = Date(t.y, t.m, t.d)
  BY <1>1 DEF Date
<1>7. t.m # 0 => t.m \in Month /\ t.d <= LastDay(t.y, t.m)
  BY <1>1, <1>4, MonthAssumption DEF Month, RealDay
<1> QED BY <1>1, <1>2, <1>3, <1>4, <1>5, <1>6, <1>7

(* The comparison, spelled out for dates given by their parts.             *)
LEMMA BeforeDate ==
    ASSUME NEW t, NEW y, NEW m, NEW d
    PROVE  /\ Before(t, Date(y, m, d)) <=>
                t.y < y \/ (t.y = y /\ t.m < m) \/ (t.y = y /\ t.m = m /\ t.d < d)
           /\ Before(Date(y, m, d), t) <=>
                y < t.y \/ (y = t.y /\ m < t.m) \/ (y = t.y /\ m = t.m /\ d < t.d)
BY DEF Before, Date

LEMMA Words ==
    /\ NoDate # Past /\ NoDate # Future /\ Past # Future
    /\ NoDate \in Approximate /\ Past \in Approximate /\ Future \in Approximate
    /\ \A t \in Approximate : t \in Known \/ t = NoDate \/ t = Past \/ t = Future
    /\ \A t \in Known : t # NoDate /\ t # Past /\ t # Future
BY DEF NoDate, Past, Future, Date, Approximate, Known

(* A day before the earliest day of a date is before its sort string.      *)
LEMMA StartsAgree ==
    ASSUME NEW t \in Approximate, NEW when \in Day
    PROVE  Before(when, Earliest(t)) <=> Before(when, t)
<1>1. CASE t = NoDate
  <2>1. Earliest(t) = Date(1, 1, 1)
    BY <1>1 DEF Earliest, MinDay
  <2>2. t = Date(0, 0, 0)
    BY <1>1 DEF NoDate
  <2> QED BY <2>1, <2>2, BeforeDate, DayShape
<1>2. CASE t = Past
  <2>1. Earliest(t) = Date(1, 1, 1)
    BY <1>2 DEF Earliest, MinDay
  <2>2. t = Date(1, 0, 0)
    BY <1>2 DEF Past
  <2> QED BY <2>1, <2>2, BeforeDate, DayShape
<1>3. CASE t = Future
  <2>1. Earliest(t) = Date(9999, 12, 31)
    BY <1>3, Words DEF Earliest, MaxDay
  <2>2. t = Date(10000, 0, 0)
    BY <1>3 DEF Future
  <2> QED BY <2>1, <2>2, BeforeDate, DayShape
<1>4. CASE t \in Known
  <2>1. Earliest(t) = Date(t.y, IF t.m = 0 THEN 1 ELSE t.m, IF t.d = 0 THEN 1 ELSE t.d)
    BY <1>4, Words DEF Earliest
  <2> QED BY <1>4, <2>1, BeforeDate, DayShape, KnownShape
<1> QED BY <1>1, <1>2, <1>3, <1>4, Words

(* The latest day of a date is before a day just when its sort string is,  *)
(* with -99 for what is not known.                                         *)
LEMMA EndsAgree ==
    ASSUME NEW t \in Approximate, t # NoDate, NEW when \in Day
    PROVE  Before(Latest(t), when) <=> Before(High(t), when)
<1>1. CASE t = Past
  <2>1. Latest(t) = Date(1, 1, 1)
    BY <1>1 DEF Latest, MinDay
  <2>2. High(t) = Date(1, 99, 99)
    BY <1>1 DEF High, Past, Date
  <2> QED BY <2>1, <2>2, BeforeDate, DayShape
<1>2. CASE t = Future
  <2>1. Latest(t) = Date(9999, 12, 31)
    BY <1>2, Words DEF Latest, MaxDay
  <2>2. High(t) = Date(10000, 99, 99)
    BY <1>2 DEF High, Future, Date
  <2> QED BY <2>1, <2>2, BeforeDate, DayShape
<1>3. CASE t \in Known
  <2>1. t = Date(t.y, t.m, t.d)
    BY <1>3, KnownShape
  <2>2. High(t) = Date(t.y, IF t.m = 0 THEN 99 ELSE t.m, IF t.d = 0 THEN 99 ELSE t.d)
    BY <2>1 DEF High, Date
  <2>3. t.y \in Int /\ t.m \in Int /\ t.d \in Int /\ 0 <= t.m /\ t.m <= 12 /\ 0 <= t.d /\ t.d <= 31
    BY <1>3, KnownShape
  <2>4. CASE t.m = 0
    <3>1. t.d = 0
      BY <1>3, <2>4, KnownShape
    <3>2. LastMonth \in Month /\ t.y \in Year
      BY <1>3, KnownShape, MonthAssumption DEF Month
    <3>3. Latest(t) = Date(t.y, LastMonth, LastDay(t.y, LastMonth))
      BY <1>3, <2>4, Words DEF Latest
    <3>4. Before(Latest(t), when) <=> t.y < when.y
      <4>1. when.y = t.y => ~(LastMonth < when.m) /\ (when.m = LastMonth => ~(LastDay(t.y, LastMonth) < when.d))
        BY <3>2, DayShape, DayAssumption, MonthAssumption
      <4> QED BY <3>3, <4>1, BeforeDate
    <3>5. Before(High(t), when) <=> t.y < when.y
      BY <2>2, <2>4, <3>1, BeforeDate, DayShape, MonthAssumption
    <3> QED BY <3>4, <3>5
  <2>5. CASE t.m # 0 /\ t.d = 0
    <3>1. t.m \in Month /\ t.y \in Year
      BY <1>3, <2>5, KnownShape
    <3>2. Latest(t) = Date(t.y, t.m, LastDay(t.y, t.m))
      BY <1>3, <2>5, Words DEF Latest
    <3>3. Before(Latest(t), when) <=> t.y < when.y \/ (t.y = when.y /\ t.m < when.m)
      <4>1. when.y = t.y /\ when.m = t.m => ~(LastDay(t.y, t.m) < when.d)
        BY <3>1, DayShape, DayAssumption
      <4> QED BY <3>2, <4>1, BeforeDate
    <3>4. Before(High(t), when) <=> t.y < when.y \/ (t.y = when.y /\ t.m < when.m)
      BY <2>2, <2>5, BeforeDate, DayShape
    <3> QED BY <3>3, <3>4
  <2>6. CASE t.m # 0 /\ t.d # 0
    <3>1. Latest(t) = t
      BY <1>3, <2>6, Words DEF Latest
    <3>2. High(t) = Date(t.y, t.m, t.d)
      BY <2>2, <2>6
    <3> QED BY <2>1, <3>1, <3>2
  <2> QED BY <2>4, <2>5, <2>6
<1> QED BY <1>1, <1>2, <1>3, Words

(* The same for the two ends of a position, with the strings it keeps.     *)
LEMMA PositionDates ==
    ASSUME NEW p, p.start \in Approximate, p.end \in Approximate, NEW when \in Day
    PROVE  /\ Before(when, SortingStart(p)) <=> Before(when, Earliest(p.start))
           /\ p.start # Past => (Before(when, StartString(p)) <=> Before(when, Earliest(p.start)))
           /\ p.start = Past => Before(when, StartString(p)) /\ ~Before(when, Earliest(p.start))
           /\ p.start = NoDate => ~Before(when, Earliest(p.start))
           /\ p.end # NoDate => (Before(High(SortingEnd(p)), when) <=> Before(Latest(p.end), when))
           /\ p.end \in {NoDate, Future} => ~Before(Latest(p.end), when)
<1>1. Before(when, p.start) <=> Before(when, Earliest(p.start))
  BY StartsAgree
<1>2. Before(when, SortingStart(p)) <=> Before(when, Earliest(p.start))
  <2>1. CASE p.start = Future /\ p.end = NoDate
    <3>1. Before(when, Date(9999, 0, 0)) /\ Before(when, Date(9999, 12, 31))
      BY BeforeDate, DayShape
    <3>2. SortingStart(p) = Date(9999, 0, 0) /\ Earliest(p.start) = Date(9999, 12, 31)
      BY <2>1, Words DEF SortingStart, AFuture, Earliest, MaxDay
    <3> QED BY <3>1, <3>2
  <2>2. CASE ~(p.start = Future /\ p.end = NoDate)
    BY <1>1, <2>2 DEF SortingStart
  <2> QED BY <2>1, <2>2
<1>3. p.start # Past => (Before(when, StartString(p)) <=> Before(when, Earliest(p.start)))
  BY <1>1 DEF StartString
<1>4. Before(when, Date(10001, 0, 0)) /\ ~Before(when, MinDay) /\ ~Before(MaxDay, when)
  BY BeforeDate, DayShape, MonthAssumption DEF MinDay, MaxDay
<1>5. p.start = Past => Before(when, StartString(p)) /\ ~Before(when, Earliest(p.start))
  BY <1>4 DEF StartString, Earliest
<1>6. p.start = NoDate => ~Before(when, Earliest(p.start))
  BY <1>4 DEF Earliest
<1>7. p.end # NoDate => (Before(High(SortingEnd(p)), when) <=> Before(Latest(p.end), when))
  BY EndsAgree DEF SortingEnd
<1>8. p.end \in {NoDate, Future} => ~Before(Latest(p.end), when)
  BY <1>4, Words DEF Latest
<1> QED BY <1>2, <1>3, <1>5, <1>6, <1>7, <1>8

(* Whatever the calendar, the queries of PositionQuerySet and              *)
(* is_active_at_date, which compare the strings of _set_sorting_dates,     *)
(* answer what approximate_date_to_date says of the days.                  *)
THEOREM QueriesAgree ==
    ASSUME NEW p, p.start \in Approximate, p.end \in Approximate
    PROVE  QueriesMeanDays(p)
<1> SUFFICES ASSUME NEW when \in Day
             PROVE  /\ Active(p, when) <=> UpTo(Earliest(p.start), when) /\ UpTo(when, Latest(p.end))
                    /\ Previous(p, when) <=> Before(Latest(p.end), when)
                    /\ Coming(p, when) <=> Before(when, Earliest(p.start))
                    /\ Inactive(p, when) <=> ~Active(p, when) \/ p.start = Past
                    /\ p.start # NoDate /\ p.end # NoDate
                        => (ActiveAt(p, when) <=> Active(p, when))
  BY DEF QueriesMeanDays
<1>1. Active(p, when) <=> UpTo(Earliest(p.start), when) /\ UpTo(when, Latest(p.end))
  BY PositionDates DEF Active, UpTo
<1>2. Previous(p, when) <=> Before(Latest(p.end), when)
  BY PositionDates DEF Previous, EndsBefore
<1>3. Coming(p, when) <=> Before(when, Earliest(p.start))
  BY PositionDates DEF Coming
<1>4. Inactive(p, when) <=> ~Active(p, when) \/ p.start = Past
  BY <1>1, PositionDates DEF Inactive, EndsBefore, UpTo
<1>5. p.start # NoDate /\ p.end # NoDate => (ActiveAt(p, when) <=> Active(p, when))
  BY PositionDates DEF ActiveAt, Active, UpTo
<1> QED BY <1>1, <1>2, <1>3, <1>4, <1>5

(* And a range of days overlaps a position, for overlapping_dates, if and  *)
(* only if approximate_date_to_date leaves a day they may share.           *)
THEOREM OverlapsAgree ==
    ASSUME NEW p, p.start \in Approximate, p.end \in Approximate
    PROVE  OverlapsMeanDays(p)
<1> SUFFICES ASSUME NEW from \in Day, NEW to \in Day
             PROVE  Overlapping(p, from, to)
                        <=> UpTo(Earliest(p.start), to) /\ UpTo(from, Latest(p.end))
  BY DEF OverlapsMeanDays
<1>1. p.start \in {NoDate, Past} \/ UpTo(SortingStart(p), to) <=> UpTo(Earliest(p.start), to)
  BY PositionDates DEF UpTo
<1>2. p.end \in {NoDate, Future} \/ UpTo(from, High(SortingEnd(p))) <=> UpTo(from, Latest(p.end))
  BY PositionDates DEF UpTo
<1> QED BY <1>1, <1>2 DEF Overlapping

(* So they do for every row that the commands may leave: for rows of the   *)
(* right type, an invariant of the runs, the invariant RowsMeanDays.       *)
THEOREM RowsAgree == TypeOK => RowsMeanDays
<1> SUFFICES ASSUME TypeOK, NEW p \in Dates
             PROVE  p \in Meaningful
  BY DEF RowsMeanDays
<1>1. PICK i \in DOMAIN pos : p = [start |-> pos[i].start, end |-> pos[i].end]
  BY DEF Dates
<1>2. pos[i] \in Row
  BY DEF TypeOK
<1>3. p \in AllDates /\ p.start \in Approximate /\ p.end \in Approximate
  BY <1>1, <1>2 DEF Row, AllDates
<1>4. QueriesMeanDays(p) /\ OverlapsMeanDays(p)
  BY <1>3, QueriesAgree, OverlapsAgree
<1> QED BY <1>3, <1>4 DEF Meaningful

(* The items there may be when a command runs: those of --fix name rows    *)
(* that are there; those of the other commands name rows that were there   *)
(* once, and candidates to be added that are published.                    *)
Plain ==
    {x \in Item : /\ x.op # "fix"
                  /\ x.op \in {"save", "switch", "code", "delete"} => x.id \in 1..lastId
                  /\ x.op \in {"code", "add"} => x.code \in DOMAIN feed}
Fixes == {x \in Item : x.op = "fix" /\ x.id \in DOMAIN pos}
WorkFor(name) == IF name = "fix" THEN Fixes ELSE Plain
Work == WorkFor(job)
Sound(x) ==
    /\ x.op = "fix" <=> job = "fix"
    /\ x.op = "fix" => x.id \in DOMAIN pos
    /\ x.op \in {"save", "switch", "code", "delete"} => x.id \in 1..lastId
    /\ x.op \in {"code", "add"} => x.code \in DOMAIN feed

TypeInv ==
    /\ TypeOK
    /\ DayBefore(today) \in Day
    /\ job \in Command \cup {None}
    /\ job = None => todo = {} /\ next = <<>>
    /\ todo \subseteq [loop : 1..3, item : Work]
    /\ next \in Seq(Work)
    /\ note \in [quiet : BOOLEAN, last : Command \cup {None}, rounds : Nat, owed : SUBSET Person]

-----------------------------------------------------------------------------
(* What an item consists of, by its kind.                                  *)
LEMMA Kinds ==
    ASSUME NEW x \in Item
    PROVE  /\ x.op \in {"save", "switch", "code"} => x.id \in Nat /\ x.row \in Row
           /\ x.op = "code" => x.code \in Code
           /\ x.op = "new" => x.row \in Row
           /\ x.op \in {"delete", "fix"} => x.id \in Nat
           /\ x.op = "parties" => x.who \in Person /\ x.party \in Parties
           /\ x.op = "stand" => x.who \in Person /\ x.code \in Code
           /\ x.op = "join" => x.who \in Person /\ x.org \in Coalition
           /\ x.op \in {"member", "extend"} => x.who \in Person
           /\ x.op = "add" => x.code \in Code
           /\ x.op \in {"save", "switch", "code", "new", "delete", "fix", "parties", "stand",
                        "join", "member", "extend", "add", "endAspirants"}
<1>1. CASE x \in [op : {"save", "switch"}, id : Nat, row : Row]
  BY <1>1
<1>2. CASE x \in [op : {"code"}, id : Nat, row : Row, code : Code]
  BY <1>2
<1>3. CASE x \in [op : {"new"}, row : Row]
  BY <1>3
<1>4. CASE x \in [op : {"delete", "fix"}, id : Nat]
  BY <1>4
<1>5. CASE x \in [op : {"parties"}, who : Person, party : Parties]
  BY <1>5
<1>6. CASE x \in [op : {"stand"}, who : Person, code : Code]
  BY <1>6
<1>7. CASE x \in [op : {"join"}, who : Person, org : Coalition]
  BY <1>7
<1>8. CASE x \in [op : {"member", "extend"}, who : Person]
  BY <1>8
<1>9. CASE x \in [op : {"add"}, code : Code]
  BY <1>9
<1>10. CASE x \in [op : {"endAspirants"}]
  BY <1>10
<1> QED BY <1>1, <1>2, <1>3, <1>4, <1>5, <1>6, <1>7, <1>8, <1>9, <1>10 DEF Item

(* And the items that the commands put together are such items.            *)
LEMMA Made ==
    /\ \A i \in Nat, row \in Row : Save(i, row) \in Item
    /\ \A i \in Nat, row \in Row : [op |-> "switch", id |-> i, row |-> row] \in Item
    /\ \A i \in Nat, row \in Row, c \in Code :
            [op |-> "code", id |-> i, row |-> row, code |-> c] \in Item
    /\ \A row \in Row : New(row) \in Item
    /\ \A i \in Nat : Delete(i) \in Item /\ [op |-> "fix", id |-> i] \in Item
    /\ \A w \in Person, p \in Parties : Update(w, p) \in Item
    /\ \A w \in Person, c \in Code : [op |-> "stand", code |-> c, who |-> w] \in Item
    /\ \A w \in Person, c \in Coalition : Join(w, c) \in Item
    /\ \A w \in Person : [op |-> "member", who |-> w] \in Item /\ [op |-> "extend", who |-> w] \in Item
    /\ \A c \in Code : [op |-> "add", code |-> c] \in Item
    /\ [op |-> "endAspirants"] \in Item
<1>1. /\ \A i \in Nat, row \in Row : Save(i, row) \in Item
      /\ \A i \in Nat, row \in Row : [op |-> "switch", id |-> i, row |-> row] \in Item
  BY DEF Save, Item
<1>2. \A i \in Nat, row \in Row, c \in Code : [op |-> "code", id |-> i, row |-> row, code |-> c] \in Item
  BY DEF Item
<1>3. \A row \in Row : New(row) \in Item
  BY DEF New, Item
<1>4. \A i \in Nat : Delete(i) \in Item /\ [op |-> "fix", id |-> i] \in Item
  BY DEF Delete, Item
<1>5. \A w \in Person, p \in Parties : Update(w, p) \in Item
  BY DEF Update, Item
<1>6. \A w \in Person, c \in Code : [op |-> "stand", code |-> c, who |-> w] \in Item
  BY DEF Item
<1>7. \A w \in Person, c \in Coalition : Join(w, c) \in Item
  BY DEF Join, Item
<1>8. \A w \in Person : [op |-> "member", who |-> w] \in Item /\ [op |-> "extend", who |-> w] \in Item
  BY DEF Item
<1>9. (\A c \in Code : [op |-> "add", code |-> c] \in Item) /\ [op |-> "endAspirants"] \in Item
  BY DEF Item
<1> QED BY <1>1, <1>2, <1>3, <1>4, <1>5, <1>6, <1>7, <1>8, <1>9

LEMMA Numbered ==
  ASSUME NEW T, IsFiniteSet(T)
  PROVE  /\ Cardinality(T) \in Nat
         /\ SetToSeq(T) \in [1..Cardinality(T) -> T]
         /\ \A x \in T : \E n \in 1..Cardinality(T) : SetToSeq(T)[n] = x
<1>1. Cardinality(T) \in Nat /\ ExistsBijection(1..Cardinality(T), T)
  BY FS_CardinalityType
<1>2. \E f \in [1..Cardinality(T) -> T] : IsInjective(f)
  BY <1>1 DEF ExistsBijection, Bijection, Injection
<1>3. SetToSeq(T) \in [1..Cardinality(T) -> T] /\ IsInjective(SetToSeq(T))
  BY <1>2 DEF SetToSeq
<1>4. SetToSeq(T) \in Injection(1..Cardinality(T), T)
  BY <1>3 DEF Injection
<1>5. IsFiniteSet(1..Cardinality(T)) /\ Cardinality(1..Cardinality(T)) = Cardinality(T)
  BY <1>1, FS_Interval
<1>6. SetToSeq(T) \in Surjection(1..Cardinality(T), T)
  BY <1>4, <1>5, FS_Injection
<1> QED BY <1>1, <1>3, <1>6 DEF Surjection

-----------------------------------------------------------------------------
(* A row that is there, and the days a command writes into one.            *)
LEMMA Rows ==
    ASSUME TypeInv, NEW i \in DOMAIN pos
    PROVE  i \in 1..lastId /\ pos[i] \in Row /\ lastId \in Nat
BY DEF TypeInv, TypeOK

LEMMA DaysKnown ==
    ASSUME NEW t \in Day
    PROVE  /\ t \in Approximate /\ t \in Known
           /\ Latest(t) = t /\ Earliest(t) = t
           /\ t # NoDate /\ t # Past /\ t # Future
<1>1. /\ t \in [y : Year, m : Month, d : 1..31] /\ RealDay(t)
      /\ t.m # 0 /\ t.d # 0
  BY MonthAssumption DEF Day, Month
<1>2. t \in [y : Year, m : 0..LastMonth, d : 0..31]
  <2>1. t.y \in Year /\ t.m \in 1..LastMonth /\ t.d \in 1..31 /\ t = [y |-> t.y, m |-> t.m, d |-> t.d]
    BY <1>1 DEF Month
  <2>2. t.m \in 0..LastMonth /\ t.d \in 0..31
    BY <2>1, MonthAssumption
  <2> QED BY <2>1, <2>2
<1>3. t \in Approximate
  BY <1>1, <1>2 DEF Approximate
<1>4. t # NoDate /\ t # Past /\ t # Future
  BY <1>1 DEF NoDate, Past, Future, Date
<1>5. t = Date(t.y, t.m, t.d)
  BY <1>1 DEF Date
<1> QED BY <1>1, <1>3, <1>4, <1>5 DEF Known, Latest, Earliest

LEMMA DaysWritten ==
    ASSUME TypeInv
    PROVE  /\ today \in Approximate /\ Yesterday \in Approximate /\ Yesterday \in Day
           /\ NoDate \in Approximate /\ Future \in Approximate
           /\ SwitchDay \in Approximate /\ [SwitchDay EXCEPT !.d = @ - 1] \in Approximate
<1>1. today \in Day /\ Yesterday \in Day
  BY DEF TypeInv, TypeOK, Yesterday
<1>2. SwitchDay \in Day /\ SwitchDay.d > 1
  BY PositionAssumption
<1>3. [SwitchDay EXCEPT !.d = @ - 1] \in Day
  <2>1. SwitchDay.d - 1 \in 1..31 /\ SwitchDay.d - 1 <= LastDay(SwitchDay.y, SwitchDay.m)
    <3>1. SwitchDay.m \in Month /\ SwitchDay.y \in Year
      BY <1>2, DayShape
    <3>2. LastDay(SwitchDay.y, SwitchDay.m) \in Nat
      BY <3>1, DayAssumption
    <3> QED BY <1>2, <3>2, DayShape
  <2>2. SwitchDay \in [y : Year, m : Month, d : 1..31]
    BY <1>2 DEF Day
  <2>3. [SwitchDay EXCEPT !.d = @ - 1] \in [y : Year, m : Month, d : 1..31]
    BY <2>1, <2>2
  <2>4. RealDay([SwitchDay EXCEPT !.d = @ - 1])
    BY <2>1, <2>2 DEF RealDay
  <2> QED BY <2>3, <2>4 DEF Day
<1> QED BY <1>1, <1>2, <1>3, DaysKnown, Words

(* What a save leaves as it was, but for --fix.                            *)
Key(row) == <<row.who, row.org, row.title, row.start>>

(* What every command but --fix may put together from the rows that it     *)
(* reads: a row keeps its key, but that new ones are made.                 *)
Closed(S) ==
    /\ \A i \in DOMAIN pos, row \in Row :
            Key(row) = Key(pos[i]) =>
                /\ Save(i, row) \in S
                /\ [op |-> "switch", id |-> i, row |-> row] \in S
                /\ \A c \in DOMAIN feed : [op |-> "code", id |-> i, row |-> row, code |-> c] \in S
    /\ \A i \in DOMAIN pos : Delete(i) \in S
    /\ \A row \in Row : New(row) \in S
    /\ \A w \in Person, p \in Parties : Update(w, p) \in S
    /\ \A w \in Person, c \in Code : [op |-> "stand", code |-> c, who |-> w] \in S
    /\ \A w \in Person, c \in Coalition : Join(w, c) \in S
    /\ \A w \in Person : [op |-> "member", who |-> w] \in S /\ [op |-> "extend", who |-> w] \in S
    /\ \A c \in DOMAIN feed : [op |-> "add", code |-> c] \in S
    /\ [op |-> "endAspirants"] \in S

LEMMA Published ==
    ASSUME TypeInv, NEW c \in DOMAIN feed
    PROVE  c \in Code /\ feed[c].who \in Person /\ feed[c].party \in Parties
BY FeedAssumption DEF TypeInv, TypeOK

LEMMA PlainClosed == TypeInv => Closed(Plain)
<1> SUFFICES ASSUME TypeInv PROVE Closed(Plain)
  OBVIOUS
<1>1. \A i \in DOMAIN pos : i \in 1..lastId /\ i \in Nat
  BY Rows
<1>2. \A c \in DOMAIN feed : c \in Code
  BY Published
<1>3. \A i \in DOMAIN pos, row \in Row :
        /\ Save(i, row) \in Plain
        /\ [op |-> "switch", id |-> i, row |-> row] \in Plain
        /\ Delete(i) \in Plain
  <2> SUFFICES ASSUME NEW i \in DOMAIN pos, NEW row \in Row
               PROVE  /\ Save(i, row) \in Plain
                      /\ [op |-> "switch", id |-> i, row |-> row] \in Plain
                      /\ Delete(i) \in Plain
    OBVIOUS
  <2>1. Save(i, row) \in Item /\ [op |-> "switch", id |-> i, row |-> row] \in Item /\ Delete(i) \in Item
    BY <1>1, Made
  <2> QED BY <1>1, <2>1 DEF Plain, Save, Delete
<1>4. \A i \in DOMAIN pos, row \in Row, c \in DOMAIN feed :
        [op |-> "code", id |-> i, row |-> row, code |-> c] \in Plain
  <2> SUFFICES ASSUME NEW i \in DOMAIN pos, NEW row \in Row, NEW c \in DOMAIN feed
               PROVE  [op |-> "code", id |-> i, row |-> row, code |-> c] \in Plain
    OBVIOUS
  <2>1. [op |-> "code", id |-> i, row |-> row, code |-> c] \in Item
    BY <1>1, <1>2, Made
  <2> QED BY <1>1, <2>1 DEF Plain
<1>5. \A row \in Row : New(row) \in Plain
  BY Made DEF Plain, New
<1>6. \A w \in Person, p \in Parties : Update(w, p) \in Plain
  BY Made DEF Plain, Update
<1>7. \A w \in Person, c \in Code : [op |-> "stand", code |-> c, who |-> w] \in Plain
  BY Made DEF Plain
<1>8. \A w \in Person, c \in Coalition : Join(w, c) \in Plain
  BY Made DEF Plain, Join
<1>9. \A w \in Person : [op |-> "member", who |-> w] \in Plain /\ [op |-> "extend", who |-> w] \in Plain
  BY Made DEF Plain
<1>10. (\A c \in DOMAIN feed : [op |-> "add", code |-> c] \in Plain) /\ [op |-> "endAspirants"] \in Plain
  BY <1>2, Made DEF Plain
<1>11. \A i \in DOMAIN pos : Delete(i) \in Plain
  <2> SUFFICES ASSUME NEW i \in DOMAIN pos PROVE Delete(i) \in Plain
    OBVIOUS
  <2>1. pos[i] \in Row
    BY Rows
  <2> QED BY <1>3, <2>1
<1> QED BY <1>3, <1>4, <1>5, <1>6, <1>7, <1>8, <1>9, <1>10, <1>11 DEF Closed

LEMMA FewRows ==
    ASSUME TypeInv, NEW ids \in SUBSET DOMAIN pos
    PROVE  IsFiniteSet(ids)
<1>1. lastId \in Nat /\ ids \subseteq 1..lastId
  BY DEF TypeInv, TypeOK
<1>2. IsFiniteSet(1..lastId)
  BY <1>1, FS_Interval
<1> QED BY <1>1, <1>2, FS_Subset

LEMMA EndsTyped ==
    ASSUME TypeInv, NEW S, Closed(S), NEW ids \in SUBSET DOMAIN pos, NEW end \in Approximate
    PROVE  EndAll(ids, end) \in Seq(S)
<1>1. Cardinality(ids) \in Nat /\ SetToSeq(ids) \in [1..Cardinality(ids) -> ids]
  BY FewRows, Numbered
<1>2. \A i \in ids : Ended(i, end) \in S
  <2> SUFFICES ASSUME NEW i \in ids PROVE Ended(i, end) \in S
    OBVIOUS
  <2>1. i \in 1..lastId /\ pos[i] \in Row /\ lastId \in Nat
    BY Rows
  <2>2. [pos[i] EXCEPT !.end = end] \in Row /\ Key([pos[i] EXCEPT !.end = end]) = Key(pos[i])
    BY <2>1 DEF Row, Key
  <2> QED BY <2>1, <2>2 DEF Ended, Closed
<1>3. \A n \in 1..Cardinality(ids) : Ended(SetToSeq(ids)[n], end) \in S
  BY <1>1, <1>2
<1> QED BY <1>1, <1>3 DEF EndAll

LEMMA CurrentRows ==
    ASSUME NEW title, NEW orgs, NEW who
    PROVE  /\ Current(title) \subseteq DOMAIN pos
           /\ In(orgs, Of(who, Current(title))) \subseteq Current(title)
           /\ Of(who, Current(title)) \subseteq Current(title)
           /\ \A i \in In(orgs, Of(who, Current(title))) :
                pos[i].who = who /\ pos[i].org \in orgs /\ pos[i].title = title
BY DEF Current, In, Of

(* A row that a command writes.                                            *)
LEMMA Written ==
    ASSUME NEW w \in Person, NEW org \in Organisation, NEW title \in Title,
           NEW code \in Code \cup {None}, NEW start \in Approximate, NEW end \in Approximate
    PROVE  Position(w, org, title, code, start, end) \in Row
BY DEF Position, Row

LEMMA PartiesTyped ==
    ASSUME TypeInv, NEW S, Closed(S), NEW w \in Person, NEW p \in Parties
    PROVE  UpdateParties(w, p) \in Seq(S)
<1> DEFINE now == In(Parties, Of(w, Current("member")))
           right == In({p}, now)
           new == Position(w, p, "member", None, today, Future)
<1>1. now \subseteq DOMAIN pos /\ right \subseteq DOMAIN pos
  BY CurrentRows DEF In
<1>2. EndAll({i \in right : pos[i].end # Future}, Future) \in Seq(S)
  BY <1>1, EndsTyped, DaysWritten
<1>3. EndAll(now \ right, Yesterday) \in Seq(S)
  BY <1>1, EndsTyped, DaysWritten
<1>4. New(new) \in S
  <2>1. p \in Organisation /\ "member" \in Title
    BY DEF Organisation, Title
  <2>2. new \in Row
    BY <2>1, Written, DaysWritten
  <2> QED BY <2>2 DEF Closed
<1>5. <<>> \in Seq(S) /\ <<New(new)>> \in Seq(S)
  BY <1>4
<1> HIDE DEF now, right, new
<1>6. EndAll({i \in right : pos[i].end # Future}, Future)
             \o EndAll(now \ right, Yesterday)
             \o (IF right # {} THEN <<>> ELSE <<New(new)>>) \in Seq(S)
  BY <1>2, <1>3, <1>5
<1> QED BY <1>5, <1>6 DEF UpdateParties, now, right, new

LEMMA StandTyped ==
    ASSUME TypeInv, NEW S, Closed(S), NEW w \in Person, NEW c \in Code
    PROVE  Stand(c, w) \in Seq(S)
<1> DEFINE mine == Of(w, Race)
           wrong == {i \in mine : pos[i].code # c \/ pos[i].end # Future}
           new == Position(w, "kenya", "aspirant", c, today, Future)
           fixed(i) == Save(i, [pos[i] EXCEPT !.code = c, !.end = Future])
<1>1. wrong \subseteq DOMAIN pos
  BY CurrentRows DEF Race
<1>2. Cardinality(wrong) \in Nat /\ SetToSeq(wrong) \in [1..Cardinality(wrong) -> wrong]
  BY <1>1, FewRows, Numbered
<1>3. \A i \in DOMAIN pos : fixed(i) \in S
  <2> SUFFICES ASSUME NEW i \in DOMAIN pos PROVE fixed(i) \in S
    OBVIOUS
  <2>1. i \in 1..lastId /\ pos[i] \in Row /\ lastId \in Nat
    BY Rows
  <2>2. /\ [pos[i] EXCEPT !.code = c, !.end = Future] \in Row
        /\ Key([pos[i] EXCEPT !.code = c, !.end = Future]) = Key(pos[i])
    BY <2>1, DaysWritten DEF Row, Key
  <2> QED BY <2>1, <2>2 DEF Closed
<1>4. New(new) \in S
  <2>1. new \in Row
    <3>1. "kenya" \in Organisation /\ "aspirant" \in Title
      BY DEF Organisation, Title
    <3> QED BY <3>1, Written, DaysWritten
  <2> QED BY <2>1 DEF Closed
<1>5. <<New(new)>> \in Seq(S)
  BY <1>4
<1> HIDE DEF new, wrong, fixed
<1>6. \A n \in 1..Cardinality(wrong) : fixed(SetToSeq(wrong)[n]) \in S
  BY <1>1, <1>2, <1>3
<1>7. [n \in 1..Cardinality(wrong) |-> fixed(SetToSeq(wrong)[n])] \in Seq(S)
  BY <1>2, <1>6
<1> QED BY <1>5, <1>7 DEF Stand, new, wrong, fixed

LEMMA CodesTyped ==
    ASSUME TypeInv, NEW S, Closed(S), NEW c \in Code, c \in DOMAIN feed
    PROVE  SetCode(c) \in Seq(S)
<1> DEFINE rows == Unset(feed[c].who)
<1>1. rows \subseteq DOMAIN pos
  BY CurrentRows DEF Unset, Race
<1>2. Cardinality(rows) \in Nat /\ SetToSeq(rows) \in [1..Cardinality(rows) -> rows]
  BY <1>1, FewRows, Numbered
<1>3. \A i \in DOMAIN pos : WithCode(i, c) \in S
  <2> SUFFICES ASSUME NEW i \in DOMAIN pos PROVE WithCode(i, c) \in S
    OBVIOUS
  <2>1. i \in 1..lastId /\ pos[i] \in Row /\ lastId \in Nat
    BY Rows
  <2> QED BY <2>1 DEF WithCode, Closed
<1> HIDE DEF rows
<1>4. \A n \in 1..Cardinality(rows) : WithCode(SetToSeq(rows)[n], c) \in S
  BY <1>1, <1>2, <1>3
<1>5. [n \in 1..Cardinality(rows) |-> WithCode(SetToSeq(rows)[n], c)] \in Seq(S)
  BY <1>2, <1>4
<1> QED BY <1>5 DEF SetCode, rows

LEMMA GetTyped ==
    ASSUME TypeInv, NEW S, Closed(S), NEW i \in Nat, NEW row \in Row,
           \A r \in Row : Key(r) = Key(row) => Save(i, r) \in S, NEW c \in DOMAIN feed
    PROVE  GetCode(i, row, c) \in Seq(S)
<1>1. c \in Code /\ feed[c].party \in Parties
  BY Published
<1>2. [row EXCEPT !.code = c] \in Row /\ Key([row EXCEPT !.code = c]) = Key(row) /\ row.who \in Person
  BY <1>1 DEF Row, Key
<1>3. Save(i, [row EXCEPT !.code = c]) \in S /\ Update(row.who, feed[c].party) \in S
  BY <1>1, <1>2 DEF Closed
<1> QED BY <1>3 DEF GetCode

(* The coalitions of the parties a person is in.                           *)
Due(w) == {CoalitionOf[pos[i].org] : i \in In(Party, Of(w, Current("member")))} \ {None}
PartyRows(w) == {i \in In(Party, Of(w, Current("member"))) : CoalitionOf[pos[i].org] # None}

LEMMA JoinsTyped ==
    ASSUME TypeInv, NEW S, Closed(S), NEW w \in Person
    PROVE  /\ Joins(w) \in Seq(S)
           /\ \A n \in 1..Len(Joins(w)) : \E c \in Due(w) : Joins(w)[n] = Join(w, c)
           /\ \A c \in Due(w) : \E n \in 1..Len(Joins(w)) : Joins(w)[n] = Join(w, c)
<1>1. PartyRows(w) \subseteq DOMAIN pos
  BY CurrentRows DEF PartyRows
<1>2. /\ Cardinality(PartyRows(w)) \in Nat
      /\ SetToSeq(PartyRows(w)) \in [1..Cardinality(PartyRows(w)) -> PartyRows(w)]
      /\ \A x \in PartyRows(w) : \E n \in 1..Cardinality(PartyRows(w)) : SetToSeq(PartyRows(w))[n] = x
  BY <1>1, FewRows, Numbered
<1>3. \A i \in PartyRows(w) :
        /\ CoalitionOf[pos[i].org] \in Coalition
        /\ CoalitionOf[pos[i].org] \in Due(w)
        /\ Join(w, CoalitionOf[pos[i].org]) \in S
  <2> SUFFICES ASSUME NEW i \in PartyRows(w)
               PROVE  /\ CoalitionOf[pos[i].org] \in Coalition
                      /\ CoalitionOf[pos[i].org] \in Due(w)
                      /\ Join(w, CoalitionOf[pos[i].org]) \in S
    OBVIOUS
  <2>1. i \in In(Party, Of(w, Current("member"))) /\ pos[i].org \in Party /\ CoalitionOf[pos[i].org] # None
    BY DEF PartyRows, In
  <2>2. CoalitionOf[pos[i].org] \in Coalition
    BY <2>1 DEF Coalition
  <2>3. CoalitionOf[pos[i].org] \in Due(w)
    BY <2>1 DEF Due
  <2> QED BY <2>2, <2>3 DEF Closed
<1> DEFINE k == Cardinality(PartyRows(w))
           at(n) == SetToSeq(PartyRows(w))[n]
<1>4. Joins(w) = [n \in 1..k |-> Join(w, CoalitionOf[pos[at(n)].org])]
  BY DEF Joins, PartyRows
<1>5. /\ k \in Nat
      /\ \A n \in 1..k : at(n) \in PartyRows(w)
      /\ \A x \in PartyRows(w) : \E n \in 1..k : at(n) = x
  BY <1>2
<1> HIDE DEF k, at
<1>6. Joins(w) \in Seq(S) /\ Len(Joins(w)) = k
  BY <1>3, <1>4, <1>5
<1>7. \A n \in 1..k : \E c \in Due(w) : Joins(w)[n] = Join(w, c)
  BY <1>3, <1>4, <1>5
<1>8. \A c \in Due(w) : \E n \in 1..k : Joins(w)[n] = Join(w, c)
  <2> SUFFICES ASSUME NEW c \in Due(w) PROVE \E n \in 1..k : Joins(w)[n] = Join(w, c)
    OBVIOUS
  <2>1. PICK i \in PartyRows(w) : c = CoalitionOf[pos[i].org]
    BY DEF Due, PartyRows
  <2>2. PICK n \in 1..k : at(n) = i
    BY <1>5
  <2> QED BY <1>4, <2>1, <2>2
<1> QED BY <1>6, <1>7, <1>8

LEMMA SwitchTyped ==
    ASSUME TypeInv, NEW S, Closed(S), NEW i \in Nat, NEW row \in Row,
           \A r \in Row : Key(r) = Key(row) => Save(i, r) \in S
    PROVE  Switch(i, row) \in Seq(S)
<1>1. PICK end \in Approximate : end = [SwitchDay EXCEPT !.d = @ - 1]
  BY DaysWritten
<1>2. Union \in Organisation
  BY PositionAssumption DEF Organisation, Parties
<1>3. [row EXCEPT !.end = NoDate, !.start = SwitchDay, !.org = Union] \in Row
  BY <1>2, DaysWritten DEF Row
<1>4. [row EXCEPT !.end = end] \in Row /\ Key([row EXCEPT !.end = end]) = Key(row)
  BY DEF Row, Key
<1>5. /\ Save(i, [row EXCEPT !.end = end]) \in S
      /\ New([row EXCEPT !.end = NoDate, !.start = SwitchDay, !.org = Union]) \in S
  BY <1>3, <1>4 DEF Closed
<1> QED BY <1>1, <1>5 DEF Switch

LEMMA ExtendTyped ==
    ASSUME TypeInv, NEW S, Closed(S), NEW i \in DOMAIN pos
    PROVE  Extend(i) \in Seq(S)
<1>1. i \in 1..lastId /\ pos[i] \in Row /\ lastId \in Nat
  BY Rows
<1>2. [pos[i] EXCEPT !.end = Future] \in Row /\ Key([pos[i] EXCEPT !.end = Future]) = Key(pos[i])
  BY <1>1, DaysWritten DEF Row, Key
<1>3. Ended(i, Future) \in S
  BY <1>1, <1>2 DEF Ended, Closed
<1> QED BY <1>3 DEF Extend

-----------------------------------------------------------------------------
(* What a step of a command leaves of the work.                            *)
LEMMA InHand ==
    ASSUME TypeInv, NEW item \in Items
    PROVE  /\ item \in Work /\ item \in Item /\ Sound(item)
           /\ job # None /\ job \in Command
           /\ job # "fix" => Closed(Work)
           /\ Left(item) \subseteq todo
           /\ Rest \in Seq(Work)
<1>1. next \in Seq(Work) /\ todo \subseteq [loop : 1..3, item : Work]
  BY DEF TypeInv
<1>2. item \in Work
  <2>1. CASE next # <<>>
    <3>1. item = Head(next)
      BY <2>1 DEF Items
    <3> QED BY <1>1, <2>1, <3>1
  <2>2. CASE next = <<>>
    <3>1. PICK t \in todo : item = t.item
      BY <2>2 DEF Items, First
    <3> QED BY <1>1, <3>1
  <2> QED BY <2>1, <2>2
<1>3. next # <<>> \/ todo # {}
  BY DEF Items, First
<1>4. job # None /\ job \in Command
  BY <1>3 DEF TypeInv
<1>5. Left(item) \subseteq todo
  BY DEF Left
<1>6. Rest \in Seq(Work)
  BY <1>1 DEF Rest
<1>7. item \in Item /\ Sound(item)
  <2>1. CASE job = "fix"
    BY <1>2, <2>1 DEF Work, WorkFor, Fixes, Sound
  <2>2. CASE job # "fix"
    BY <1>2, <2>2 DEF Work, WorkFor, Plain, Sound
  <2> QED BY <2>1, <2>2
<1>8. job # "fix" => Closed(Work)
  BY PlainClosed DEF Work, WorkFor
<1> QED BY <1>2, <1>4, <1>5, <1>6, <1>7, <1>8

LEMMA TookTyped ==
    ASSUME TypeInv, NEW item \in Items, NEW more \in Seq(Work), Took(item, more)
    PROVE  next' \in Seq(Work) /\ todo' \subseteq [loop : 1..3, item : Work]
<1>1. Rest \in Seq(Work) /\ Left(item) \subseteq todo
  BY InHand
<1>2. next' = more \o Rest /\ todo' = Left(item)
  BY DEF Took
<1> QED BY <1>1, <1>2 DEF TypeInv

LEMMA WorkStays ==
    ASSUME TypeInv, job' = job, feed' = feed, lastId' \in Nat, lastId <= lastId',
           job = "fix" => DOMAIN pos \subseteq DOMAIN pos'
    PROVE  Work \subseteq Work'
<1>1. lastId \in Nat
  BY DEF TypeInv, TypeOK
<1>2. 1..lastId \subseteq 1..lastId'
  BY <1>1
<1>3. Plain \subseteq Plain'
  BY <1>2 DEF Plain
<1>4. job = "fix" => Fixes \subseteq Fixes'
  BY DEF Fixes
<1> QED BY <1>3, <1>4 DEF Work, WorkFor

LEMMA WiderSeq ==
    ASSUME NEW S, NEW T, S \subseteq T, NEW s \in Seq(S)
    PROVE  s \in Seq(T)
OBVIOUS

(* A step of a command keeps the types, if the rows it writes are rows and *)
(* the work it leaves is work.                                             *)
LEMMA StepTypes ==
    ASSUME TypeInv,
           lastId' \in Nat, lastId <= lastId',
           DOMAIN pos' \subseteq 1..lastId', pos' \in [DOMAIN pos' -> Row],
           job = "fix" => DOMAIN pos \subseteq DOMAIN pos',
           people' \subseteq Person, feed' = feed, today' = today,
           job' = job, next' \in Seq(Work), todo' \subseteq [loop : 1..3, item : Work], job # None,
           note' \in [quiet : BOOLEAN, last : Command \cup {None}, rounds : Nat, owed : SUBSET Person]
    PROVE  TypeInv'
<1>1. Work \subseteq Work'
  BY WorkStays
<1>2. next' \in Seq(Work') /\ todo' \subseteq [loop : 1..3, item : Work']
  BY <1>1, WiderSeq
<1>3. Work' \subseteq Item
  BY DEF Work, WorkFor, Plain, Fixes
<1>4. next' \in Seq(Item) /\ todo' \subseteq [loop : 1..3, item : Item]
  BY <1>2, <1>3, WiderSeq
<1>5. feed' \in Feeds /\ today' \in Day /\ note'.rounds \in Nat
  BY DEF TypeInv, TypeOK
<1>6. TypeOK'
  BY <1>4, <1>5 DEF TypeOK
<1>7. DayBefore(today)' \in Day /\ job' \in Command \cup {None}
  BY DEF TypeInv, DayBefore
<1> QED BY <1>2, <1>6, <1>7 DEF TypeInv

(* And so does one that ends the command.                                  *)
LEMMA EndTypes ==
    ASSUME TypeInv,
           UNCHANGED <<pos, lastId, people, feed, today>>,
           job' = None, next' = <<>>, todo' = {},
           note' \in [quiet : BOOLEAN, last : Command \cup {None}, rounds : Nat, owed : SUBSET Person]
    PROVE  TypeInv'
<1>1. next' \in Seq(Work') /\ next' \in Seq(Item)
  BY DEF Work, WorkFor, Plain, Fixes
<1>2. note'.rounds \in Nat
  OBVIOUS
<1>3. TypeOK'
  BY <1>1, <1>2 DEF TypeInv, TypeOK
<1>4. DayBefore(today)' \in Day
  BY DEF TypeInv, DayBefore
<1> QED BY <1>1, <1>3, <1>4 DEF TypeInv

LEMMA PutTyped ==
    ASSUME TypeInv, NEW i \in Nat, NEW row \in Row
    PROVE  /\ DOMAIN Put(i, row) = DOMAIN pos \cup {i}
           /\ Put(i, row) \in [DOMAIN pos \cup {i} -> Row]
           /\ Put(i, row)[i] = row
           /\ \A j \in DOMAIN pos : j # i => Put(i, row)[j] = pos[j]
BY DEF Put, TypeInv, TypeOK

LEMMA PutMade ==
    ASSUME TypeInv, NEW i \in Nat, NEW row \in Row, pos' = Put(i, row)
    PROVE  /\ DOMAIN pos' = DOMAIN pos \cup {i} /\ pos'[i] = row
           /\ \A j \in DOMAIN pos : j # i => pos'[j] = pos[j]
BY PutTyped, ZenonT(30)

LEMMA WriteTyped ==
    ASSUME TypeInv, NEW item \in Items, Write(item)
    PROVE  TypeInv'
<1>1. item \in Item /\ Sound(item) /\ job # None
  BY InHand
<1>2. <<>> \in Seq(Work) /\ Took(item, <<>>)
  BY DEF Write
<1>3. next' \in Seq(Work) /\ todo' \subseteq [loop : 1..3, item : Work]
  BY <1>2, TookTyped
<1>4. UNCHANGED <<people, feed, today, job, note>>
  BY DEF Write
<1>5. /\ lastId \in Nat /\ DOMAIN pos \subseteq 1..lastId /\ pos \in [DOMAIN pos -> Row]
      /\ people \subseteq Person
      /\ note \in [quiet : BOOLEAN, last : Command \cup {None}, rounds : Nat, owed : SUBSET Person]
  BY DEF TypeInv, TypeOK
<1>6. item.op # "fix" => job # "fix"
  BY <1>1 DEF Sound
<1>7. CASE item.op = "save" /\ pos' = Put(item.id, item.row) /\ UNCHANGED lastId
  <2>1. item.id \in Nat /\ item.row \in Row /\ item.id \in 1..lastId
    BY <1>1, <1>7, Kinds DEF Sound
  <2>2. DOMAIN pos' = DOMAIN pos \cup {item.id} /\ pos' \in [DOMAIN pos' -> Row]
    BY <1>7, <2>1, PutTyped
  <2>3. DOMAIN pos' \subseteq 1..lastId
    BY <1>5, <2>1, <2>2
  <2> QED BY <1>1, <1>3, <1>4, <1>5, <1>6, <1>7, <2>2, <2>3, StepTypes
<1>8. CASE item.op = "new" /\ pos' = Put(lastId + 1, item.row) /\ lastId' = lastId + 1
  <2>1. item.row \in Row /\ lastId + 1 \in Nat
    BY <1>1, <1>5, <1>8, Kinds
  <2>2. DOMAIN pos' = DOMAIN pos \cup {lastId + 1} /\ pos' \in [DOMAIN pos' -> Row]
    <3>1. PICK k \in Nat, row \in Row : k = lastId + 1 /\ row = item.row
      BY <2>1
    <3>2. pos' = Put(k, row)
      BY <1>8, <3>1
    <3>3. DOMAIN pos' = DOMAIN pos \cup {k} /\ pos' \in [DOMAIN pos \cup {k} -> Row]
      BY <3>2, PutTyped
    <3> QED BY <3>1, <3>3
  <2>3. DOMAIN pos' \subseteq 1..lastId' /\ lastId' \in Nat /\ lastId <= lastId'
    BY <1>5, <1>8, <2>2
  <2> QED BY <1>1, <1>3, <1>4, <1>5, <1>6, <1>8, <2>2, <2>3, StepTypes
<1>9. CASE item.op = "delete" /\ pos' = [i \in DOMAIN pos \ {item.id} |-> pos[i]] /\ UNCHANGED lastId
  <2>1. DOMAIN pos' = DOMAIN pos \ {item.id} /\ \A i \in DOMAIN pos' : pos'[i] = pos[i]
    BY <1>9
  <2>2. DOMAIN pos' \subseteq 1..lastId
    BY <1>5, <2>1
  <2>3. \A i \in DOMAIN pos' : pos'[i] \in Row
    BY <1>5, <2>1
  <2>4. pos' \in [DOMAIN pos' -> Row]
    BY <1>9, <2>3
  <2> QED BY <1>1, <1>3, <1>4, <1>5, <1>6, <1>9, <2>2, <2>4, StepTypes
<1> QED BY <1>7, <1>8, <1>9 DEF Write

(* An item that may name a row is there to save it as it was, but for what *)
(* is to change.                                                           *)
Saves(S, item) ==
    item.op \in {"save", "switch", "code"} =>
        \A row \in Row : Key(row) = Key(item.row) => Save(item.id, row) \in S

(* What an item becomes is among what a command may put together.          *)
LEMMA ReadTakes ==
    ASSUME TypeInv, job # "fix", NEW S, Closed(S), NEW item \in Items, Saves(S, item), Read(item)
    PROVE  \E more \in Seq(S) : Took(item, more)
<1>1. item \in Item /\ Sound(item)
  BY InHand
<1>2. CASE item.op = "parties" /\ Took(item, UpdateParties(item.who, item.party))
  BY <1>1, <1>2, Kinds, PartiesTyped
<1>3. CASE item.op = "stand" /\ Took(item, Stand(item.code, item.who))
  BY <1>1, <1>3, Kinds, StandTyped
<1>4. CASE item.op = "code" /\ Took(item, GetCode(item.id, item.row, item.code))
  <2>1. item.id \in Nat /\ item.row \in Row /\ item.code \in DOMAIN feed
    BY <1>1, <1>4, Kinds DEF Sound
  <2> QED BY <1>4, <2>1, GetTyped DEF Saves
<1>5. CASE item.op = "member" /\ Took(item, Joins(item.who))
  BY <1>1, <1>5, Kinds, JoinsTyped
<1>6. CASE item.op = "switch" /\ Took(item, Switch(item.id, item.row))
  <2>1. item.id \in Nat /\ item.row \in Row
    BY <1>1, <1>6, Kinds
  <2> QED BY <1>6, <2>1, SwitchTyped DEF Saves
<1>7. CASE item.op = "endAspirants" /\ Took(item, EndAll(Race, Yesterday))
  <2>1. Race \subseteq DOMAIN pos
    BY CurrentRows DEF Race
  <2> QED BY <1>7, <2>1, DaysWritten, EndsTyped
<1>8. CASE item.op = "extend" /\ \E i \in MostRecent(item.who) : Took(item, Extend(i))
  <2>1. MostRecent(item.who) \subseteq DOMAIN pos
    BY DEF MostRecent, Memberships, In, Of
  <2> QED BY <1>8, <2>1, ExtendTyped
<1>9. CASE Took(item, <<>>)
  <2>1. <<>> \in Seq(S)
    OBVIOUS
  <2> QED BY <1>9, <2>1
<1> QED BY <1>2, <1>3, <1>4, <1>5, <1>6, <1>7, <1>8, <1>9 DEF Read

LEMMA AddTakes ==
    ASSUME TypeInv, job # "fix", NEW S, Closed(S), NEW item \in Items, Add(item)
    PROVE  \E more \in Seq(S) : Took(item, more)
<1>1. item \in Item /\ Sound(item) /\ item.op = "add"
  BY InHand DEF Add
<1>2. item.code \in DOMAIN feed /\ item.code \in Code
  BY <1>1, Kinds DEF Sound
<1> DEFINE who == feed[item.code].who
           party == feed[item.code].party
<1>3. who \in Person /\ party \in Parties
  BY <1>2, Published
<1>4. CASE Took(item, SetCode(item.code))
  BY <1>2, <1>4, CodesTyped
<1>5. CASE Took(item, <<Update(who, party), [op |-> "stand", code |-> item.code, who |-> who]>>)
  <2>1. Update(who, party) \in S /\ [op |-> "stand", code |-> item.code, who |-> who] \in S
    BY <1>2, <1>3 DEF Closed
  <2>2. <<Update(who, party), [op |-> "stand", code |-> item.code, who |-> who]>> \in Seq(S)
    BY <2>1
  <2> QED BY <1>5, <2>2
<1>6. CASE Took(item, <<>>)
  <2>1. <<>> \in Seq(S)
    OBVIOUS
  <2> QED BY <1>6, <2>1
<1> QED BY <1>4, <1>5, <1>6 DEF Add

LEMMA JoinTakes ==
    ASSUME TypeInv, job # "fix", NEW S, Closed(S), NEW item \in Items, JoinCoalition(item), job' # None
    PROVE  job' = job /\ todo' \subseteq todo /\ \E x \in S : next' = <<x>> \o Rest
<1>1. item \in Item /\ item.op = "join" /\ Left(item) \subseteq todo
  BY InHand DEF JoinCoalition
<1>2. item.who \in Person /\ item.org \in Coalition
  BY <1>1, Kinds
<1> DEFINE rows == In({item.org}, Of(item.who, Current("coalition")))
           new == Position(item.who, item.org, "coalition", None, today, Future)
<1>3. rows \subseteq DOMAIN pos
  BY CurrentRows
<1>4. CASE /\ \E i \in rows : rows = {i} /\ next' = <<Ended(i, Future)>> \o Rest
           /\ todo' = Discard(Left(item), rows)
           /\ UNCHANGED job
  <2>1. PICK i \in DOMAIN pos : next' = <<Ended(i, Future)>> \o Rest
    BY <1>3, <1>4
  <2>2. pos[i] \in Row
    BY Rows
  <2>3. [pos[i] EXCEPT !.end = Future] \in Row /\ Key([pos[i] EXCEPT !.end = Future]) = Key(pos[i])
    BY <2>2, DaysWritten DEF Row, Key
  <2>4. Ended(i, Future) \in S
    BY <2>3 DEF Ended, Closed
  <2>5. todo' \subseteq todo /\ job' = job
    BY <1>1, <1>4 DEF Discard
  <2> HIDE DEF rows
  <2> QED BY <2>1, <2>4, <2>5
<1>5. CASE Took(item, <<New(new)>>) /\ UNCHANGED job
  <2>1. item.org \in Organisation /\ "coalition" \in Title
    BY <1>2 DEF Organisation, Title
  <2>2. new \in Row
    BY <1>2, <2>1, Written, DaysWritten
  <2>3. New(new) \in S
    BY <2>2 DEF Closed
  <2> QED BY <1>1, <1>5, <2>3 DEF Took
<1> QED BY <1>4, <1>5 DEF JoinCoalition

(* So a step of such a command, as long as it goes on, leaves work of that *)
(* kind in hand, and none in its loops that was not there.                 *)
LEMMA StepTakes ==
    ASSUME TypeInv, job # "fix", NEW S, Closed(S), next \in Seq(S), NEW item \in Items, Saves(S, item),
           Write(item) \/ Read(item) \/ Add(item) \/ JoinCoalition(item), job' # None
    PROVE  next' \in Seq(S) /\ todo' \subseteq todo /\ job' = job
<1>1. Rest \in Seq(S) /\ Left(item) \subseteq todo
  BY InHand DEF Rest
<1>2. ASSUME NEW more \in Seq(S), Took(item, more)
      PROVE  next' \in Seq(S) /\ todo' \subseteq todo
  BY <1>1, <1>2 DEF Took
<1>3. CASE Write(item)
  <2>1. <<>> \in Seq(S)
    OBVIOUS
  <2> QED BY <1>2, <1>3, <2>1 DEF Write
<1>4. CASE Read(item)
  BY <1>2, <1>4, ReadTakes DEF Read
<1>5. CASE Add(item)
  BY <1>2, <1>5, AddTakes DEF Add
<1>6. CASE JoinCoalition(item)
  <2>1. PICK x \in S : next' = <<x>> \o Rest
    BY <1>6, JoinTakes
  <2>2. next' \in Seq(S)
    BY <1>1, <2>1
  <2> QED BY <1>6, <2>2, JoinTakes
<1> QED BY <1>3, <1>4, <1>5, <1>6

(* None of these steps but a save changes a row.                           *)
LEMMA ReadTyped ==
    ASSUME TypeInv, job # "fix", NEW item \in Items,
           Read(item) \/ Add(item) \/ JoinCoalition(item)
    PROVE  TypeInv'
<1>1. item \in Item /\ Sound(item) /\ job # None /\ Closed(Work)
  BY InHand
<1>2. UNCHANGED <<pos, lastId, feed, today>>
  BY DEF Read, Add, JoinCoalition
<1>3. /\ lastId \in Nat /\ DOMAIN pos \subseteq 1..lastId /\ pos \in [DOMAIN pos -> Row]
      /\ people \subseteq Person
      /\ note \in [quiet : BOOLEAN, last : Command \cup {None}, rounds : Nat, owed : SUBSET Person]
      /\ next \in Seq(Work) /\ todo \subseteq [loop : 1..3, item : Work]
  BY DEF TypeInv, TypeOK
<1>4. item.op = "add" => feed[item.code].who \in Person
  <2>1. item.op = "add" => item.code \in DOMAIN feed
    BY <1>1 DEF Sound
  <2> QED BY <2>1, Published
<1>5. /\ people' = people \/ (item.op = "add" /\ people' = people \cup {feed[item.code].who})
      /\ note' = [note EXCEPT !.quiet = FALSE] \/ note' = note
  BY DEF Read, Add, JoinCoalition
<1>6. /\ people' \subseteq Person
      /\ note' \in [quiet : BOOLEAN, last : Command \cup {None}, rounds : Nat, owed : SUBSET Person]
  BY <1>3, <1>4, <1>5
<1>7. CASE job' # None
  <2>1. Saves(Work, item)
    <3>1. item.op \in {"save", "switch", "code"} => item.id \in 1..lastId /\ item.id \in Nat
      BY <1>1, Kinds DEF Sound
    <3>2. item.op \in {"save", "switch", "code"} => \A row \in Row : Save(item.id, row) \in Item
      BY <3>1, Made
    <3>3. item.op \in {"save", "switch", "code"} => \A row \in Row : Save(item.id, row) \in Plain
      BY <3>1, <3>2 DEF Plain, Save
    <3> QED BY <3>3 DEF Saves, Work, WorkFor
  <2>2. next' \in Seq(Work) /\ todo' \subseteq todo /\ job' = job
    BY <1>1, <1>3, <1>7, <2>1, StepTakes
  <2>3. todo' \subseteq [loop : 1..3, item : Work]
    BY <1>3, <2>2
  <2> QED BY <1>1, <1>2, <1>3, <1>6, <2>2, <2>3, StepTypes
<1>8. CASE job' = None
  <2>1. todo' = {} /\ next' = <<>> /\ people' = people
    BY <1>1, <1>8 DEF Read, Add, JoinCoalition
  <2> QED BY <1>2, <1>6, <1>8, <2>1, EndTypes
<1> QED BY <1>7, <1>8

LEMMA FixTyped ==
    ASSUME TypeInv, NEW item \in Items, FixRow(item)
    PROVE  TypeInv'
<1>1. item \in Item /\ Sound(item) /\ job # None /\ item.op = "fix"
  BY InHand DEF FixRow
<1>2. UNCHANGED <<people, feed, today, note>>
  BY DEF FixRow
<1>3. /\ lastId \in Nat /\ DOMAIN pos \subseteq 1..lastId /\ pos \in [DOMAIN pos -> Row]
      /\ people \subseteq Person
      /\ note \in [quiet : BOOLEAN, last : Command \cup {None}, rounds : Nat, owed : SUBSET Person]
  BY DEF TypeInv, TypeOK
<1>4. item.id \in DOMAIN pos
  BY <1>1 DEF Sound
<1> DEFINE row == pos[item.id]
           fixed == [row EXCEPT !.org = "parliament"]
           more == [row EXCEPT !.title = "member", !.code = None]
<1>5. item.id \in 1..lastId /\ row \in Row /\ item.id \in Nat
  BY <1>4, Rows
<1>6. fixed \in Row /\ more \in Row
  <2>1. "parliament" \in Organisation /\ "member" \in Title
    BY DEF Organisation, Title
  <2> QED BY <1>5, <2>1 DEF Row
<1>7. Took(item, <<>>) => next' \in Seq(Work) /\ todo' \subseteq [loop : 1..3, item : Work]
  <2>1. <<>> \in Seq(Work)
    OBVIOUS
  <2> QED BY <2>1, TookTyped
<1>8. CASE job' = None /\ todo' = {} /\ next' = <<>> /\ UNCHANGED <<pos, lastId>>
  BY <1>2, <1>3, <1>8, EndTypes
<1>9. CASE pos' = Put(item.id, fixed) /\ Took(item, <<>>) /\ UNCHANGED <<lastId, job>>
  <2>1. DOMAIN pos' = DOMAIN pos \cup {item.id} /\ pos' \in [DOMAIN pos' -> Row]
    BY <1>5, <1>6, <1>9, PutTyped
  <2>2. DOMAIN pos' \subseteq 1..lastId' /\ lastId' \in Nat /\ lastId <= lastId'
    BY <1>3, <1>5, <1>9, <2>1
  <2> QED BY <1>1, <1>2, <1>3, <1>7, <1>9, <2>1, <2>2, StepTypes
<1>10. CASE /\ pos' = [i \in DOMAIN pos \cup {lastId + 1} |->
                            IF i = item.id THEN fixed ELSE IF i = lastId + 1 THEN more ELSE pos[i]]
            /\ lastId' = lastId + 1
            /\ Took(item, <<>>)
            /\ UNCHANGED job
  <2> HIDE DEF fixed, more
  <2>1. DOMAIN pos' = DOMAIN pos \cup {lastId + 1}
    BY <1>10
  <2>2. \A i \in DOMAIN pos' : pos'[i] \in Row
    BY <1>3, <1>6, <1>10
  <2>3. pos' \in [DOMAIN pos' -> Row]
    BY <1>10, <2>2
  <2>4. DOMAIN pos' \subseteq 1..lastId' /\ lastId' \in Nat /\ lastId <= lastId'
    BY <1>3, <1>10, <2>1
  <2> QED BY <1>1, <1>2, <1>3, <1>7, <1>10, <2>1, <2>3, <2>4, StepTypes
<1> QED BY <1>8, <1>9, <1>10 DEF FixRow

LEMMA StepTyped == TypeInv /\ Step => TypeInv'
<1> SUFFICES ASSUME TypeInv, NEW item \in Items,
                    Write(item) \/ Read(item) \/ Add(item) \/ JoinCoalition(item) \/ FixRow(item)
             PROVE  TypeInv'
  BY DEF Step
<1>1. Sound(item)
  BY InHand
<1>2. CASE Read(item) \/ Add(item) \/ JoinCoalition(item)
  <2>1. job # "fix"
    BY <1>1, <1>2 DEF Sound, Read, Add, JoinCoalition
  <2> QED BY <1>2, <2>1, ReadTyped
<1> QED BY <1>2, WriteTyped, FixTyped

-----------------------------------------------------------------------------
(* How the commands begin and end.                                         *)
LEMMA BeginTyped ==
    ASSUME TypeInv, NEW name \in Command, NEW owed \in SUBSET Person, NEW phases,
           DOMAIN phases \subseteq 1..3, \A n \in DOMAIN phases : phases[n] \subseteq WorkFor(name),
           Begin(name, owed, phases)
    PROVE  TypeInv'
<1>1. /\ UNCHANGED <<pos, lastId, people, verdict, feed, today, next>>
      /\ job = None /\ job' = name
      /\ todo' = UNION {{[loop |-> n, item |-> x] : x \in phases[n]} : n \in DOMAIN phases}
  BY DEF Begin
<1>2. todo' \subseteq [loop : 1..3, item : WorkFor(name)]
  BY <1>1
<1>3. Work' = WorkFor(name) /\ WorkFor(name) \subseteq Item
  BY <1>1 DEF Work, WorkFor, Plain, Fixes
<1>4. next' = <<>> /\ next' \in Seq(Item) /\ next' \in Seq(Work')
  BY <1>1 DEF TypeInv
<1>5. note' = [note EXCEPT !.quiet = TRUE, !.last = None,
                           !.rounds = IF name = "aspirants" THEN @ ELSE 0,
                           !.owed = IF name = "aspirants" THEN {} ELSE @ \cup owed]
  BY DEF Begin
<1>6. note' \in [quiet : BOOLEAN, last : Command \cup {None}, rounds : Nat, owed : SUBSET Person]
  <2>1. note \in [quiet : BOOLEAN, last : Command \cup {None}, rounds : Nat, owed : SUBSET Person]
    BY DEF TypeInv
  <2>2. PICK r : r = IF name = "aspirants" THEN note.rounds ELSE 0
    OBVIOUS
  <2>3. PICK due : due = IF name = "aspirants" THEN {} ELSE note.owed \cup owed
    OBVIOUS
  <2>4. r \in Nat /\ due \in SUBSET Person
    BY <2>1, <2>2, <2>3
  <2>5. note' = [quiet |-> TRUE, last |-> None, rounds |-> r, owed |-> due]
    BY <1>5, <2>1, <2>2, <2>3
  <2> QED BY <2>4, <2>5
<1>7. todo' \subseteq [loop : 1..3, item : Item]
  BY <1>2, <1>3
<1>8. TypeOK'
  BY <1>1, <1>4, <1>6, <1>7 DEF TypeInv, TypeOK
<1>9. DayBefore(today)' \in Day
  BY <1>1 DEF TypeInv, DayBefore
<1>10. job' # None
  BY <1>1, PositionAssumption
<1> QED BY <1>1, <1>2, <1>3, <1>4, <1>6, <1>8, <1>9, <1>10 DEF TypeInv

(* How a command may begin, with work of a given kind in its loops.        *)
Begins(name, S) ==
    \E owed \in SUBSET Person : \E phases :
        /\ DOMAIN phases \subseteq 1..3
        /\ \A n \in DOMAIN phases : phases[n] \subseteq S
        /\ Begin(name, owed, phases)

(* The commands with one loop.                                             *)
LEMMA OneLoop ==
    ASSUME NEW name, NEW owed \in SUBSET Person, NEW S, NEW items \in SUBSET S,
           Begin(name, owed, <<items>>)
    PROVE  Begins(name, S)
<1>1. DOMAIN <<items>> \subseteq 1..3 /\ \A n \in DOMAIN <<items>> : <<items>>[n] \subseteq S
  OBVIOUS
<1> QED BY <1>1, Zenon DEF Begins

(* Saves that give rows an end.                                            *)
LEMMA EndedIn ==
    ASSUME TypeInv, NEW S, Closed(S), NEW ids \in SUBSET DOMAIN pos, NEW end \in Approximate
    PROVE  {Ended(i, end) : i \in ids} \in SUBSET S
<1> SUFFICES ASSUME NEW i \in ids PROVE Ended(i, end) \in S
  OBVIOUS
<1>1. pos[i] \in Row
  BY Rows
<1>2. [pos[i] EXCEPT !.end = end] \in Row /\ Key([pos[i] EXCEPT !.end = end]) = Key(pos[i])
  BY <1>1 DEF Row, Key
<1> QED BY <1>2 DEF Ended, Closed

LEMMA AspirantsBegin ==
    ASSUME TypeInv, NEW S, Closed(S), Aspirants
    PROVE  Begins("aspirants", S)
<1> DEFINE held == {pos[i].code : i \in Race} \ {None}
<1>1. PICK carrier \in [held -> Race] :
        Begin("aspirants", {},
              <<{[op |-> "add", code |-> c] : c \in DOMAIN feed \ held},
                Removals(carrier),
                {Update(pos[carrier[c]].who, feed[c].party) : c \in DOMAIN feed \cap held}>>)
  BY DEF Aspirants
<1> DEFINE added == {[op |-> "add", code |-> c] : c \in DOMAIN feed \ held}
           updated == {Update(pos[carrier[c]].who, feed[c].party) : c \in DOMAIN feed \cap held}
<1>2. Race \subseteq DOMAIN pos
  BY CurrentRows DEF Race
<1>3. added \subseteq S
  BY DEF Closed
<1>4. Removals(carrier) \subseteq S
  <2> SUFFICES ASSUME NEW c \in DOMAIN carrier \ DOMAIN feed
               PROVE  Ended(carrier[c], Yesterday) \in S
    BY DEF Removals
  <2>1. carrier[c] \in DOMAIN pos
    BY <1>2
  <2>2. {Ended(i, Yesterday) : i \in {carrier[c]}} \subseteq S
    BY <2>1, DaysWritten, EndedIn
  <2> QED BY <2>2
<1>5. updated \subseteq S
  <2> SUFFICES ASSUME NEW c \in DOMAIN feed \cap held
               PROVE  Update(pos[carrier[c]].who, feed[c].party) \in S
    OBVIOUS
  <2>1. carrier[c] \in DOMAIN pos
    BY <1>2
  <2>2. pos[carrier[c]].who \in Person
    BY <2>1, Rows DEF Row
  <2>3. feed[c].party \in Parties
    BY Published
  <2> QED BY <2>2, <2>3 DEF Closed
<1> DEFINE phases == <<added, Removals(carrier), updated>>
<1>6. DOMAIN phases \subseteq 1..3 /\ \A n \in DOMAIN phases : phases[n] \subseteq S
  BY <1>3, <1>4, <1>5
<1>7. Begin("aspirants", {}, phases)
  BY <1>1
<1> HIDE DEF phases
<1> QED BY <1>6, <1>7 DEF Begins

LEMMA CoalitionsBegin ==
    ASSUME TypeInv, NEW S, Closed(S), Coalitions
    PROVE  Begins("coalitions", S)
<1> DEFINE inParty == {i \in Current("member") : pos[i].org \in Party /\ CoalitionOf[pos[i].org] # None}
           members == {pos[i].who : i \in inParty} \cap {pos[i].who : i \in Race}
           ids == {j \in Current("coalition") : pos[j].who \in members}
           phases == <<{[op |-> "member", who |-> w] : w \in members}, {Ended(i, Yesterday) : i \in ids}>>
<1>1. Begin("coalitions", {}, phases)
  BY DEF Coalitions
<1>2. members \subseteq Person
  BY CurrentRows, Rows DEF Race, Row
<1>3. {[op |-> "member", who |-> w] : w \in members} \subseteq S
  BY <1>2 DEF Closed
<1>4. {Ended(i, Yesterday) : i \in ids} \subseteq S
  BY CurrentRows, DaysWritten, EndedIn
<1>5. DOMAIN phases \subseteq 1..3 /\ \A n \in DOMAIN phases : phases[n] \subseteq S
  BY <1>3, <1>4
<1> HIDE DEF phases
<1> QED BY <1>1, <1>5 DEF Begins

LEMMA SwitchBegins ==
    ASSUME TypeInv, NEW S, Closed(S), SwitchParty
    PROVE  Begins("switch", S)
<1> DEFINE rows == {i \in DOMAIN pos : /\ pos[i].title = "member" /\ pos[i].org \in Merged
                                       /\ Active(pos[i], SwitchDay)}
           owed == {pos[i].who : i \in rows}
           items == {[op |-> "switch", id |-> i, row |-> pos[i]] : i \in rows}
<1>1. Begin("switch", owed, <<items>>)
  BY DEF SwitchParty
<1>2. owed \in SUBSET Person
  BY Rows DEF Row
<1>3. items \in SUBSET S
  BY Rows DEF Closed
<1> HIDE DEF owed, items
<1> QED BY <1>1, <1>2, <1>3, OneLoop

LEMMA EndBegins ==
    ASSUME TypeInv, NEW S, Closed(S), EndPositions
    PROVE  Begins("end", S)
<1>1. PICK t : Begin("end", {}, <<{Ended(i, Yesterday) : i \in Current(t)}>>)
  BY DEF EndPositions
<1>2. {Ended(i, Yesterday) : i \in Current(t)} \in SUBSET S
  BY CurrentRows, DaysWritten, EndedIn
<1> QED BY <1>1, <1>2, OneLoop

LEMMA ElectBegins ==
    ASSUME TypeInv, NEW S, Closed(S), Elect
    PROVE  Begins("elect", S)
<1>1. PICK w \in people :
        \E found : Begin("elect", {}, <<IF found = {}
                                         THEN {New(Position(w, "parliament", "mp", None, today, Future))}
                                         ELSE {}, {[op |-> "endAspirants"]}>>)
  BY Zenon DEF Elect
<1> DEFINE row == Position(w, "parliament", "mp", None, today, Future)
<1>2. PICK found : Begin("elect", {}, <<IF found = {} THEN {New(row)} ELSE {}, {[op |-> "endAspirants"]}>>)
  BY <1>1
<1> DEFINE phases == <<IF found = {} THEN {New(row)} ELSE {}, {[op |-> "endAspirants"]}>>
<1>3. row \in Row
  <2>1. w \in Person /\ "parliament" \in Organisation /\ "mp" \in Title
    BY DEF TypeInv, TypeOK, Organisation, Title
  <2> QED BY <2>1, Written, DaysWritten
<1>4. New(row) \in S /\ [op |-> "endAspirants"] \in S
  BY <1>3 DEF Closed
<1>5. DOMAIN phases \subseteq 1..3 /\ \A n \in DOMAIN phases : phases[n] \subseteq S
  BY <1>4
<1>6. Begin("elect", {}, phases)
  BY <1>2
<1> HIDE DEF phases
<1> QED BY <1>5, <1>6 DEF Begins

LEMMA DeletionsBegin ==
    ASSUME TypeInv, NEW S, Closed(S), NEW name, NEW gone \in SUBSET DOMAIN pos,
           Begin(name, {}, <<{Delete(i) : i \in gone}>>)
    PROVE  Begins(name, S)
<1>1. {Delete(i) : i \in gone} \in SUBSET S
  BY DEF Closed
<1> QED BY <1>1, OneLoop

LEMMA ExtendBegins ==
    ASSUME TypeInv, NEW S, Closed(S), ExtendMemberships
    PROVE  Begins("extend", S)
<1>1. people \subseteq Person
  BY DEF TypeInv, TypeOK
<1>2. {[op |-> "extend", who |-> w] : w \in people} \in SUBSET S
  BY <1>1 DEF Closed
<1>3. Begin("extend", {}, <<{[op |-> "extend", who |-> w] : w \in people}>>)
  BY DEF ExtendMemberships
<1> QED BY <1>2, <1>3, OneLoop

Commands ==
    \/ Aspirants \/ Coalitions \/ SwitchParty \/ EndPositions \/ Elect \/ Deduplicate
    \/ RemoveDuplicates \/ ExtendMemberships

LEMMA CommandsBegin ==
    ASSUME TypeInv, NEW S, Closed(S), Commands
    PROVE  /\ \E name \in Command \ {"fix"} : Begins(name, S)
           /\ ~Coalitions => \E name \in Command \ {"fix", "coalitions"} : Begins(name, S)
<1>1. Deduplicate => Begins("deduplicate", S)
  BY DeletionsBegin DEF Deduplicate
<1>2. RemoveDuplicates => Begins("duplicates", S)
  <2> SUFFICES ASSUME RemoveDuplicates PROVE Begins("duplicates", S)
    OBVIOUS
  <2>1. PICK best : Begin("duplicates", {}, <<{Delete(i) : i \in {j \in Race : best[pos[j].who] # j}}>>)
    BY DEF RemoveDuplicates
  <2>2. {j \in Race : best[pos[j].who] # j} \in SUBSET DOMAIN pos
    BY CurrentRows DEF Race
  <2> QED BY <2>1, <2>2, DeletionsBegin
<1>3. /\ Aspirants => Begins("aspirants", S)
      /\ Coalitions => Begins("coalitions", S)
      /\ SwitchParty => Begins("switch", S)
      /\ EndPositions => Begins("end", S)
      /\ Elect => Begins("elect", S)
      /\ ExtendMemberships => Begins("extend", S)
  BY AspirantsBegin, CoalitionsBegin, SwitchBegins, EndBegins, ElectBegins, ExtendBegins
<1> QED BY <1>1, <1>2, <1>3 DEF Commands, Command

LEMMA CommandsTyped == TypeInv /\ Commands => TypeInv'
<1> SUFFICES ASSUME TypeInv, Commands PROVE TypeInv'
  OBVIOUS
<1>1. PICK name \in Command \ {"fix"} : Begins(name, Plain)
  BY PlainClosed, CommandsBegin
<1>2. WorkFor(name) = Plain
  BY DEF WorkFor
<1> QED BY <1>1, <1>2, BeginTyped DEF Begins

LEMMA FixBegins == TypeInv /\ Fix => TypeInv'
<1> SUFFICES ASSUME TypeInv, Fix PROVE TypeInv'
  OBVIOUS
<1> DEFINE broken == {i \in DOMAIN pos : pos[i].title = "mp" /\ pos[i].org # "parliament"}
           items == {[op |-> "fix", id |-> i] : i \in broken}
<1>1. Begin("fix", {}, <<items>>) /\ "fix" \in Command
  BY DEF Fix, Command
<1>2. items \subseteq WorkFor("fix")
  <2> SUFFICES ASSUME NEW i \in DOMAIN pos PROVE [op |-> "fix", id |-> i] \in Fixes
    BY DEF WorkFor
  <2>1. i \in Nat
    BY Rows
  <2>2. [op |-> "fix", id |-> i] \in Item
    BY <2>1, Made
  <2> QED BY <2>2 DEF Fixes
<1> HIDE DEF items
<1>3. Begins("fix", WorkFor("fix"))
  BY <1>1, <1>2, OneLoop
<1> QED BY <1>1, <1>3, BeginTyped DEF Begins

-----------------------------------------------------------------------------
(* What happens around the commands.                                       *)
LEMMA Disturbed ==
    ASSUME TypeInv, Disturb
    PROVE  note' \in [quiet : BOOLEAN, last : Command \cup {None}, rounds : Nat, owed : SUBSET Person]
<1>1. note \in [quiet : BOOLEAN, last : Command \cup {None}, rounds : Nat, owed : SUBSET Person]
  BY DEF TypeInv
<1>2. note' = [quiet |-> FALSE, last |-> None, rounds |-> 0, owed |-> note.owed]
  BY <1>1 DEF Disturb
<1>3. 0 \in Nat /\ None \in Command \cup {None} /\ FALSE \in BOOLEAN
  OBVIOUS
<1> QED BY <1>1, <1>2, <1>3

LEMMA FinishTyped == TypeInv /\ Finish => TypeInv'
<1> SUFFICES ASSUME TypeInv, Finish PROVE TypeInv'
  OBVIOUS
<1>1. /\ UNCHANGED <<pos, lastId, people, feed, today>>
      /\ job' = None /\ next' = <<>> /\ todo' = {} /\ job \in Command
  BY DEF Finish, TypeInv
<1>2. note \in [quiet : BOOLEAN, last : Command \cup {None}, rounds : Nat, owed : SUBSET Person]
  BY DEF TypeInv
<1>3. \/ note' = [note EXCEPT !.rounds = 0]
      \/ \E r \in Nat : note' = [note EXCEPT !.last = job, !.rounds = r]
  <2>1. PICK r : r = IF job = "aspirants" THEN note.rounds + 1 ELSE note.rounds
    OBVIOUS
  <2>2. r \in Nat
    BY <1>2, <2>1
  <2>3. note.quiet => note' = [note EXCEPT !.last = job, !.rounds = r]
    BY <1>2, <2>1 DEF Finish
  <2> QED BY <2>2, <2>3 DEF Finish
<1>4. note' \in [quiet : BOOLEAN, last : Command \cup {None}, rounds : Nat, owed : SUBSET Person]
  <2>1. note.quiet \in BOOLEAN /\ note.last \in Command \cup {None} /\ note.owed \in SUBSET Person
    BY <1>2
  <2>2. CASE note' = [note EXCEPT !.rounds = 0]
    <3>1. note' = [quiet |-> note.quiet, last |-> note.last, rounds |-> 0, owed |-> note.owed]
      BY <1>2, <2>2
    <3>2. 0 \in Nat
      OBVIOUS
    <3> QED BY <2>1, <3>1, <3>2
  <2>3. ASSUME NEW r \in Nat, note' = [note EXCEPT !.last = job, !.rounds = r]
        PROVE  note' \in [quiet : BOOLEAN, last : Command \cup {None}, rounds : Nat,
                          owed : SUBSET Person]
    <3>1. note' = [quiet |-> note.quiet, last |-> job, rounds |-> r, owed |-> note.owed]
      BY <1>2, <2>3
    <3> QED BY <1>1, <2>1, <3>1
  <2> QED BY <1>3, <2>2, <2>3
<1> QED BY <1>1, <1>4, EndTypes

LEMMA KillTyped == TypeInv /\ Kill => TypeInv'
<1> SUFFICES ASSUME TypeInv, Kill PROVE TypeInv'
  OBVIOUS
<1>1. /\ UNCHANGED <<pos, lastId, people, feed, today>>
      /\ job' = None /\ next' = <<>> /\ todo' = {} /\ Disturb
  BY DEF Kill
<1> QED BY <1>1, EndTypes, Disturbed

LEMMA ApplyTyped == TypeInv /\ ApplyUpdate => TypeInv'
<1> SUFFICES ASSUME TypeInv, ApplyUpdate PROVE TypeInv'
  OBVIOUS
<1>1. UNCHANGED <<lastId, people, feed, today, job, todo, next>> /\ Disturb /\ job # "fix"
  BY DEF ApplyUpdate, InTransaction
<1>2. lastId \in Nat /\ DOMAIN pos \subseteq 1..lastId /\ pos \in [DOMAIN pos -> Row]
  BY DEF TypeInv, TypeOK
<1>3. DOMAIN pos' \subseteq DOMAIN pos /\ pos' \in [DOMAIN pos' -> Row]
  <2>1. ASSUME NEW i \in DOMAIN pos, pos' = [pos EXCEPT ![i].end = Yesterday]
        PROVE  DOMAIN pos' \subseteq DOMAIN pos /\ pos' \in [DOMAIN pos' -> Row]
    <3>1. [pos[i] EXCEPT !.end = Yesterday] \in Row
      BY <1>2, DaysWritten DEF Row
    <3> QED BY <1>2, <2>1, <3>1
  <2>2. ASSUME NEW i \in DOMAIN pos, pos' = [j \in DOMAIN pos \ {i} |-> pos[j]]
        PROVE  DOMAIN pos' \subseteq DOMAIN pos /\ pos' \in [DOMAIN pos' -> Row]
    BY <1>2, <2>2
  <2> QED BY <2>1, <2>2 DEF ApplyUpdate
<1>4. DOMAIN pos' \subseteq 1..lastId'
  BY <1>1, <1>2, <1>3
<1>5. Work \subseteq Work'
  BY <1>1, <1>2, WorkStays
<1>6. next' \in Seq(Work') /\ todo' \subseteq [loop : 1..3, item : Work']
  BY <1>1, <1>5, WiderSeq DEF TypeInv
<1>7. note' \in [quiet : BOOLEAN, last : Command \cup {None}, rounds : Nat, owed : SUBSET Person]
  BY <1>1, Disturbed
<1>8. TypeOK'
  BY <1>1, <1>2, <1>3, <1>4, <1>7 DEF TypeInv, TypeOK
<1>9. DayBefore(today)' \in Day
  BY <1>1 DEF TypeInv, DayBefore
<1>10. job' \in Command \cup {None} /\ (job' = None => todo' = {} /\ next' = <<>>)
  BY <1>1 DEF TypeInv
<1> QED BY <1>6, <1>7, <1>8, <1>9, <1>10 DEF TypeInv

(* Nothing but the day and what is published changes between two commands. *)
LEMMA IdleTypes ==
    ASSUME TypeInv, job = None,
           UNCHANGED <<pos, lastId, people, job, todo, next>>,
           feed' \in Feeds, today' \in Day, DayBefore(today') \in Day,
           note' \in [quiet : BOOLEAN, last : Command \cup {None}, rounds : Nat, owed : SUBSET Person]
    PROVE  TypeInv'
<1>1. todo' = {} /\ next' = <<>> /\ job' = None
  BY DEF TypeInv
<1>2. next' \in Seq(Work') /\ next' \in Seq(Item)
  BY <1>1
<1>3. note'.rounds \in Nat
  OBVIOUS
<1>4. TypeOK'
  BY <1>1, <1>2, <1>3 DEF TypeInv, TypeOK
<1>5. DayBefore(today)' \in Day
  BY DEF DayBefore
<1> QED BY <1>1, <1>2, <1>4, <1>5 DEF TypeInv

LEMMA NewsTyped == TypeInv /\ News => TypeInv'
<1> SUFFICES ASSUME TypeInv, News PROVE TypeInv'
  OBVIOUS
<1>1. UNCHANGED <<pos, lastId, people, job, todo, next>> /\ job = None /\ Disturb
  BY DEF News
<1>2. feed \in Feeds /\ today \in Day /\ DayBefore(today) \in Day
  BY DEF TypeInv, TypeOK
<1>3. feed' \in Feeds /\ today' \in Day /\ DayBefore(today') \in Day
  <2>1. CASE feed' \in Feeds \ {feed} /\ UNCHANGED today
    BY <1>2, <2>1 DEF DayBefore
  <2>2. CASE today' = [today EXCEPT !.d = @ + 1] /\ today' \in Day /\ UNCHANGED feed
    <3>1. today \in [y : Year, m : Month, d : 1..31]
      BY <1>2 DEF Day
    <3>2. today.d \in Int /\ 1 <= today.d
      BY <1>2, DayShape
    <3>3. today'.y = today.y /\ today'.m = today.m /\ today'.d = today.d + 1
      BY <2>2, <3>1
    <3>4. today'.d > 1 /\ today'.d - 1 = today.d
      BY <3>2, <3>3
    <3>5. DayBefore(today') = Date(today.y, today.m, today.d)
      BY <3>3, <3>4 DEF DayBefore
    <3>6. Date(today.y, today.m, today.d) = today
      BY <3>1 DEF Date
    <3> QED BY <1>2, <2>2, <3>5, <3>6
  <2> QED BY <2>1, <2>2 DEF News
<1>4. note' \in [quiet : BOOLEAN, last : Command \cup {None}, rounds : Nat, owed : SUBSET Person]
  BY <1>1, Disturbed
<1> QED BY <1>1, <1>3, <1>4, IdleTypes

LEMMA CheckTyped == TypeInv /\ CheckNames => TypeInv'
<1> SUFFICES ASSUME TypeInv, CheckNames PROVE TypeInv'
  OBVIOUS
<1>1. UNCHANGED <<pos, lastId, people, feed, today, job, todo, next, note>> /\ job = None
  BY DEF CheckNames
<1>2. feed' \in Feeds /\ today' \in Day /\ DayBefore(today') \in Day
  BY <1>1 DEF TypeInv, TypeOK, DayBefore
<1>3. note' \in [quiet : BOOLEAN, last : Command \cup {None}, rounds : Nat, owed : SUBSET Person]
  BY <1>1 DEF TypeInv
<1> QED BY <1>1, <1>2, <1>3, IdleTypes

LEMMA TypesStart == Init => TypeInv
<1> SUFFICES ASSUME Init PROVE TypeInv
  OBVIOUS
<1>1. pos \in Seq(Row) /\ lastId = Cardinality(DOMAIN pos)
  BY FeedAssumption DEF Init
<1>2. Len(pos) \in Nat /\ DOMAIN pos = 1..Len(pos) /\ pos \in [DOMAIN pos -> Row]
  BY <1>1
<1>3. lastId = Len(pos)
  <2>1. PICK n \in Nat : n = Len(pos)
    BY <1>2
  <2>2. Cardinality(1..n) = IF 1 > n THEN 0 ELSE n - 1 + 1
    BY FS_Interval
  <2>3. Cardinality(1..n) = n
    BY <2>2
  <2> QED BY <1>1, <1>2, <2>1, <2>3
<1>4. people \subseteq Person
  BY <1>2 DEF Init, Row
<1>5. feed \in Feeds /\ today \in Day /\ DayBefore(today) \in Day
  BY PositionAssumption DEF Init
<1>6. next = <<>> /\ todo = {} /\ job = None
  BY DEF Init
<1>7. note \in [quiet : BOOLEAN, last : Command \cup {None}, rounds : Nat, owed : SUBSET Person]
  BY DEF Init
<1>8. next \in Seq(Item) /\ next \in Seq(Work)
  BY <1>6
<1>9. TypeOK
  BY <1>2, <1>3, <1>4, <1>5, <1>6, <1>7, <1>8 DEF TypeOK
<1> QED BY <1>5, <1>6, <1>7, <1>8, <1>9 DEF TypeInv

LEMMA TypesStay == TypeInv /\ [Next]_vars => TypeInv'
<1> SUFFICES ASSUME TypeInv, [Next]_vars PROVE TypeInv'
  OBVIOUS
<1>1. CASE Next
  BY <1>1, CommandsTyped, FixBegins, StepTyped, FinishTyped, KillTyped, ApplyTyped, CheckTyped,
     NewsTyped DEF Next, Commands
<1>2. CASE UNCHANGED vars
  BY <1>2 DEF vars, TypeInv, TypeOK, Work, WorkFor, Plain, Fixes, DayBefore
<1> QED BY <1>1, <1>2

(* Every row the commands write has dates that the field accepts, and what *)
(* a command has still to do is about rows that there have been.           *)
THEOREM TypesHold == Spec => []TypeInv
<1> QED BY TypesStart, TypesStay, PTL DEF Spec

(* So the queries, which compare strings, mean for every row the commands  *)
(* leave what its dates mean, whatever they did in which order.            *)
THEOREM RowsKeepMeaning == Spec => []RowsMeanDays
<1>1. TypeInv => RowsMeanDays
  BY RowsAgree DEF TypeInv
<1> QED BY <1>1, TypesHold, PTL

-----------------------------------------------------------------------------
(* The coalitions.  Of the aspirants in parties of coalitions (Members),   *)
(* each has coalitions by these parties (Due) and memberships of           *)
(* coalitions (Held); the second loop of the command will end some (Ends). *)
Racers == {pos[i].who : i \in Race}
Members == {w \in Racers : Due(w) # {}}
Held(w) == Of(w, Current("coalition"))
Ends == {t.item.id : t \in {u \in todo : u.item.op = "save"}}

(* What is left to be done, while nothing has disturbed the command: in    *)
(* its loops members to be looked at and memberships to be ended, in hand  *)
(* what came of a member, for coalitions that are due.                     *)
Shortens(x) ==
    /\ x.op = "save" /\ x.id \in DOMAIN pos /\ pos[x.id].title = "coalition"
    /\ x.row = [pos[x.id] EXCEPT !.end = Yesterday]
Lengthens(x) ==
    /\ x.op = "save" /\ x.id \in DOMAIN pos /\ pos[x.id].title = "coalition"
    /\ pos[x.id].org \in Due(pos[x.id].who)
    /\ x.row = [pos[x.id] EXCEPT !.end = Future]
Enters(x) ==
    /\ x.op = "new" /\ x.row.org \in Due(x.row.who)
    /\ x.row = Position(x.row.who, x.row.org, "coalition", None, today, Future)
Asks(x) == x.op = "join" /\ x.org \in Due(x.who)

LoopItems == \A t \in todo : t.item.op = "member" \/ Shortens(t.item)
HandItems == \A n \in 1..Len(next) : Asks(next[n]) \/ Lengthens(next[n]) \/ Enters(next[n])

(* No coalition is held that is not due, but those that will be ended; and *)
(* one that is due is held and will not be ended, or still to come.        *)
NoneOver == \A w \in Members : \A i \in Held(w) : pos[i].org \in Due(w) \/ i \in Ends
ToCome(w, c) ==
    \/ \E t \in todo : t.item.op = "member" /\ t.item.who = w
    \/ \E n \in 1..Len(next) : next[n].op = "join" /\ next[n].who = w /\ next[n].org = c
    \/ \E n \in 1..Len(next) : next[n].op = "new" /\ next[n].row.who = w /\ next[n].row.org = c
Kept(w, c) == \E i \in Held(w) : pos[i].org = c /\ i \notin Ends
NoneMissing == \A w \in Members : \A c \in Due(w) : ToCome(w, c) \/ Kept(w, c)

Coalescing == job = "coalitions" /\ note.quiet
OnTheWay == LoopItems /\ HandItems /\ NoneOver /\ NoneMissing

CoalitionInv ==
    /\ Coalescing => OnTheWay
    /\ job # None => note.last = None
    /\ CoalitionsFollow

LEMMA DayBeforeIsBefore ==
    ASSUME NEW t \in Day, DayBefore(t) \in Day
    PROVE  Before(DayBefore(t), t)
<1>1. t.y \in Int /\ t.m \in Int /\ t.d \in Int
  BY DayShape
<1>2. CASE t.d > 1
  BY <1>1, <1>2 DEF DayBefore, Before, Date
<1>3. CASE ~(t.d > 1) /\ t.m > 1
  BY <1>1, <1>3 DEF DayBefore, Before, Date
<1>4. CASE ~(t.d > 1) /\ ~(t.m > 1)
  BY <1>1, <1>4 DEF DayBefore, Before, Date
<1> QED BY <1>1, <1>2, <1>3, <1>4

(* A membership that is extended is still held, one that ended yesterday   *)
(* is not, and one that begins today is.                                   *)
LEMMA HeldFrom ==
    ASSUME TypeInv, NEW row \in Row
    PROVE  /\ Active(row, today) => Active([row EXCEPT !.end = Future], today)
           /\ ~Active([row EXCEPT !.end = Yesterday], today)
           /\ row.start = today /\ row.end = Future => Active(row, today)
<1>1. today \in Day /\ Yesterday \in Day /\ Before(Yesterday, today)
  BY DayBeforeIsBefore DEF TypeInv, TypeOK, Yesterday
<1>2. row.start \in Approximate /\ row.end \in Approximate
  BY DEF Row
<1>3. PICK p : p = [row EXCEPT !.end = Future]
  OBVIOUS
<1>4. PICK q : q = [row EXCEPT !.end = Yesterday]
  OBVIOUS
<1>5. p.start = row.start /\ p.end = Future /\ q.start = row.start /\ q.end = Yesterday
  BY <1>3, <1>4 DEF Row
<1>6. Active(row, today) <=> UpTo(Earliest(row.start), today) /\ UpTo(today, Latest(row.end))
  BY <1>1, <1>2, QueriesAgree DEF QueriesMeanDays
<1>7. Active(p, today) <=> UpTo(Earliest(row.start), today) /\ UpTo(today, Latest(Future))
  BY <1>1, <1>2, <1>5, Words, QueriesAgree DEF QueriesMeanDays
<1>8. Active(q, today) <=> UpTo(Earliest(row.start), today) /\ UpTo(today, Yesterday)
  BY <1>1, <1>2, <1>5, DaysKnown, QueriesAgree DEF QueriesMeanDays
<1>9. UpTo(today, Latest(Future))
  BY <1>1, <1>2, <1>5, Words, PositionDates DEF UpTo
<1>10. ~UpTo(today, Yesterday)
  BY <1>1 DEF UpTo
<1>11. ~Before(today, today)
  BY <1>1, DayShape DEF Before
<1>12. row.start = today => Earliest(row.start) = today
  BY <1>1, DaysKnown
<1> QED BY <1>3, <1>4, <1>6, <1>7, <1>8, <1>9, <1>10, <1>11, <1>12 DEF UpTo

(* A row of a coalition that is written changes neither the aspirants nor  *)
(* the parties.                                                            *)
LEMMA SameParties ==
    ASSUME TypeInv, NEW i \in Nat, NEW row \in Row, row.title = "coalition",
           i \in DOMAIN pos => pos[i].title = "coalition",
           pos' = Put(i, row), today' = today
    PROVE  /\ Racers' = Racers
           /\ \A w : Due(w)' = Due(w)
           /\ Members' = Members
           /\ \A w, j : j \in Held(w)' <=>
                \/ j # i /\ j \in Held(w)
                \/ j = i /\ row.who = w /\ Active(row, today)
<1>1. /\ DOMAIN pos' = DOMAIN pos \cup {i} /\ pos'[i] = row
      /\ \A j \in DOMAIN pos : j # i => pos'[j] = pos[j]
  BY PutTyped
<1>2. ASSUME NEW title, title # "coalition"
      PROVE  /\ Current(title)' = Current(title)
             /\ \A j \in Current(title) : pos'[j] = pos[j]
  BY <1>1, <1>2 DEF Current
<1>3. Race' = Race /\ \A j \in Race : pos'[j] = pos[j]
  BY <1>2 DEF Race
<1>4. Racers' = Racers
  BY <1>3 DEF Racers
<1>5. /\ Current("member")' = Current("member")
      /\ \A j \in Current("member") : pos'[j] = pos[j]
  BY <1>2
<1>6. ASSUME NEW w PROVE Due(w)' = Due(w)
  <2>1. In(Party, Of(w, Current("member")))' = In(Party, Of(w, Current("member")))
    BY <1>5 DEF In, Of
  <2>2. \A j \in In(Party, Of(w, Current("member"))) : pos'[j] = pos[j]
    BY <1>5, CurrentRows
  <2> QED BY <2>1, <2>2 DEF Due
<1>7. Members' = Members
  BY <1>4, <1>6 DEF Members
<1>8. ASSUME NEW w, NEW j
      PROVE  j \in Held(w)' <=>
                \/ j # i /\ j \in Held(w)
                \/ j = i /\ row.who = w /\ Active(row, today)
  BY <1>1 DEF Held, Of, Current
<1> QED BY <1>4, <1>6, <1>7, <1>8

(* An item in hand, or one of the loops when there is none.                *)
LEMMA WhichItem ==
    ASSUME TypeInv, LoopItems, HandItems, NEW item \in Items
    PROVE  \/ /\ next = <<>> /\ Rest = <<>>
              /\ item.op = "member" \/ Shortens(item)
              /\ Left(item) \subseteq todo
              /\ \E t \in todo : t.item = item
              /\ \A u \in todo : u.item # item => u \in Left(item)
           \/ /\ next # <<>> /\ item = next[1] /\ Left(item) = todo
              /\ Asks(item) \/ Lengthens(item) \/ Enters(item)
              /\ Len(next) \in Nat /\ Len(next) > 0
              /\ Rest \in Seq(Work) /\ Len(Rest) = Len(next) - 1
              /\ \A n \in 1..Len(Rest) : Rest[n] = next[n + 1] /\ n + 1 \in 1..Len(next)
              /\ \A n \in 1..Len(next) : n # 1 => n - 1 \in 1..Len(Rest) /\ Rest[n - 1] = next[n]
<1>1. next \in Seq(Work)
  BY DEF TypeInv
<1>2. CASE next = <<>>
  <2>1. PICK t \in todo : t \in First /\ item = t.item
    BY <1>2 DEF Items, First
  <2>2. item.op = "member" \/ Shortens(item)
    BY <2>1 DEF LoopItems
  <2>3. Left(item) = todo \ {u \in First : u.item = item} /\ Rest = <<>>
    BY <1>2 DEF Left, Rest
  <2> QED BY <1>2, <2>1, <2>2, <2>3
<1>3. CASE next # <<>>
  <2>1. Len(next) \in Nat /\ Len(next) > 0 /\ item = next[1]
    BY <1>1, <1>3 DEF Items
  <2>2. Asks(item) \/ Lengthens(item) \/ Enters(item)
    BY <2>1 DEF HandItems
  <2>3. Left(item) = todo /\ Rest = Tail(next)
    BY <1>3 DEF Left, Rest
  <2>4. /\ Rest \in Seq(Work) /\ Len(Rest) = Len(next) - 1
        /\ \A n \in 1..Len(Rest) : Rest[n] = next[n + 1]
    BY <1>1, <1>3, <2>3
  <2>5. \A n \in 1..Len(Rest) : n + 1 \in 1..Len(next)
    BY <2>1, <2>4
  <2>6. \A n \in 1..Len(next) : n # 1 => n - 1 \in 1..Len(Rest) /\ Rest[n - 1] = next[n]
    BY <2>1, <2>4
  <2> QED BY <1>3, <2>1, <2>2, <2>3, <2>4, <2>5, <2>6
<1> QED BY <1>2, <1>3

(* Items that are left keep their meaning when a row of a coalition is     *)
(* written that differs in its end, or is new.                             *)
LEMMA SameItems ==
    ASSUME TypeInv, NEW i \in Nat, NEW row \in Row, row.title = "coalition",
           i \in DOMAIN pos =>
                pos[i].title = "coalition" /\ \E end : row = [pos[i] EXCEPT !.end = end],
           pos' = Put(i, row), today' = today
    PROVE  /\ \A x : Shortens(x) => Shortens(x)'
           /\ \A x : Lengthens(x) => Lengthens(x)'
           /\ \A x : Enters(x) => Enters(x)'
           /\ \A x : Asks(x) => Asks(x)'
<1>1. \A w : Due(w)' = Due(w)
  BY SameParties
<1>2. /\ DOMAIN pos' = DOMAIN pos \cup {i} /\ pos'[i] = row
      /\ \A j \in DOMAIN pos : j # i => pos'[j] = pos[j]
  BY PutMade
<1>3. Yesterday' = Yesterday
  BY DEF Yesterday, DayBefore
<1>4. \A j \in DOMAIN pos : pos[j] \in Row
  BY Rows
<1>5. ASSUME NEW j \in DOMAIN pos, pos[j].title = "coalition"
      PROVE  /\ j \in DOMAIN pos' /\ pos'[j].title = "coalition"
             /\ pos'[j].who = pos[j].who /\ pos'[j].org = pos[j].org
             /\ [pos'[j] EXCEPT !.end = Yesterday] = [pos[j] EXCEPT !.end = Yesterday]
             /\ [pos'[j] EXCEPT !.end = Future] = [pos[j] EXCEPT !.end = Future]
  <2>1. CASE j # i
    BY <1>2, <1>5, <2>1
  <2>2. CASE j = i
    <3>1. PICK end : row = [pos[j] EXCEPT !.end = end]
      BY <1>5, <2>2
    <3>2. pos'[j] = row /\ j \in DOMAIN pos'
      BY <1>2, <2>2
    <3>3. row.who = pos[j].who /\ row.org = pos[j].org
      BY <1>4, <3>1 DEF Row
    <3>4. [row EXCEPT !.end = Yesterday] = [pos[j] EXCEPT !.end = Yesterday]
      BY <1>4, <3>1 DEF Row
    <3>5. [row EXCEPT !.end = Future] = [pos[j] EXCEPT !.end = Future]
      BY <1>4, <3>1 DEF Row
    <3> QED BY <3>2, <3>3, <3>4, <3>5
  <2> QED BY <2>1, <2>2
<1>6. ASSUME NEW x, Shortens(x) PROVE Shortens(x)'
  BY <1>3, <1>5, <1>6 DEF Shortens
<1>7. ASSUME NEW x, Lengthens(x) PROVE Lengthens(x)'
  <2>1. /\ x.op = "save" /\ x.id \in DOMAIN pos /\ pos[x.id].title = "coalition"
        /\ pos[x.id].org \in Due(pos[x.id].who)
        /\ x.row = [pos[x.id] EXCEPT !.end = Future]
    BY <1>7 DEF Lengthens
  <2>2. /\ x.id \in DOMAIN pos' /\ pos'[x.id].title = "coalition"
        /\ pos'[x.id].who = pos[x.id].who /\ pos'[x.id].org = pos[x.id].org
        /\ [pos'[x.id] EXCEPT !.end = Future] = [pos[x.id] EXCEPT !.end = Future]
    BY <1>5, <2>1
  <2>3. PICK w : w = pos[x.id].who
    OBVIOUS
  <2>4. Due(w)' = Due(w)
    BY <1>1
  <2>5. pos'[x.id].who = w /\ pos'[x.id].org \in Due(w)
    BY <2>1, <2>2, <2>3
  <2>6. pos'[x.id].org \in Due(w)'
    BY <2>4, <2>5
  <2>7. (pos[x.id].org \in Due(pos[x.id].who))'
    BY <2>5, <2>6 DEF Due, In, Of, Current
  <2> QED BY <2>1, <2>2, <2>7 DEF Lengthens
<1>8. ASSUME NEW x, Enters(x) PROVE Enters(x)'
  BY <1>1, <1>8 DEF Enters
<1>9. ASSUME NEW x, Asks(x) PROVE Asks(x)'
  BY <1>1, <1>9 DEF Asks
<1> QED BY <1>6, <1>7, <1>8, <1>9

(* A membership of the second loop is ended.                               *)
LEMMA ShortenOnTheWay ==
    ASSUME TypeInv, OnTheWay, NEW item \in Items, Shortens(item), next = <<>>, Rest = <<>>,
           Write(item)
    PROVE  OnTheWay'
<1>1. /\ item.op = "save" /\ item.id \in DOMAIN pos /\ pos[item.id].title = "coalition"
      /\ item.row = [pos[item.id] EXCEPT !.end = Yesterday]
  BY DEF Shortens
<1>2. PICK i \in Nat, row \in Row : i = item.id /\ row = item.row
  <2>1. item \in Item
    BY InHand
  <2> QED BY <1>1, <2>1, Kinds
<1>3. pos' = Put(i, row) /\ today' = today /\ next' = <<>> /\ todo' = Left(item)
  BY <1>1, <1>2 DEF Write, Took
<1>4. row.title = "coalition" /\ i \in DOMAIN pos /\ pos[i].title = "coalition"
      /\ row = [pos[i] EXCEPT !.end = Yesterday] /\ row.who = pos[i].who
  BY <1>1, <1>2, Rows DEF Row
<1>5. ~Active(row, today)
  BY <1>4, Rows, HeldFrom
<1>6. /\ \A w : Due(w)' = Due(w)
      /\ Members' = Members
      /\ \A w, j : j \in Held(w)' <=> j # i /\ j \in Held(w)
  <2>1. /\ row.title = "coalition" /\ (i \in DOMAIN pos => pos[i].title = "coalition")
        /\ pos' = Put(i, row) /\ today' = today
    BY <1>3, <1>4
  <2>2. /\ \A w : Due(w)' = Due(w)
        /\ Members' = Members
        /\ \A w, j : j \in Held(w)' <=>
             \/ j # i /\ j \in Held(w)
             \/ j = i /\ row.who = w /\ Active(row, today)
    BY <2>1, SameParties
  <2> QED BY <1>5, <2>2
<1>7. /\ LoopItems /\ HandItems /\ NoneOver /\ NoneMissing
  BY DEF OnTheWay
<1>8. Left(item) \subseteq todo /\ \A u \in todo : u.item # item => u \in Left(item)
  BY <1>1, <1>7, WhichItem
<1>9. i \in Ends
  <2>1. \E t \in todo : t.item = item
    BY <1>7, WhichItem
  <2> QED BY <1>1, <1>2, <2>1 DEF Ends
<1>10. Ends' \subseteq Ends /\ \A j \in Ends : j # i => j \in Ends'
  BY <1>2, <1>3, <1>8 DEF Ends
<1>11. LoopItems'
  <2>1. \A x : Shortens(x) => Shortens(x)'
    BY <1>3, <1>4, SameItems
  <2> QED BY <1>3, <1>7, <1>8, <2>1 DEF LoopItems
<1>12. HandItems'
  BY <1>3 DEF HandItems
<1>13. (\A j \in DOMAIN pos' : j # i => pos'[j] = pos[j]) /\ \A w : Held(w)' \subseteq DOMAIN pos'
  <2>1. \A j \in DOMAIN pos : j # i => pos'[j] = pos[j]
    BY <1>3, PutMade
  <2>2. DOMAIN pos' = DOMAIN pos \cup {i}
    BY <1>3, PutMade
  <2> QED BY <2>1, <2>2 DEF Held, Of, Current
<1>14. NoneOver'
  <2> SUFFICES ASSUME NEW w \in Members', NEW j \in Held(w)'
               PROVE  (pos[j].org \in Due(w))' \/ j \in Ends'
    BY DEF NoneOver
  <2>1. w \in Members /\ j # i /\ j \in Held(w)
    BY <1>6
  <2>2. pos[j].org \in Due(w) \/ j \in Ends
    BY <1>7, <2>1 DEF NoneOver
  <2>3. pos'[j] = pos[j]
    BY <1>13, <2>1
  <2> QED BY <1>6, <1>10, <2>1, <2>2, <2>3
<1>15. NoneMissing'
  <2> SUFFICES ASSUME NEW w \in Members', NEW c \in Due(w)'
               PROVE  ToCome(w, c)' \/ Kept(w, c)'
    BY DEF NoneMissing
  <2>1. ToCome(w, c) \/ Kept(w, c)
    BY <1>6, <1>7 DEF NoneMissing
  <2>2. CASE ToCome(w, c)
    <3>1. PICK t \in todo : t.item.op = "member" /\ t.item.who = w
      BY <2>2 DEF ToCome
    <3>2. t \in todo'
      BY <1>1, <1>3, <1>8, <3>1
    <3> QED BY <3>1, <3>2 DEF ToCome
  <2>3. CASE Kept(w, c)
    <3>1. PICK j \in Held(w) : pos[j].org = c /\ j \notin Ends
      BY <2>3 DEF Kept
    <3>2. j # i /\ j \in Held(w)' /\ j \notin Ends'
      BY <1>6, <1>9, <1>10, <3>1
    <3>3. pos'[j] = pos[j]
      BY <1>13, <3>2
    <3> QED BY <3>1, <3>2, <3>3 DEF Kept
  <2> QED BY <2>1, <2>2, <2>3
<1> QED BY <1>11, <1>12, <1>14, <1>15 DEF OnTheWay

(* The next of what came of a member is saved: a membership that goes on,  *)
(* or one that is new.                                                     *)
LEMMA HandOnTheWay ==
    ASSUME TypeInv, OnTheWay, NEW item \in Items, next # <<>>,
           Lengthens(item) \/ Enters(item), Write(item)
    PROVE  OnTheWay'
<1>1. item \in Item /\ item.op \in {"save", "new"}
  BY InHand DEF Lengthens, Enters
<1>2. LoopItems /\ HandItems /\ NoneOver /\ NoneMissing
  BY DEF OnTheWay
<1>3. /\ item = next[1] /\ Left(item) = todo
      /\ Len(next) \in Nat /\ Len(next) > 0
      /\ Rest \in Seq(Work) /\ Len(Rest) = Len(next) - 1
      /\ \A n \in 1..Len(Rest) : Rest[n] = next[n + 1] /\ n + 1 \in 1..Len(next)
      /\ \A n \in 1..Len(next) : n # 1 => n - 1 \in 1..Len(Rest) /\ Rest[n - 1] = next[n]
  BY <1>2, WhichItem
<1>4. next' = Rest /\ todo' = todo /\ today' = today
  <2>1. Took(item, <<>>) /\ today' = today
    BY DEF Write
  <2> QED BY <1>3, <2>1 DEF Took
<1>5. lastId \in Nat /\ \A j \in DOMAIN pos : j \in Nat /\ j # lastId + 1 /\ pos[j] \in Row
  BY Rows DEF TypeInv, TypeOK
<1>6. PICK i \in Nat, row \in Row :
        /\ pos' = Put(i, row)
        /\ row = item.row
        /\ row.title = "coalition" /\ row.org \in Due(row.who)
        /\ i \in DOMAIN pos => /\ pos[i].title = "coalition" /\ row = [pos[i] EXCEPT !.end = Future]
                               /\ item.op = "save"
        /\ i \notin DOMAIN pos => item.op = "new" /\ Active(row, today)
  <2>1. CASE Lengthens(item)
    <3>1. /\ item.op = "save" /\ item.id \in DOMAIN pos /\ pos[item.id].title = "coalition"
          /\ pos[item.id].org \in Due(pos[item.id].who)
          /\ item.row = [pos[item.id] EXCEPT !.end = Future]
      BY <2>1 DEF Lengthens
    <3>2. item.row.title = "coalition" /\ item.row.org \in Due(item.row.who)
      BY <1>5, <3>1 DEF Row
    <3>3. pos' = Put(item.id, item.row)
      BY <3>1 DEF Write
    <3>4. item.id \in Nat /\ item.row \in Row
      BY <1>1, <3>1, Kinds
    <3> QED BY <3>1, <3>2, <3>3, <3>4
  <2>2. CASE Enters(item)
    <3>1. /\ item.op = "new" /\ item.row.org \in Due(item.row.who)
          /\ item.row = Position(item.row.who, item.row.org, "coalition", None, today, Future)
      BY <2>2 DEF Enters
    <3>2. pos' = Put(lastId + 1, item.row)
      BY <3>1 DEF Write
    <3>3. item.row \in Row
      BY <1>1, <3>1, Kinds
    <3>4. item.row.title = "coalition" /\ item.row.start = today /\ item.row.end = Future
      BY <3>1 DEF Position
    <3>5. Active(item.row, today)
      BY <3>3, <3>4, HeldFrom
    <3>6. lastId + 1 \in Nat /\ lastId + 1 \notin DOMAIN pos
      BY <1>5
    <3> QED BY <3>1, <3>2, <3>3, <3>4, <3>5, <3>6
  <2> QED BY <2>1, <2>2
<1>7. i \in DOMAIN pos => pos[i].title = "coalition" /\ \E end : row = [pos[i] EXCEPT !.end = end]
  BY <1>6
<1>8. /\ \A w : Due(w)' = Due(w)
      /\ Members' = Members
      /\ \A w, j : j \in Held(w)' <=>
            (j # i /\ j \in Held(w)) \/ (j = i /\ row.who = w /\ Active(row, today))
  BY <1>4, <1>6, SameParties
<1>9. /\ \A x : Shortens(x) => Shortens(x)'
      /\ \A x : Lengthens(x) => Lengthens(x)'
      /\ \A x : Enters(x) => Enters(x)'
      /\ \A x : Asks(x) => Asks(x)'
  BY <1>4, <1>6, <1>7, SameItems
<1>10. /\ DOMAIN pos' = DOMAIN pos \cup {i} /\ pos'[i] = row
       /\ \A j \in DOMAIN pos : j # i => pos'[j] = pos[j]
  <2>1. pos' = Put(i, row)
    BY <1>6
  <2> QED BY <2>1, PutTyped
<1>11. Ends' = Ends /\ Ends \subseteq DOMAIN pos
  <2>1. Ends' = Ends
    BY <1>4 DEF Ends
  <2>2. Ends \subseteq DOMAIN pos
    BY <1>2 DEF Ends, LoopItems, Shortens
  <2> QED BY <2>1, <2>2
<1>12. LoopItems'
  BY <1>2, <1>4, <1>9 DEF LoopItems
<1>13. HandItems'
  <2> SUFFICES ASSUME NEW n \in 1..Len(next')
               PROVE  (Asks(next[n]) \/ Lengthens(next[n]) \/ Enters(next[n]))'
    BY DEF HandItems
  <2>1. PICK x : x = next[n + 1] /\ (Asks(x) \/ Lengthens(x) \/ Enters(x))
    <3>1. n + 1 \in 1..Len(next)
      BY <1>3, <1>4
    <3> QED BY <1>2, <3>1 DEF HandItems
  <2>2. Asks(x)' \/ Lengthens(x)' \/ Enters(x)'
    BY <1>9, <2>1
  <2>3. next'[n] = x
    BY <1>3, <1>4, <2>1
  <2> QED BY <2>2, <2>3 DEF Asks, Lengthens, Enters, Due, In, Of, Current
<1>14. NoneOver'
  <2> SUFFICES ASSUME NEW w \in Members', NEW j \in Held(w)'
               PROVE  (pos[j].org \in Due(w))' \/ j \in Ends'
    BY DEF NoneOver
  <2>1. CASE j # i
    <3>1. w \in Members /\ j \in Held(w) /\ j \in DOMAIN pos
      BY <1>8, <2>1 DEF Held, Of, Current
    <3>2. pos[j].org \in Due(w) \/ j \in Ends
      BY <1>2, <3>1 DEF NoneOver
    <3> QED BY <1>8, <1>10, <1>11, <2>1, <3>1, <3>2
  <2>2. CASE j = i
    <3>1. row.who = w
      BY <1>8, <2>2
    <3> QED BY <1>6, <1>8, <1>10, <2>2, <3>1
  <2> QED BY <2>1, <2>2
<1>15. NoneMissing'
  <2> SUFFICES ASSUME NEW w \in Members', NEW c \in Due(w)'
               PROVE  ToCome(w, c)' \/ Kept(w, c)'
    BY DEF NoneMissing
  <2>1. ToCome(w, c) \/ Kept(w, c)
    BY <1>2, <1>8 DEF NoneMissing
  <2>2. CASE \E t \in todo : t.item.op = "member" /\ t.item.who = w
    BY <1>4, <2>2 DEF ToCome
  <2>3. ASSUME NEW n \in 1..Len(next), next[n].op = "join" /\ next[n].who = w /\ next[n].org = c
        PROVE  ToCome(w, c)'
    <3>1. n # 1
      BY <1>1, <1>3, <2>3
    <3>2. n - 1 \in 1..Len(Rest) /\ Rest[n - 1] = next[n]
      BY <1>3, <3>1
    <3>3. PICK k \in 1..Len(Rest) : Rest[k] = next[n]
      BY <3>2
    <3>4. next'[k].op = "join" /\ next'[k].who = w /\ next'[k].org = c /\ k \in 1..Len(next')
      BY <1>4, <2>3, <3>3
    <3> QED BY <3>4 DEF ToCome
  <2>4. ASSUME NEW n \in 1..Len(next), n # 1,
               next[n].op = "new" /\ next[n].row.who = w /\ next[n].row.org = c
        PROVE  ToCome(w, c)'
    <3>1. n - 1 \in 1..Len(Rest) /\ Rest[n - 1] = next[n]
      BY <1>3, <2>4
    <3>2. PICK k \in 1..Len(Rest) : Rest[k] = next[n]
      BY <3>1
    <3>3. next'[k].op = "new" /\ next'[k].row.who = w /\ next'[k].row.org = c /\ k \in 1..Len(next')
      BY <1>4, <2>4, <3>2
    <3> QED BY <3>3 DEF ToCome
  <2>5. CASE item.op = "new" /\ row.who = w /\ row.org = c
    <3>1. i \notin DOMAIN pos /\ Active(row, today)
      BY <1>6, <2>5
    <3>2. i \in Held(w)' /\ i \notin Ends' /\ pos'[i].org = c
      BY <1>8, <1>10, <1>11, <2>5, <3>1
    <3> QED BY <3>2 DEF Kept
  <2>6. CASE Kept(w, c)
    <3>1. PICK j \in Held(w) : pos[j].org = c /\ j \notin Ends
      BY <2>6 DEF Kept
    <3>2. j \in DOMAIN pos /\ Active(pos[j], today) /\ pos[j].who = w
      BY <3>1 DEF Held, Of, Current
    <3>3. CASE j # i
      <4>1. j \in Held(w)' /\ j \notin Ends' /\ pos'[j].org = c
        BY <1>8, <1>10, <1>11, <3>1, <3>2, <3>3
      <4> QED BY <4>1 DEF Kept
    <3>4. CASE j = i
      <4>1. row = [pos[j] EXCEPT !.end = Future] /\ pos[j] \in Row
        BY <1>5, <1>6, <3>2, <3>4
      <4>2. Active(row, today) /\ row.who = w /\ row.org = c
        <5>1. Active([pos[j] EXCEPT !.end = Future], today)
          BY <3>2, <4>1, HeldFrom
        <5> QED BY <3>1, <3>2, <4>1, <5>1 DEF Row
      <4>3. j \in Held(w)' /\ j \notin Ends' /\ pos'[j].org = c
        BY <1>8, <1>10, <1>11, <3>1, <3>4, <4>2
      <4> QED BY <4>3 DEF Kept
    <3> QED BY <3>3, <3>4
  <2>7. ToCome(w, c) => \/ \E t \in todo : t.item.op = "member" /\ t.item.who = w
                        \/ \E n \in 1..Len(next) : next[n].op = "join" /\ next[n].who = w /\ next[n].org = c
                        \/ \E n \in 1..Len(next) : n # 1 /\ next[n].op = "new" /\ next[n].row.who = w
                                                   /\ next[n].row.org = c
                        \/ item.op = "new" /\ row.who = w /\ row.org = c
    BY <1>3, <1>6 DEF ToCome
  <2> QED BY <2>1, <2>2, <2>3, <2>4, <2>5, <2>6, <2>7
<1> QED BY <1>12, <1>13, <1>14, <1>15 DEF OnTheWay

(* A member is looked at: what came of it is in hand.                      *)
LEMMA MemberOnTheWay ==
    ASSUME TypeInv, OnTheWay, NEW item \in Items, item.op = "member", Read(item)
    PROVE  OnTheWay'
<1>1. LoopItems /\ HandItems /\ NoneOver /\ NoneMissing
  BY DEF OnTheWay
<1>2. ~Shortens(item) /\ ~Asks(item) /\ ~Lengthens(item) /\ ~Enters(item)
  BY DEF Shortens, Asks, Lengthens, Enters
<1>3. /\ next = <<>> /\ Rest = <<>>
      /\ Left(item) \subseteq todo
      /\ \A u \in todo : u.item # item => u \in Left(item)
  BY <1>1, <1>2, WhichItem
<1>4. UNCHANGED <<pos, today>> /\ Took(item, Joins(item.who))
  BY DEF Read
<1>5. item.who \in Person /\ item \in Item
  BY InHand, Kinds
<1>6. PICK who \in Person : who = item.who
  BY <1>5
<1>7. /\ Joins(who) \in Seq(Plain)
      /\ \A n \in 1..Len(Joins(who)) : \E c \in Due(who) : Joins(who)[n] = Join(who, c)
      /\ \A c \in Due(who) : \E n \in 1..Len(Joins(who)) : Joins(who)[n] = Join(who, c)
  BY PlainClosed, JoinsTyped
<1>8. next' = Joins(who) /\ todo' = Left(item)
  <2>1. next' = Joins(who) \o <<>> /\ todo' = Left(item)
    BY <1>3, <1>4, <1>6 DEF Took
  <2>2. Joins(who) \o <<>> = Joins(who)
    BY <1>7
  <2> QED BY <2>1, <2>2
<1>9. /\ \A w : Due(w)' = Due(w) /\ Held(w)' = Held(w)
      /\ Members' = Members
      /\ \A x : Shortens(x) => Shortens(x)'
  BY <1>4 DEF Due, In, Of, Current, Held, Members, Racers, Race, Shortens, Yesterday, DayBefore
<1>10. Ends' = Ends
  <2>1. \A u \in todo : u.item.op = "save" => u \in Left(item)
    BY <1>3
  <2> QED BY <1>3, <1>8, <2>1 DEF Ends
<1>11. LoopItems'
  BY <1>1, <1>3, <1>8, <1>9 DEF LoopItems
<1>12. HandItems'
  <2> SUFFICES ASSUME NEW n \in 1..Len(next')
               PROVE  Asks(next[n])'
    BY DEF HandItems
  <2>1. PICK c \in Due(who) : next'[n] = Join(who, c)
    BY <1>7, <1>8
  <2>2. next'[n].op = "join" /\ next'[n].org = c /\ next'[n].who = who
    BY <2>1 DEF Join
  <2>3. c \in Due(who)'
    BY <1>9
  <2> QED BY <2>2, <2>3 DEF Asks, Due, In, Of, Current
<1>13. NoneOver'
  BY <1>1, <1>4, <1>9, <1>10 DEF NoneOver
<1>14. NoneMissing'
  <2> SUFFICES ASSUME NEW w \in Members', NEW c \in Due(w)'
               PROVE  ToCome(w, c)' \/ Kept(w, c)'
    BY DEF NoneMissing
  <2>1. c \in Due(w) /\ (ToCome(w, c) \/ Kept(w, c))
    BY <1>1, <1>9 DEF NoneMissing
  <2>2. CASE ToCome(w, c)
    <3>1. PICK t \in todo : t.item.op = "member" /\ t.item.who = w
      BY <1>3, <2>2 DEF ToCome
    <3>2. CASE w = who
      <4>1. PICK n \in 1..Len(next') : next'[n] = Join(who, c)
        BY <1>7, <1>8, <2>1, <3>2
      <4>2. next'[n].op = "join" /\ next'[n].org = c /\ next'[n].who = w
        BY <3>2, <4>1 DEF Join
      <4> QED BY <4>1, <4>2 DEF ToCome
    <3>3. CASE w # who
      <4>1. t \in todo'
        BY <1>3, <1>6, <1>8, <3>1, <3>3
      <4> QED BY <3>1, <4>1 DEF ToCome
    <3> QED BY <3>2, <3>3
  <2>3. CASE Kept(w, c)
    BY <1>4, <1>9, <1>10, <2>3 DEF Kept
  <2> QED BY <2>1, <2>2, <2>3
<1> QED BY <1>11, <1>12, <1>13, <1>14 DEF OnTheWay

(* A coalition that is due is joined, unless two rows say it is already.   *)
LEMMA JoinOnTheWay ==
    ASSUME TypeInv, OnTheWay, NEW item \in Items, JoinCoalition(item), job' # None
    PROVE  OnTheWay'
<1>1. LoopItems /\ HandItems /\ NoneOver /\ NoneMissing
  BY DEF OnTheWay
<1>2. item.op = "join" /\ ~Shortens(item) /\ ~Lengthens(item) /\ ~Enters(item)
  BY DEF JoinCoalition, Shortens, Lengthens, Enters
<1>3. /\ next # <<>> /\ item = next[1] /\ Left(item) = todo /\ Asks(item)
      /\ Len(next) \in Nat /\ Len(next) > 0
      /\ Rest \in Seq(Work) /\ Len(Rest) = Len(next) - 1
      /\ \A n \in 1..Len(Rest) : Rest[n] = next[n + 1] /\ n + 1 \in 1..Len(next)
      /\ \A n \in 1..Len(next) : n # 1 => n - 1 \in 1..Len(Rest) /\ Rest[n - 1] = next[n]
  BY <1>1, <1>2, WhichItem
<1>4. UNCHANGED <<pos, today>>
  BY DEF JoinCoalition
<1>5. PICK who, org : who = item.who /\ org = item.org
  OBVIOUS
<1>6. org \in Due(who)
  BY <1>3, <1>5 DEF Asks
<1> DEFINE rows == In({org}, Of(who, Current("coalition")))
           new == Position(who, org, "coalition", None, today, Future)
<1>7. PICK x, gone :
        /\ next' = <<x>> \o Rest
        /\ todo' \subseteq todo
        /\ \A u \in todo : (u.item.op = "save" => u.item.id \notin gone) <=> u \in todo'
        /\ \/ /\ gone = {} /\ x = New(new)
           \/ \E i \in rows : gone = {i} /\ x = Ended(i, Future)
  <2>1. CASE /\ \E i \in rows : rows = {i} /\ next' = <<Ended(i, Future)>> \o Rest
             /\ todo' = Discard(Left(item), rows)
    <3>1. PICK i \in rows : rows = {i} /\ next' = <<Ended(i, Future)>> \o Rest
      BY <2>1
    <3>2. todo' = {t \in todo : t.item.op = "save" => t.item.id \notin rows}
      BY <1>3, <2>1 DEF Discard
    <3> HIDE DEF rows
    <3> QED BY <3>1, <3>2
  <2>2. CASE Took(item, <<New(new)>>)
    <3>1. next' = <<New(new)>> \o Rest /\ todo' = todo
      BY <1>3, <2>2 DEF Took
    <3> HIDE DEF new, rows
    <3> QED BY <3>1
  <2> QED BY <1>5, <2>1, <2>2 DEF JoinCoalition
<1>8. /\ Len(next') = Len(next) /\ next'[1] = x
      /\ \A n \in 1..Len(next) : n # 1 => next'[n] = next[n]
  <2>1. /\ Len(<<x>> \o Rest) = 1 + Len(Rest) /\ (<<x>> \o Rest)[1] = x
        /\ \A n \in 1..Len(Rest) : (<<x>> \o Rest)[n + 1] = Rest[n]
    BY <1>3
  <2>2. \A n \in 1..Len(next) : n # 1 => (<<x>> \o Rest)[n] = next[n]
    <3> SUFFICES ASSUME NEW n \in 1..Len(next), n # 1 PROVE (<<x>> \o Rest)[n] = next[n]
      OBVIOUS
    <3>1. n - 1 \in 1..Len(Rest) /\ Rest[n - 1] = next[n] /\ (n - 1) + 1 = n
      BY <1>3
    <3> QED BY <2>1, <3>1
  <2> QED BY <1>3, <1>7, <2>1, <2>2
<1>9. /\ \A w : Due(w)' = Due(w) /\ Held(w)' = Held(w)
      /\ Members' = Members
      /\ \A y : Shortens(y) => Shortens(y)'
      /\ \A y : Lengthens(y) => Lengthens(y)'
      /\ \A y : Enters(y) => Enters(y)'
      /\ \A y : Asks(y) => Asks(y)'
  BY <1>4 DEF Due, In, Of, Current, Held, Members, Racers, Race, Shortens, Lengthens, Enters, Asks,
              Yesterday, DayBefore
<1>10. Ends' \subseteq Ends /\ \A j \in Ends : j \in gone \/ j \in Ends'
  BY <1>7 DEF Ends
<1>11. /\ Lengthens(x) \/ Enters(x)
       /\ x.op = "new" => x.row.who = who /\ x.row.org = org
       /\ gone # {} => \E i \in Held(who) : gone = {i} /\ pos[i].org = org /\ i \notin Ends'
       /\ gone = {} => x.op = "new"
  <2>1. CASE gone = {} /\ x = New(new)
    <3>1. x.op = "new" /\ x.row = new
      BY <2>1 DEF New
    <3>2. new.who = who /\ new.org = org
      BY DEF Position
    <3>3. Enters(x)
      BY <1>6, <3>1, <3>2 DEF Enters
    <3> QED BY <2>1, <3>1, <3>2, <3>3
  <2>2. ASSUME NEW i \in rows, gone = {i}, x = Ended(i, Future)
        PROVE  /\ Lengthens(x) /\ x.op # "new" /\ gone # {}
               /\ i \in Held(who) /\ gone = {i} /\ pos[i].org = org /\ i \notin Ends'
    <3>1. /\ i \in DOMAIN pos /\ pos[i].title = "coalition" /\ pos[i].org = org /\ pos[i].who = who
          /\ i \in Held(who)
      BY DEF In, Of, Current, Held
    <3>2. x.op = "save" /\ x.id = i /\ x.row = [pos[i] EXCEPT !.end = Future]
      BY <2>2 DEF Ended, Save
    <3>3. Lengthens(x)
      BY <1>6, <3>1, <3>2 DEF Lengthens
    <3>4. i \notin Ends'
      BY <1>7, <2>2 DEF Ends
    <3> QED BY <2>2, <3>1, <3>2, <3>3, <3>4
  <2> HIDE DEF rows, new
  <2> QED BY <1>7, <2>1, <2>2
<1> HIDE DEF rows, new
<1>12. LoopItems'
  BY <1>1, <1>7, <1>9 DEF LoopItems
<1>13. HandItems'
  <2> SUFFICES ASSUME NEW n \in 1..Len(next')
               PROVE  (Asks(next[n]) \/ Lengthens(next[n]) \/ Enters(next[n]))'
    BY DEF HandItems
  <2>1. PICK y : y = next'[n]
    OBVIOUS
  <2>2. Asks(y)' \/ Lengthens(y)' \/ Enters(y)'
    <3>1. CASE n = 1
      BY <1>8, <1>9, <1>11, <2>1, <3>1
    <3>2. CASE n # 1
      <4>1. n \in 1..Len(next) /\ y = next[n]
        BY <1>8, <2>1, <3>2
      <4> QED BY <1>1, <1>9, <4>1 DEF HandItems
    <3> QED BY <3>1, <3>2
  <2> QED BY <2>1, <2>2 DEF Asks, Lengthens, Enters, Due, In, Of, Current
<1>14. NoneOver'
  <2> SUFFICES ASSUME NEW w \in Members', NEW j \in Held(w)'
               PROVE  (pos[j].org \in Due(w))' \/ j \in Ends'
    BY DEF NoneOver
  <2>1. w \in Members /\ j \in Held(w) /\ (pos[j].org \in Due(w) \/ j \in Ends)
    BY <1>1, <1>9 DEF NoneOver
  <2>2. CASE j \in gone
    <3>1. PICK i \in Held(who) : gone = {i} /\ pos[i].org = org
      BY <1>11, <2>2
    <3>2. j = i /\ pos[j].who = who /\ pos[j].who = w
      BY <2>1, <2>2, <3>1 DEF Held, Of
    <3> QED BY <1>4, <1>6, <1>9, <3>1, <3>2
  <2> QED BY <1>4, <1>9, <1>10, <2>1, <2>2
<1>15. NoneMissing'
  <2> SUFFICES ASSUME NEW w \in Members', NEW c \in Due(w)'
               PROVE  ToCome(w, c)' \/ Kept(w, c)'
    BY DEF NoneMissing
  <2>1. ToCome(w, c) \/ Kept(w, c)
    BY <1>1, <1>9 DEF NoneMissing
  <2>2. CASE \E t \in todo : t.item.op = "member" /\ t.item.who = w
    BY <1>7, <2>2 DEF ToCome
  <2>3. CASE who = w /\ org = c
    <3>1. CASE gone = {}
      <4>1. 1 \in 1..Len(next') /\ next'[1].op = "new" /\ next'[1].row.who = w /\ next'[1].row.org = c
        BY <1>3, <1>8, <1>11, <2>3, <3>1
      <4> QED BY <4>1 DEF ToCome
    <3>2. CASE gone # {}
      <4>1. PICK i \in Held(who) : pos[i].org = org /\ i \notin Ends'
        BY <1>11, <3>2
      <4>2. i \in Held(w)' /\ pos'[i].org = c /\ i \notin Ends'
        BY <1>4, <1>9, <2>3, <4>1
      <4> QED BY <4>2 DEF Kept
    <3> QED BY <3>1, <3>2
  <2>4. ASSUME NEW n \in 1..Len(next), n # 1,
               \/ next[n].op = "join" /\ next[n].who = w /\ next[n].org = c
               \/ next[n].op = "new" /\ next[n].row.who = w /\ next[n].row.org = c
        PROVE  ToCome(w, c)'
    <3>1. n \in 1..Len(next') /\ next'[n] = next[n]
      BY <1>8, <2>4
    <3> QED BY <2>4, <3>1 DEF ToCome
  <2>5. CASE Kept(w, c)
    <3>1. PICK j \in Held(w) : pos[j].org = c /\ j \notin Ends
      BY <2>5 DEF Kept
    <3>2. j \in Held(w)' /\ pos'[j].org = c /\ j \notin Ends'
      BY <1>4, <1>9, <1>10, <3>1
    <3> QED BY <3>2 DEF Kept
  <2>6. ToCome(w, c) =>
            \/ \E t \in todo : t.item.op = "member" /\ t.item.who = w
            \/ who = w /\ org = c
            \/ \E n \in 1..Len(next) : n # 1 /\
                    \/ next[n].op = "join" /\ next[n].who = w /\ next[n].org = c
                    \/ next[n].op = "new" /\ next[n].row.who = w /\ next[n].row.org = c
    BY <1>2, <1>3, <1>5 DEF ToCome
  <2> QED BY <2>1, <2>2, <2>3, <2>4, <2>5, <2>6
<1> QED BY <1>12, <1>13, <1>14, <1>15 DEF OnTheWay

(* The members and the memberships of their coalitions, when the command   *)
(* begins.                                                                 *)
LEMMA CoalitionsStart ==
    ASSUME TypeInv, Coalitions
    PROVE  OnTheWay'
<1> DEFINE inParty == {i \in Current("member") : pos[i].org \in Party /\ CoalitionOf[pos[i].org] # None}
           members == {pos[i].who : i \in inParty} \cap {pos[i].who : i \in Race}
           ids == {j \in Current("coalition") : pos[j].who \in members}
           phases == <<{[op |-> "member", who |-> w] : w \in members}, {Ended(i, Yesterday) : i \in ids}>>
<1>1. Begin("coalitions", {}, phases)
  BY DEF Coalitions
<1>2. members = Members
  BY DEF Members, Racers, Due, In, Of
<1>3. /\ UNCHANGED <<pos, today>> /\ next' = <<>>
      /\ todo' = UNION {{[loop |-> n, item |-> x] : x \in phases[n]} : n \in DOMAIN phases}
  <2>1. job = None
    BY <1>1 DEF Begin
  <2>2. UNCHANGED <<pos, today, next>> /\ next = <<>>
    BY <1>1, <2>1 DEF Begin, TypeInv
  <2>3. todo' = UNION {{[loop |-> n, item |-> x] : x \in phases[n]} : n \in DOMAIN phases}
    BY <1>1 DEF Begin
  <2> QED BY <2>2, <2>3
<1>4. DOMAIN phases = {1, 2}
  OBVIOUS
<1>5. /\ \A w \in Members : \E t \in todo' : t.item = [op |-> "member", who |-> w]
      /\ \A i \in ids : \E t \in todo' : t.item = Ended(i, Yesterday)
      /\ \A t \in todo' : \/ \E w \in Members : t.item = [op |-> "member", who |-> w]
                          \/ \E i \in ids : t.item = Ended(i, Yesterday)
  <2> DEFINE ask == {[op |-> "member", who |-> w] : w \in members}
             cut == {Ended(i, Yesterday) : i \in ids}
  <2>1. phases[1] = ask /\ phases[2] = cut
    OBVIOUS
  <2>2. \A t : t \in todo' <=> \/ \E x \in ask : t = [loop |-> 1, item |-> x]
                               \/ \E x \in cut : t = [loop |-> 2, item |-> x]
    <3> HIDE DEF ask, cut, phases
    <3> QED BY <1>3, <1>4, <2>1
  <2>3. \A w \in Members : [op |-> "member", who |-> w] \in ask
    BY <1>2
  <2>4. \A i \in ids : Ended(i, Yesterday) \in cut
    OBVIOUS
  <2>5. /\ \A x \in ask : \E w \in Members : x = [op |-> "member", who |-> w]
        /\ \A x \in cut : \E i \in ids : x = Ended(i, Yesterday)
    BY <1>2
  <2> HIDE DEF ask, cut, phases, ids, members
  <2>6. \A x \in ask : \E t \in todo' : t.item = x
    <3> SUFFICES ASSUME NEW x \in ask PROVE \E t \in todo' : t.item = x
      OBVIOUS
    <3>1. PICK t : t = [loop |-> 1, item |-> x]
      OBVIOUS
    <3>2. t \in todo' /\ t.item = x
      BY <2>2, <3>1
    <3> QED BY <3>2
  <2>7. \A x \in cut : \E t \in todo' : t.item = x
    <3> SUFFICES ASSUME NEW x \in cut PROVE \E t \in todo' : t.item = x
      OBVIOUS
    <3>1. PICK t : t = [loop |-> 2, item |-> x]
      OBVIOUS
    <3>2. t \in todo' /\ t.item = x
      BY <2>2, <3>1
    <3> QED BY <3>2
  <2>8. \A t \in todo' : t.item \in ask \/ t.item \in cut
    BY <2>2
  <2> QED BY <2>3, <2>4, <2>5, <2>6, <2>7, <2>8
<1>6. \A i \in ids : /\ Shortens(Ended(i, Yesterday))
                     /\ Ended(i, Yesterday).op = "save" /\ Ended(i, Yesterday).id = i
  BY DEF Shortens, Ended, Save, Current
<1>7. ids = {j \in Current("coalition") : pos[j].who \in Members}
  BY <1>2
<1> HIDE DEF phases, ids, members, inParty
<1>8. /\ \A w : Due(w)' = Due(w) /\ Held(w)' = Held(w)
      /\ Members' = Members
      /\ \A y : Shortens(y) => Shortens(y)'
  BY <1>3 DEF Due, In, Of, Current, Held, Members, Racers, Race, Shortens, Yesterday, DayBefore
<1>9. LoopItems'
  <2> SUFFICES ASSUME NEW t \in todo'
               PROVE  t.item.op = "member" \/ Shortens(t.item)'
    BY DEF LoopItems
  <2>1. PICK x : x = t.item
    OBVIOUS
  <2>2. x.op = "member" \/ Shortens(x)
    <3>1. CASE \E w \in Members : x = [op |-> "member", who |-> w]
      BY <3>1
    <3>2. CASE \E i \in ids : x = Ended(i, Yesterday)
      BY <1>6, <3>2
    <3> QED BY <1>5, <2>1, <3>1, <3>2
  <2> QED BY <1>8, <2>1, <2>2
<1>10. HandItems'
  BY <1>3 DEF HandItems
<1>11. NoneOver'
  <2> SUFFICES ASSUME NEW w \in Members', NEW j \in Held(w)'
               PROVE  j \in Ends'
    BY DEF NoneOver
  <2>1. j \in ids
    BY <1>7, <1>8 DEF Held, Of
  <2>2. PICK t \in todo' : t.item = Ended(j, Yesterday)
    BY <1>5, <2>1
  <2>3. t.item.op = "save" /\ t.item.id = j
    BY <1>6, <2>1, <2>2
  <2> QED BY <2>3 DEF Ends
<1>12. NoneMissing'
  <2> SUFFICES ASSUME NEW w \in Members', NEW c \in Due(w)'
               PROVE  ToCome(w, c)'
    BY DEF NoneMissing
  <2>1. PICK t \in todo' : t.item = [op |-> "member", who |-> w]
    BY <1>5, <1>8
  <2> QED BY <2>1 DEF ToCome
<1> QED BY <1>9, <1>10, <1>11, <1>12 DEF OnTheWay

(* Nothing else is done by the command, while nothing disturbs it.         *)
LEMMA WayStep ==
    ASSUME TypeInv, Coalescing, OnTheWay, Step, job' # None
    PROVE  OnTheWay'
<1>1. PICK item \in Items :
        Write(item) \/ Read(item) \/ Add(item) \/ JoinCoalition(item) \/ FixRow(item)
  BY DEF Step
<1>2. LoopItems /\ HandItems
  BY DEF OnTheWay
<1>3. \/ next = <<>> /\ Rest = <<>> /\ (item.op = "member" \/ Shortens(item))
      \/ next # <<>> /\ (Asks(item) \/ Lengthens(item) \/ Enters(item))
  BY <1>2, WhichItem
<1>4. item.op \in {"member", "save", "join", "new"}
  BY <1>3 DEF Shortens, Asks, Lengthens, Enters
<1>5. CASE JoinCoalition(item)
  BY <1>5, JoinOnTheWay
<1>6. CASE Read(item)
  <2>1. item.op = "member"
    BY <1>4, <1>6 DEF Read
  <2> QED BY <1>6, <2>1, MemberOnTheWay
<1>7. CASE Write(item)
  <2>1. item.op \in {"save", "new", "delete"}
    BY <1>7 DEF Write
  <2>2. ~Asks(item) /\ item.op # "member"
    BY <2>1 DEF Asks
  <2>3. CASE next = <<>> /\ Rest = <<>> /\ Shortens(item)
    BY <1>7, <2>3, ShortenOnTheWay
  <2>4. CASE next # <<>> /\ (Lengthens(item) \/ Enters(item))
    BY <1>7, <2>4, HandOnTheWay
  <2> QED BY <1>3, <2>2, <2>3, <2>4
<1>8. CASE Add(item) \/ FixRow(item)
  BY <1>4, <1>8 DEF Add, FixRow
<1> QED BY <1>1, <1>5, <1>6, <1>7, <1>8

(* When nothing is left to be done, the coalitions are as they should be.  *)
LEMMA WayEnds ==
    ASSUME OnTheWay, todo = {}, next = <<>>, UNCHANGED <<pos, today>>
    PROVE  CoalitionsFollow'
<1>1. NoneOver /\ NoneMissing
  BY DEF OnTheWay
<1>2. Ends = {} /\ \A w, c : ~ToCome(w, c)
  BY DEF Ends, ToCome
<1>3. \A w \in Members : {pos[i].org : i \in Held(w)} = Due(w)
  <2> SUFFICES ASSUME NEW w \in Members PROVE {pos[i].org : i \in Held(w)} = Due(w)
    OBVIOUS
  <2>1. \A i \in Held(w) : pos[i].org \in Due(w)
    BY <1>1, <1>2 DEF NoneOver
  <2>2. \A c \in Due(w) : \E i \in Held(w) : pos[i].org = c
    BY <1>1, <1>2 DEF NoneMissing, Kept
  <2> QED BY <2>1, <2>2
<1>4. (\A w \in Members : {pos[i].org : i \in Held(w)} = Due(w))'
  <2>1. Members' = Members /\ \A w : Due(w)' = Due(w) /\ Held(w)' = Held(w)
    BY DEF Members, Racers, Race, Due, Held, In, Of, Current
  <2> QED BY <1>3, <2>1
<1> QED BY <1>4 DEF CoalitionsFollow, Members, Racers, Held, Due

LEMMA CoalitionStart == TypeInv /\ Init => CoalitionInv
<1> SUFFICES ASSUME Init PROVE CoalitionInv
  OBVIOUS
<1>1. job = None /\ note.last = None /\ ~note.quiet
  BY DEF Init
<1>2. "coalitions" # None
  BY PositionAssumption DEF Command
<1> QED BY <1>1, <1>2 DEF CoalitionInv, Coalescing, CoalitionsFollow

(* Another command begins, or the one that runs is disturbed or killed.    *)
LEMMA NothingKnown ==
    ASSUME note'.last = None, ~(job' = "coalitions" /\ note'.quiet)
    PROVE  CoalitionInv'
<1>1. "coalitions" # None
  BY PositionAssumption DEF Command
<1> QED BY <1>1 DEF CoalitionInv, Coalescing, CoalitionsFollow

LEMMA BeginNote ==
    ASSUME TypeInv, NEW name, NEW owed, NEW phases, Begin(name, owed, phases)
    PROVE  note'.last = None /\ job' = name
<1>1. note \in [quiet : BOOLEAN, last : Command \cup {None}, rounds : Nat, owed : SUBSET Person]
  BY DEF TypeInv
<1>2. note' = [note EXCEPT !.quiet = TRUE, !.last = None,
                           !.rounds = IF name = "aspirants" THEN @ ELSE 0,
                           !.owed = IF name = "aspirants" THEN {} ELSE @ \cup owed]
  BY DEF Begin
<1> QED BY <1>1, <1>2 DEF Begin

LEMMA CoalitionStays == TypeInv /\ CoalitionInv /\ [Next]_vars => CoalitionInv'
<1> SUFFICES ASSUME TypeInv, CoalitionInv, [Next]_vars PROVE CoalitionInv'
  OBVIOUS
<1>1. "coalitions" # None
  BY PositionAssumption DEF Command
<1>2. note \in [quiet : BOOLEAN, last : Command \cup {None}, rounds : Nat, owed : SUBSET Person]
  BY DEF TypeInv
<1>3. CASE Coalitions
  <2>1. OnTheWay'
    BY <1>3, CoalitionsStart
  <2>2. note'.last = None
    BY <1>3, BeginNote DEF Coalitions
  <2> QED BY <1>1, <2>1, <2>2 DEF CoalitionInv, CoalitionsFollow
<1>4. CASE \E name, owed, phases : name # "coalitions" /\ Begin(name, owed, phases)
  BY <1>4, BeginNote, NothingKnown
<1>5. CASE Step
  <2>1. job # None /\ note.last = None
    <3>1. job # None
      BY <1>5, InHand DEF Step
    <3> QED BY <3>1 DEF CoalitionInv
  <2>2. /\ job' = job \/ job' = None
        /\ note' = note \/ note' = [note EXCEPT !.quiet = FALSE]
    BY <1>5 DEF Step, Write, Read, Add, JoinCoalition, FixRow
  <2>3. note'.last = None /\ (note'.quiet => note.quiet)
    BY <1>2, <2>1, <2>2
  <2>4. CASE job' = "coalitions" /\ note'.quiet
    <3>1. Coalescing /\ OnTheWay /\ job' # None
      BY <1>1, <2>2, <2>3, <2>4 DEF Coalescing, CoalitionInv
    <3>2. OnTheWay'
      BY <1>5, <3>1, WayStep
    <3> QED BY <1>1, <2>3, <3>2 DEF CoalitionInv, CoalitionsFollow
  <2> QED BY <2>3, <2>4, NothingKnown
<1>6. CASE Finish
  <2>1. /\ job # None /\ next = <<>> /\ todo = {} /\ job' = None
        /\ UNCHANGED <<pos, today>>
    BY <1>6 DEF Finish
  <2>2. note.last = None
    BY <2>1 DEF CoalitionInv
  <2>3. CASE note'.last = None
    BY <1>1, <2>1, <2>3, NothingKnown
  <2>4. CASE note'.last # None
    <3>1. note.quiet /\ note'.last = job
      BY <1>2, <1>6, <2>2, <2>4 DEF Finish
    <3>2. CASE job = "coalitions"
      <4>1. OnTheWay
        BY <3>1, <3>2 DEF CoalitionInv, Coalescing
      <4>2. CoalitionsFollow'
        BY <2>1, <4>1, WayEnds
      <4> QED BY <1>1, <2>1, <4>2 DEF CoalitionInv, Coalescing
    <3>3. CASE job # "coalitions"
      <4>1. CoalitionsFollow'
        BY <3>1, <3>3 DEF CoalitionsFollow
      <4> QED BY <1>1, <2>1, <4>1 DEF CoalitionInv, Coalescing
    <3> QED BY <3>2, <3>3
  <2> QED BY <2>3, <2>4
<1>7. CASE Kill \/ ApplyUpdate \/ News
  <2>1. Disturb
    BY <1>7 DEF Kill, ApplyUpdate, News
  <2>2. note'.last = None /\ ~note'.quiet
    BY <1>2, <2>1 DEF Disturb
  <2> QED BY <2>2, NothingKnown
<1>8. CASE CheckNames
  <2>1. UNCHANGED <<pos, today, job, todo, next, note>> /\ job = None
    BY <1>8 DEF CheckNames
  <2>2. CoalitionsFollow
    BY DEF CoalitionInv
  <2>3. CoalitionsFollow'
    BY <2>1, <2>2 DEF CoalitionsFollow, Race, In, Of, Current
  <2> QED BY <1>1, <2>1, <2>3 DEF CoalitionInv, Coalescing
<1>9. CASE UNCHANGED vars
  <2>1. UNCHANGED <<pos, today, job, todo, next, note>>
    BY <1>9 DEF vars
  <2>2. CoalitionsFollow' = CoalitionsFollow
    BY <2>1 DEF CoalitionsFollow, Race, In, Of, Current
  <2>3. Coalescing' = Coalescing
    BY <2>1 DEF Coalescing
  <2>4. OnTheWay' = OnTheWay
    BY <2>1 DEF OnTheWay, LoopItems, HandItems, NoneOver, NoneMissing, ToCome, Kept, Ends, Members, Racers,
                Race, Held, Due, In, Of, Current, Shortens, Lengthens, Enters, Asks, Yesterday, DayBefore
  <2> QED BY <2>1, <2>2, <2>3, <2>4 DEF CoalitionInv
<1>10. CASE Commands /\ ~Coalitions
  <2>1. \E name \in Command \ {"fix", "coalitions"} : Begins(name, Plain)
    BY <1>10, PlainClosed, CommandsBegin
  <2> QED BY <1>4, <2>1 DEF Begins
<1>11. CASE Fix
  BY <1>4, <1>11 DEF Fix
<1> QED BY <1>3, <1>5, <1>6, <1>7, <1>8, <1>9, <1>10, <1>11 DEF Next, Commands

(* Once the coalitions have been assigned and nothing came in between,     *)
(* every aspirant in a party of a coalition holds the coalitions of those  *)
(* parties, and no other: kenya_assign_aspirants_to_coalitions ends no     *)
(* membership that it has just found again.                                *)
THEOREM CoalitionsStayTrue == Spec => []CoalitionsFollow
<1>1. TypeInv /\ CoalitionInv => CoalitionsFollow
  BY DEF CoalitionInv
<1>2. Init => TypeInv /\ CoalitionInv
  BY TypesStart, CoalitionStart
<1>3. TypeInv /\ CoalitionInv /\ [Next]_vars => (TypeInv /\ CoalitionInv)'
  BY TypesStay, CoalitionStays
<1> QED BY <1>1, <1>2, <1>3, PTL DEF Spec

-----------------------------------------------------------------------------
(* An item writes a row with the key it was read with, which nothing but   *)
(* --fix has changed since, also where the row has been deleted in         *)
(* between: there is one key for each id.                                  *)
Names(x) == x.op \in {"save", "switch", "code"}
Named(key) == {x \in Item : Names(x) => Key(x.row) = key[x.id]}
OneEach(key) ==
    /\ \A i \in DOMAIN pos : Key(pos[i]) = key[i]
    /\ \A t \in todo : t.item \in Named(key)
    /\ next \in Seq(Named(key))
KeyInv == \E key : OneEach(key)

LEMMA NamedClosed ==
    ASSUME TypeInv, NEW key, \A i \in DOMAIN pos : Key(pos[i]) = key[i]
    PROVE  Closed(Named(key))
<1>1. Closed(Plain)
  BY PlainClosed
<1>2. Plain \subseteq Item
  BY DEF Plain
<1>3. Closed(Item)
  BY <1>1, <1>2 DEF Closed
<1>4. \A i \in DOMAIN pos, row \in Row :
        Key(row) = Key(pos[i]) =>
            /\ Save(i, row) \in Named(key)
            /\ [op |-> "switch", id |-> i, row |-> row] \in Named(key)
            /\ \A c \in DOMAIN feed : [op |-> "code", id |-> i, row |-> row, code |-> c] \in Named(key)
  <2> SUFFICES ASSUME NEW i \in DOMAIN pos, NEW row \in Row, Key(row) = Key(pos[i])
               PROVE  /\ Save(i, row) \in Named(key)
                      /\ [op |-> "switch", id |-> i, row |-> row] \in Named(key)
                      /\ \A c \in DOMAIN feed :
                            [op |-> "code", id |-> i, row |-> row, code |-> c] \in Named(key)
    OBVIOUS
  <2>1. /\ Save(i, row) \in Item
        /\ [op |-> "switch", id |-> i, row |-> row] \in Item
        /\ \A c \in DOMAIN feed : [op |-> "code", id |-> i, row |-> row, code |-> c] \in Item
    BY <1>3 DEF Closed
  <2>2. Save(i, row).id = i /\ Save(i, row).row = row
    BY DEF Save
  <2> QED BY <2>1, <2>2 DEF Named
<1>5. \A x \in Item : ~Names(x) => x \in Named(key)
  BY DEF Named
<1>6. \A i \in DOMAIN pos : Delete(i) \in Named(key)
  BY <1>3, <1>5 DEF Closed, Names, Delete
<1>7. \A row \in Row : New(row) \in Named(key)
  BY <1>3, <1>5 DEF Closed, Names, New
<1>8. \A w \in Person, p \in Parties : Update(w, p) \in Named(key)
  BY <1>3, <1>5 DEF Closed, Names, Update
<1>9. \A w \in Person, c \in Coalition : Join(w, c) \in Named(key)
  BY <1>3, <1>5 DEF Closed, Names, Join
<1>10. /\ \A w \in Person, c \in Code : [op |-> "stand", code |-> c, who |-> w] \in Named(key)
       /\ \A w \in Person : /\ [op |-> "member", who |-> w] \in Named(key)
                            /\ [op |-> "extend", who |-> w] \in Named(key)
       /\ \A c \in DOMAIN feed : [op |-> "add", code |-> c] \in Named(key)
       /\ [op |-> "endAspirants"] \in Named(key)
  BY <1>3, <1>5 DEF Closed, Names
<1> QED BY <1>4, <1>6, <1>7, <1>8, <1>9, <1>10 DEF Closed

(* When nothing that is left names a row, the rows say what the keys are.  *)
LEMMA NobodyNames ==
    ASSUME TypeInv', \A t \in todo' : ~Names(t.item), \A n \in 1..Len(next') : ~Names(next'[n])
    PROVE  KeyInv'
<1>1. PICK key : key = [i \in DOMAIN pos' |-> Key(pos'[i])]
  OBVIOUS
<1>2. next' \in Seq(Item) /\ todo' \subseteq [loop : 1..3, item : Item]
  BY DEF TypeInv, TypeOK
<1>3. \A t \in todo' : t.item \in Named(key)
  BY <1>2 DEF Named
<1>4. \A n \in 1..Len(next') : next'[n] \in Named(key)
  BY <1>2 DEF Named
<1>5. next' \in Seq(Named(key))
  BY <1>2, <1>4
<1>6. \A i \in DOMAIN pos' : Key(pos'[i]) = key[i]
  BY <1>1
<1>7. OneEach(key)'
  BY <1>3, <1>5, <1>6 DEF OneEach, Named, Names
<1> QED BY <1>7 DEF KeyInv

(* A step of a command that is not --fix.                                  *)
LEMMA StepNames ==
    ASSUME TypeInv, KeyInv, NEW item \in Items, job' # None,
           Write(item) \/ Read(item) \/ Add(item) \/ JoinCoalition(item)
    PROVE  /\ KeyInv'
           /\ \A i \in DOMAIN pos \cap DOMAIN pos' : Key(pos'[i]) = Key(pos[i])
<1>1. item \in Item /\ Sound(item) /\ Rest \in Seq(Work) /\ Left(item) \subseteq todo
  BY InHand
<1>2. job # "fix"
  BY <1>1 DEF Sound, Write, Read, Add, JoinCoalition
<1>3. PICK key : OneEach(key)
  BY DEF KeyInv
<1>4. /\ \A i \in DOMAIN pos : Key(pos[i]) = key[i]
      /\ \A t \in todo : t.item \in Named(key)
      /\ next \in Seq(Named(key))
  BY <1>3 DEF OneEach
<1>5. item \in Named(key)
  BY <1>4 DEF Items, First
<1>6. Saves(Named(key), item)
  <2> SUFFICES ASSUME Names(item), NEW row \in Row, Key(row) = Key(item.row)
               PROVE  Save(item.id, row) \in Named(key)
    BY DEF Saves, Names
  <2>1. item.id \in Nat
    BY <1>1, Kinds DEF Names
  <2>2. Save(item.id, row) \in Item
    BY <2>1, Made
  <2>3. Save(item.id, row).id = item.id /\ Save(item.id, row).row = row
    BY DEF Save
  <2> QED BY <1>5, <2>2, <2>3 DEF Named
<1>7. next' \in Seq(Named(key)) /\ todo' \subseteq todo
  BY <1>2, <1>4, <1>6, NamedClosed, StepTakes
<1>8. \A t \in todo' : t.item \in Named(key)
  BY <1>4, <1>7
<1>9. CASE Read(item) \/ Add(item) \/ JoinCoalition(item)
  <2>1. pos' = pos
    BY <1>9 DEF Read, Add, JoinCoalition
  <2>2. OneEach(key)'
    BY <1>4, <1>7, <1>8, <2>1 DEF OneEach, Named, Names
  <2> QED BY <2>1, <2>2 DEF KeyInv
<1>10. CASE item.op = "save" /\ pos' = Put(item.id, item.row)
  <2>1. item.id \in Nat /\ item.row \in Row /\ Key(item.row) = key[item.id]
    BY <1>1, <1>5, <1>10, Kinds DEF Named, Names
  <2>2. /\ DOMAIN pos' = DOMAIN pos \cup {item.id}
        /\ pos'[item.id] = item.row
        /\ \A j \in DOMAIN pos : j # item.id => pos'[j] = pos[j]
    BY <1>10, <2>1, PutMade
  <2>3. \A i \in DOMAIN pos' : Key(pos'[i]) = key[i]
    BY <1>4, <2>1, <2>2
  <2>4. OneEach(key)'
    BY <1>7, <1>8, <2>3 DEF OneEach, Named, Names
  <2> QED BY <1>4, <2>3, <2>4 DEF KeyInv
<1>11. CASE item.op = "new" /\ pos' = Put(lastId + 1, item.row) /\ Write(item)
  <2>1. lastId \in Nat /\ lastId + 1 \notin DOMAIN pos /\ lastId + 1 \notin 1..lastId
    BY DEF TypeInv, TypeOK
  <2>2. item.row \in Row
    BY <1>1, <1>11, Kinds
  <2>3. /\ DOMAIN pos' = DOMAIN pos \cup {lastId + 1}
        /\ pos'[lastId + 1] = item.row
        /\ \A j \in DOMAIN pos : j # lastId + 1 => pos'[j] = pos[j]
    <3>1. pos' = Put(lastId + 1, item.row)
      BY <1>11
    <3>2. lastId + 1 \in Nat
      BY <2>1
    <3> QED BY <2>2, <3>1, <3>2, PutMade
  <2>4. PICK more : more = [i \in DOMAIN pos \cup {lastId + 1} \cup 1..lastId |->
                                IF i = lastId + 1 THEN Key(item.row) ELSE key[i]]
    OBVIOUS
  <2>5. \A x \in Work : x \in Named(key) => x \in Named(more)
    <3> SUFFICES ASSUME NEW x \in Work, x \in Named(key), Names(x) PROVE Key(x.row) = more[x.id]
      BY DEF Named
    <3>1. x.id \in 1..lastId
      BY <1>2 DEF Work, WorkFor, Plain, Names
    <3>2. more[x.id] = key[x.id]
      BY <2>1, <2>4, <3>1
    <3> QED BY <3>2 DEF Named
  <2>6. next' = Rest /\ next' \in Seq(Work)
    <3>1. Took(item, <<>>)
      BY <1>11 DEF Write
    <3> QED BY <1>1, <3>1 DEF Took
  <2>7. \A n \in 1..Len(next') : next'[n] \in Named(more)
    BY <1>7, <2>5, <2>6
  <2>8. next' \in Seq(Named(more))
    BY <2>6, <2>7
  <2>9. \A t \in todo' : t.item \in Named(more)
    <3>1. \A t \in todo : t.item \in Work
      BY DEF TypeInv
    <3> QED BY <1>7, <1>8, <2>5, <3>1
  <2>10. \A i \in DOMAIN pos' : Key(pos'[i]) = more[i]
    BY <1>4, <2>1, <2>3, <2>4
  <2>11. OneEach(more)'
    BY <2>8, <2>9, <2>10 DEF OneEach, Named, Names
  <2> QED BY <2>1, <2>3, <2>11 DEF KeyInv
<1>12. CASE item.op = "delete" /\ pos' = [i \in DOMAIN pos \ {item.id} |-> pos[i]]
  <2>1. DOMAIN pos' = DOMAIN pos \ {item.id} /\ \A i \in DOMAIN pos' : pos'[i] = pos[i]
    BY <1>12
  <2>2. OneEach(key)'
    BY <1>4, <1>7, <1>8, <2>1 DEF OneEach, Named, Names
  <2> QED BY <2>1, <2>2 DEF KeyInv
<1> QED BY <1>9, <1>10, <1>11, <1>12 DEF Write

LEMMA KeyStart == TypeInv /\ Init => KeyInv
<1> SUFFICES ASSUME TypeInv, Init PROVE KeyInv
  OBVIOUS
<1>1. PICK key : key = [i \in DOMAIN pos |-> Key(pos[i])]
  OBVIOUS
<1>2. todo = {} /\ next = <<>>
  BY DEF Init
<1>3. next \in Seq(Named(key))
  BY <1>2
<1> QED BY <1>1, <1>2, <1>3 DEF KeyInv, OneEach

(* Nothing but --fix gives a row another key.                              *)
LEMMA KeyStays ==
    ASSUME TypeInv, KeyInv, [Next]_vars
    PROVE  /\ KeyInv'
           /\ \/ \A i \in DOMAIN pos \cap DOMAIN pos' : Key(pos'[i]) = Key(pos[i])
              \/ \E item \in Items : FixRow(item)
<1>1. TypeInv'
  BY TypesStay
<1>2. CASE Commands \/ Fix
  <2>1. UNCHANGED pos /\ next' = <<>>
    <3>1. Commands => \E name : Begins(name, Plain)
      BY PlainClosed, CommandsBegin
    <3>2. Fix => \E owed, phases : Begin("fix", owed, phases)
      BY Zenon DEF Fix
    <3>3. \E name, owed, phases : Begin(name, owed, phases)
      BY <1>2, <3>1, <3>2 DEF Begins
    <3> QED BY <3>3 DEF Begin, TypeInv
  <2>2. CASE Fix
    <3>1. job' = "fix"
      BY <2>2 DEF Fix, Begin
    <3>2. \A t \in todo' : ~Names(t.item)
      BY <1>1, <3>1 DEF TypeInv, Work, WorkFor, Fixes, Names
    <3> QED BY <1>1, <2>1, <3>2, NobodyNames
  <2>3. CASE Commands
    <3>1. PICK key : OneEach(key)
      BY DEF KeyInv
    <3>2. Closed(Named(key))
      BY <3>1, NamedClosed DEF OneEach
    <3>3. PICK name, owed, phases :
            /\ \A n \in DOMAIN phases : phases[n] \subseteq Named(key)
            /\ Begin(name, owed, phases)
      BY <2>3, <3>2, CommandsBegin DEF Begins
    <3>4. todo' = UNION {{[loop |-> n, item |-> x] : x \in phases[n]} : n \in DOMAIN phases}
      BY <3>3 DEF Begin
    <3>5. \A t \in todo' : t.item \in Named(key)
      BY <3>3, <3>4
    <3>6. next' \in Seq(Named(key))
      BY <2>1
    <3>7. OneEach(key)'
      BY <2>1, <3>1, <3>5, <3>6 DEF OneEach, Named, Names
    <3> QED BY <2>1, <3>7 DEF KeyInv
  <2> QED BY <1>2, <2>2, <2>3
<1>3. CASE job' = None /\ ~ApplyUpdate
  <2>1. todo' = {} /\ next' = <<>>
    BY <1>1, <1>3 DEF TypeInv
  <2>2. KeyInv'
    BY <1>1, <2>1, NobodyNames
  <2>3. CASE Step
    <3>1. PICK item \in Items : \/ Write(item) \/ Read(item) \/ Add(item)
                                \/ JoinCoalition(item) \/ FixRow(item)
      BY <2>3 DEF Step
    <3>2. job # None
      BY <3>1, InHand
    <3>3. ~Write(item)
      BY <1>3, <3>2 DEF Write
    <3>4. pos' = pos \/ FixRow(item)
      BY <3>1, <3>3 DEF Read, Add, JoinCoalition
    <3> QED BY <2>2, <3>4
  <2>4. CASE Finish \/ Kill \/ CheckNames \/ News \/ UNCHANGED vars
    BY <2>2, <2>4 DEF Finish, Kill, CheckNames, News, vars
  <2> QED BY <1>2, <1>3, <2>3, <2>4 DEF Next, Commands
<1>4. CASE Step /\ job' # None
  <2>1. PICK item \in Items : \/ Write(item) \/ Read(item) \/ Add(item)
                              \/ JoinCoalition(item) \/ FixRow(item)
    BY <1>4 DEF Step
  <2>2. CASE FixRow(item)
    <3>1. job' = "fix"
      BY <1>4, <2>2, InHand DEF FixRow, Sound
    <3>2. \A t \in todo' : ~Names(t.item)
      BY <1>1, <3>1 DEF TypeInv, Work, WorkFor, Fixes, Names
    <3>3. \A n \in 1..Len(next') : ~Names(next'[n])
      <4>1. next' \in Seq(Fixes')
        BY <1>1, <3>1 DEF TypeInv, Work, WorkFor
      <4>2. \A x \in Fixes' : ~Names(x)
        BY DEF Fixes, Names
      <4> QED BY <4>1, <4>2
    <3> QED BY <1>1, <2>2, <3>2, <3>3, NobodyNames
  <2>3. CASE ~FixRow(item)
    BY <1>4, <2>1, <2>3, StepNames
  <2> QED BY <2>2, <2>3
<1>5. CASE ApplyUpdate
  <2>1. PICK key : OneEach(key)
    BY DEF KeyInv
  <2>2. /\ DOMAIN pos' \subseteq DOMAIN pos
        /\ \A i \in DOMAIN pos' : Key(pos'[i]) = Key(pos[i])
    <3>1. \A i \in DOMAIN pos : pos[i] \in Row
      BY Rows
    <3>2. ASSUME NEW i \in DOMAIN pos, pos' = [pos EXCEPT ![i].end = Yesterday]
          PROVE  /\ DOMAIN pos' \subseteq DOMAIN pos
                 /\ \A j \in DOMAIN pos' : Key(pos'[j]) = Key(pos[j])
      <4>1. Key([pos[i] EXCEPT !.end = Yesterday]) = Key(pos[i])
        BY <3>1 DEF Row, Key
      <4> QED BY <3>2, <4>1
    <3>3. ASSUME NEW i \in DOMAIN pos, pos' = [j \in DOMAIN pos \ {i} |-> pos[j]]
          PROVE  /\ DOMAIN pos' \subseteq DOMAIN pos
                 /\ \A j \in DOMAIN pos' : Key(pos'[j]) = Key(pos[j])
      BY <3>3
    <3> QED BY <1>5, <3>2, <3>3 DEF ApplyUpdate
  <2>3. UNCHANGED <<todo, next>>
    BY <1>5 DEF ApplyUpdate
  <2>4. OneEach(key)'
    BY <2>1, <2>2, <2>3 DEF OneEach, Named, Names
  <2> QED BY <2>2, <2>4 DEF KeyInv
<1>6. CASE UNCHANGED <<pos, todo, next>>
  BY <1>6 DEF KeyInv, OneEach, Named, Names
<1>7. Finish \/ Kill => job' = None
  BY DEF Finish, Kill
<1>8. CheckNames \/ News \/ UNCHANGED vars => UNCHANGED <<pos, todo, next>>
  BY DEF CheckNames, News, vars
<1> QED BY <1>2, <1>3, <1>4, <1>5, <1>6, <1>7, <1>8 DEF Next, Commands

-----------------------------------------------------------------------------
(* Those who were to change party.  Nobody is left out who is in the new   *)
(* party from the day on (Arrived), or whose old membership the command    *)
(* will find (Waiting), or for whom the new one is the next to be saved.   *)
Arrived(row) == row.title = "member" /\ row.org = Union /\ row.start = SwitchDay
Waiting(row) == row.title = "member" /\ row.org \in Merged /\ Active(row, SwitchDay)

(* The rows that are to be deleted, and those the command will yet find:   *)
(* while it runs, those it has to do; when it has ended, none.             *)
Doomed == {t.item.id : t \in {u \in todo : u.item.op = "delete"}}
Awaited == IF job = "switch" THEN {t.item.id : t \in todo}
           ELSE IF note.last = "switch" THEN {} ELSE DOMAIN pos \ Doomed

Arrives(w) == \E i \in DOMAIN pos \ Doomed : pos[i].who = w /\ Arrived(pos[i])
Waits(w) == \E i \in DOMAIN pos \cap Awaited : pos[i].who = w /\ Waiting(pos[i])
Moves(w) == job = "switch" /\ next # <<>> /\ next[Len(next)].row.who = w
Provided(w) == Arrives(w) \/ Waits(w) \/ Moves(w)
Lost == {w \in note.owed : ~Provided(w)}

LossCount ==
    /\ tally \in [runs : Nat, kills : Nat, edits : Nat, news : Nat]
    /\ IsFiniteSet(note.owed)
    /\ Cardinality(Lost) <= tally.kills + tally.edits

(* What is left to be done, by command.  Commands that do not change       *)
(* parties end no membership of one.                                       *)
Safe == {x \in Item : \/ x.op \in {"join", "new"}
                      \/ x.op = "save" /\ (x.row.title = "member" => x.row.end = Future)}
Queued == {x \in Item : x.op \in {"member", "extend", "endAspirants", "delete", "fix"}} \cup Safe
OtherWork == (\A t \in todo : t.item \in Queued) /\ next \in Seq(Safe)

SwitchWork ==
    /\ \A t \in todo : t.item.op = "switch" /\ t.item.row.title = "member"
    /\ \/ next = <<>>
       \/ \E new \in Item : next = <<new>> /\ new.op = "new" /\ Arrived(new.row)
       \/ \E old \in Item, new \in Item :
            /\ next = <<old, new>> /\ old.op = "save" /\ old.row.who = new.row.who
            /\ new.op = "new" /\ Arrived(new.row)

LossWork ==
    /\ job = "aspirants" => note.owed = {}
    /\ job = "switch" => SwitchWork
    /\ job \notin {"switch", "aspirants"} => OtherWork
    /\ job = "fix" => \A t \in todo : pos[t.item.id].title = "mp"
    /\ job # None => note.last = None

LEMMA ActiveOn ==
    ASSUME NEW p \in Row, NEW q \in Row, Key(p) = Key(q), q.end = Future, Active(p, SwitchDay)
    PROVE  Active(q, SwitchDay)
<1>1. SwitchDay \in Day
  BY PositionAssumption
<1>2. p.start \in Approximate /\ p.end \in Approximate /\ q.start = p.start
  BY DEF Row, Key
<1>3. Future \in Approximate
  BY Words
<1>4. Active(p, SwitchDay) <=> UpTo(Earliest(p.start), SwitchDay) /\ UpTo(SwitchDay, Latest(p.end))
  BY <1>1, <1>2, QueriesAgree DEF QueriesMeanDays
<1>5. Active(q, SwitchDay) <=> UpTo(Earliest(q.start), SwitchDay) /\ UpTo(SwitchDay, Latest(q.end))
  BY <1>1, <1>2, <1>3, QueriesAgree DEF QueriesMeanDays
<1>6. UpTo(SwitchDay, Latest(Future))
  BY <1>1, <1>2, <1>3, Words, PositionDates DEF UpTo
<1> QED BY <1>2, <1>4, <1>5, <1>6

(* Whoever is new among the lost has to be counted.                        *)
LEMMA LostFew ==
    ASSUME LossCount, NEW V, IsFiniteSet(V), Lost' \subseteq Lost \cup V, IsFiniteSet(note'.owed),
           tally' \in [runs : Nat, kills : Nat, edits : Nat, news : Nat],
           Cardinality(V) + tally.kills + tally.edits <= tally'.kills + tally'.edits
    PROVE  LossCount'
<1>1. IsFiniteSet(Lost)
  BY FS_Subset DEF LossCount, Lost
<1>2. /\ IsFiniteSet(Lost \cup V)
      /\ Cardinality(Lost \cup V) = Cardinality(Lost) + Cardinality(V) - Cardinality(Lost \cap V)
  BY <1>1, FS_Union
<1>3. IsFiniteSet(Lost \cap V)
  BY <1>1, FS_Subset
<1>4. /\ Cardinality(Lost) \in Nat /\ Cardinality(V) \in Nat /\ Cardinality(Lost \cap V) \in Nat
      /\ Cardinality(Lost \cup V) \in Nat
  BY <1>1, <1>2, <1>3, FS_CardinalityType
<1>5. Cardinality(Lost') <= Cardinality(Lost \cup V) /\ Cardinality(Lost') \in Nat
  BY <1>2, FS_Subset, FS_CardinalityType
<1>6. Cardinality(Lost) <= tally.kills + tally.edits
  BY DEF LossCount
<1>7. /\ tally.kills \in Nat /\ tally.edits \in Nat
      /\ tally'.kills \in Nat /\ tally'.edits \in Nat
  BY DEF LossCount
<1>8. Cardinality(Lost') <= tally'.kills + tally'.edits
  BY <1>2, <1>4, <1>5, <1>6, <1>7
<1> QED BY <1>8 DEF LossCount

LEMMA NobodyNew ==
    ASSUME LossCount, Lost' \subseteq Lost, IsFiniteSet(note'.owed),
           tally' \in [runs : Nat, kills : Nat, edits : Nat, news : Nat],
           tally.kills + tally.edits <= tally'.kills + tally'.edits
    PROVE  LossCount'
<1>1. IsFiniteSet({}) /\ Cardinality({}) = 0
  BY FS_EmptySet
<1>2. Cardinality({}) + tally.kills + tally.edits <= tally'.kills + tally'.edits
  BY <1>1 DEF LossCount
<1> QED BY <1>1, <1>2, LostFew

LEMMA OneNew ==
    ASSUME LossCount, NEW v, Lost' \subseteq Lost \cup {v}, IsFiniteSet(note'.owed),
           tally' \in [runs : Nat, kills : Nat, edits : Nat, news : Nat],
           tally'.kills + tally'.edits = tally.kills + tally.edits + 1
    PROVE  LossCount'
<1>1. IsFiniteSet({v}) /\ Cardinality({v}) = 1
  BY FS_Singleton
<1>2. Cardinality({v}) + tally.kills + tally.edits <= tally'.kills + tally'.edits
  BY <1>1 DEF LossCount
<1> QED BY <1>1, <1>2, LostFew

(* A step that leaves every membership of a party as it was, or another in *)
(* its place, but perhaps those of one person, loses nobody else.          *)
LEMMA RowsOn ==
    ASSUME NEW V, job # "switch", job' # "switch", note.last = "switch" \/ note'.last # "switch",
           note'.owed = note.owed,
           \A i \in DOMAIN pos \ Doomed :
                pos[i].title = "member" /\ pos[i].who \notin V =>
                    \E j \in DOMAIN pos' \ Doomed' :
                        /\ Key(pos'[j]) = Key(pos[i])
                        /\ Active(pos[i], SwitchDay) => Active(pos'[j], SwitchDay)
    PROVE  Lost' \subseteq Lost \cup V
<1> SUFFICES ASSUME NEW w \in note.owed, w \notin V, Arrives(w) \/ Waits(w)
             PROVE  Provided(w)'
  <2>1. \A w : ~Moves(w)
    BY DEF Moves
  <2> QED BY <2>1 DEF Lost, Provided
<1>1. CASE Arrives(w)
  <2>1. PICK i \in DOMAIN pos \ Doomed : pos[i].who = w /\ Arrived(pos[i])
    BY <1>1 DEF Arrives
  <2>2. PICK j \in DOMAIN pos' \ Doomed' : Key(pos'[j]) = Key(pos[i])
    BY <2>1 DEF Arrived
  <2>3. pos'[j].who = w /\ Arrived(pos'[j])
    BY <2>1, <2>2 DEF Arrived, Key
  <2>4. Arrives(w)'
    BY <2>3 DEF Arrives, Arrived
  <2> QED BY <2>4 DEF Provided
<1>2. CASE Waits(w)
  <2>1. PICK i \in DOMAIN pos \cap Awaited : pos[i].who = w /\ Waiting(pos[i])
    BY <1>2 DEF Waits
  <2>2. i \in DOMAIN pos \ Doomed /\ note.last # "switch" /\ Awaited' = DOMAIN pos' \ Doomed'
    BY <2>1 DEF Awaited
  <2>3. PICK j \in DOMAIN pos' \ Doomed' :
            Key(pos'[j]) = Key(pos[i]) /\ (Active(pos[i], SwitchDay) => Active(pos'[j], SwitchDay))
    BY <2>1, <2>2 DEF Waiting
  <2>4. pos'[j].who = w /\ Waiting(pos'[j])
    BY <2>1, <2>3 DEF Waiting, Key
  <2>5. Waits(w)'
    BY <2>2, <2>3, <2>4 DEF Waits, Waiting
  <2> QED BY <2>5 DEF Provided
<1> QED BY <1>1, <1>2

LEMMA Deletion ==
    ASSUME NEW x \in Item, x.op = "delete"
    PROVE  x = Delete(x.id)
<1>1. CASE x \in [op : {"delete", "fix"}, id : Nat]
  BY <1>1 DEF Delete
<1>2. CASE x \notin [op : {"delete", "fix"}, id : Nat]
  BY <1>2 DEF Item
<1> QED BY <1>1, <1>2

LEMMA Begun ==
    ASSUME TypeInv, LossCount, NEW name, NEW owed, NEW phases, Begin(name, owed, phases)
    PROVE  /\ job = None /\ job' = name /\ job # "switch"
           /\ pos' = pos /\ next' = <<>> /\ Doomed = {}
           /\ todo' = UNION {{[loop |-> n, item |-> x] : x \in phases[n]} : n \in DOMAIN phases}
           /\ note'.last = None /\ note'.last # "switch"
           /\ note'.owed = IF name = "aspirants" THEN {} ELSE note.owed \cup owed
           /\ tally' \in [runs : Nat, kills : Nat, edits : Nat, news : Nat]
           /\ tally'.kills = tally.kills /\ tally'.edits = tally.edits
           /\ tally.kills + tally.edits <= tally'.kills + tally'.edits
<1>1. "switch" # None
  BY PositionAssumption DEF Command
<1>2. note \in [quiet : BOOLEAN, last : Command \cup {None}, rounds : Nat, owed : SUBSET Person]
  BY DEF TypeInv
<1>3. note'.last = None /\ note'.owed = IF name = "aspirants" THEN {} ELSE note.owed \cup owed
  BY <1>2 DEF Begin
<1>4. /\ tally' \in [runs : Nat, kills : Nat, edits : Nat, news : Nat]
      /\ tally'.kills = tally.kills /\ tally'.edits = tally.edits
      /\ tally.kills \in Nat /\ tally.edits \in Nat
  BY DEF Begin, LossCount
<1>5. todo = {} /\ next = <<>>
  BY DEF Begin, TypeInv
<1>6. Doomed = {}
  BY <1>5 DEF Doomed
<1> QED BY <1>1, <1>3, <1>4, <1>5, <1>6 DEF Begin

(* A command that neither moves anybody nor looks at parties.              *)
LEMMA OtherBegins ==
    ASSUME TypeInv, LossCount, NEW name, name \notin {"switch", "aspirants", None}, NEW phases,
           Begin(name, {}, phases), \A n \in DOMAIN phases : phases[n] \subseteq Queued,
           \A i \in DOMAIN pos :
                pos[i].title = "member" =>
                    \E j \in DOMAIN pos : /\ \A n \in DOMAIN phases : Delete(j) \notin phases[n]
                                          /\ Key(pos[j]) = Key(pos[i])
                                          /\ Active(pos[i], SwitchDay) => Active(pos[j], SwitchDay),
           name = "fix" => \A n \in DOMAIN phases : \A x \in phases[n] : pos[x.id].title = "mp"
    PROVE  LossCount' /\ LossWork'
<1>1. /\ job # "switch" /\ job' = name /\ pos' = pos /\ next' = <<>> /\ Doomed = {}
      /\ todo' = UNION {{[loop |-> n, item |-> x] : x \in phases[n]} : n \in DOMAIN phases}
      /\ note'.last = None /\ note'.last # "switch" /\ note'.owed = note.owed
      /\ tally' \in [runs : Nat, kills : Nat, edits : Nat, news : Nat]
      /\ tally.kills + tally.edits <= tally'.kills + tally'.edits
  <2>1. note.owed \cup {} = note.owed
    OBVIOUS
  <2> QED BY <2>1, Begun
<1>2. \A t \in todo' : \E n \in DOMAIN phases : t.item \in phases[n]
  BY <1>1
<1>3. \A t \in todo' : t.item \in Queued
  BY <1>2
<1>4. <<>> \in Seq(Safe)
  OBVIOUS
<1>5. OtherWork'
  BY <1>1, <1>3, <1>4 DEF OtherWork
<1>6. LossWork'
  BY <1>1, <1>2, <1>5 DEF LossWork
<1>7. ASSUME NEW j \in DOMAIN pos, \A n \in DOMAIN phases : Delete(j) \notin phases[n]
      PROVE  j \notin Doomed'
  <2> SUFFICES ASSUME NEW t \in todo', t.item.op = "delete", t.item.id = j PROVE FALSE
    BY DEF Doomed
  <2>1. PICK n \in DOMAIN phases : t.item \in phases[n]
    BY <1>2
  <2>2. t.item \in Item
    BY <2>1 DEF Queued, Safe
  <2>3. t.item = Delete(j)
    BY <2>2, Deletion
  <2> QED BY <1>7, <2>1, <2>3
<1>8. \A i \in DOMAIN pos \ Doomed :
            pos[i].title = "member" /\ pos[i].who \notin {} =>
                \E j \in DOMAIN pos' \ Doomed' :
                    /\ Key(pos'[j]) = Key(pos[i])
                    /\ Active(pos[i], SwitchDay) => Active(pos'[j], SwitchDay)
  BY <1>1, <1>7
<1>9. Lost' \subseteq Lost
  BY <1>1, <1>8, RowsOn
<1>10. LossCount'
  BY <1>1, <1>9, NobodyNew DEF LossCount
<1> QED BY <1>6, <1>10

(* As long as nothing is deleted, each row is its own.                     *)
LEMMA NothingDeleted ==
    ASSUME TypeInv, LossCount, NEW name, name \notin {"switch", "aspirants", None}, NEW phases,
           Begin(name, {}, phases), \A n \in DOMAIN phases : phases[n] \subseteq Queued,
           \A n \in DOMAIN phases : \A x \in phases[n] : x.op # "delete",
           name = "fix" => \A n \in DOMAIN phases : \A x \in phases[n] : pos[x.id].title = "mp"
    PROVE  LossCount' /\ LossWork'
<1>1. \A j \in DOMAIN pos : \A n \in DOMAIN phases : Delete(j) \notin phases[n]
  BY DEF Delete
<1>2. \A i \in DOMAIN pos :
            pos[i].title = "member" =>
                \E j \in DOMAIN pos : /\ \A n \in DOMAIN phases : Delete(j) \notin phases[n]
                                      /\ Key(pos[j]) = Key(pos[i])
                                      /\ Active(pos[i], SwitchDay) => Active(pos[j], SwitchDay)
  BY <1>1
<1> QED BY <1>2, OtherBegins

LEMMA CurrentTitle ==
    ASSUME NEW title
    PROVE  Current(title) \subseteq DOMAIN pos /\ \A i \in Current(title) : pos[i].title = title
BY DEF Current

(* The memberships of parties are not what is ended.                       *)
LEMMA EndedSafe ==
    ASSUME TypeInv, NEW i \in DOMAIN pos, NEW end \in Approximate, pos[i].title # "member" \/ end = Future
    PROVE  Ended(i, end) \in Safe
<1>1. pos[i] \in Row /\ i \in Nat
  BY Rows
<1>2. PICK row : row = [pos[i] EXCEPT !.end = end]
  OBVIOUS
<1>3. row \in Row /\ row.title = pos[i].title /\ row.end = end
  BY <1>1, <1>2 DEF Row
<1>4. Ended(i, end) = Save(i, row) /\ Save(i, row) \in Item
  BY <1>1, <1>2, <1>3, Made DEF Ended
<1>5. Save(i, row).op = "save" /\ Save(i, row).row = row
  BY DEF Save
<1> QED BY <1>3, <1>4, <1>5 DEF Safe

LEMMA EndsSafe ==
    ASSUME TypeInv, NEW ids \in SUBSET DOMAIN pos, NEW end \in Approximate,
           \A i \in ids : pos[i].title # "member"
    PROVE  EndAll(ids, end) \in Seq(Safe)
<1>1. Cardinality(ids) \in Nat /\ SetToSeq(ids) \in [1..Cardinality(ids) -> ids]
  BY FewRows, Numbered
<1>2. \A i \in ids : Ended(i, end) \in Safe
  BY EndedSafe
<1>3. \A n \in 1..Cardinality(ids) : Ended(SetToSeq(ids)[n], end) \in Safe
  BY <1>1, <1>2
<1> QED BY <1>1, <1>3 DEF EndAll

LEMMA CoalitionsLose ==
    ASSUME TypeInv, LossCount, Coalitions
    PROVE  LossCount' /\ LossWork'
<1> DEFINE inParty == {i \in Current("member") : pos[i].org \in Party /\ CoalitionOf[pos[i].org] # None}
           members == {pos[i].who : i \in inParty} \cap {pos[i].who : i \in Race}
           ids == {j \in Current("coalition") : pos[j].who \in members}
           phases == <<{[op |-> "member", who |-> w] : w \in members}, {Ended(i, Yesterday) : i \in ids}>>
<1>1. Begin("coalitions", {}, phases)
  BY DEF Coalitions
<1>2. members \subseteq Person
  BY CurrentRows, Rows DEF Race, Row
<1>3. \A w \in members : [op |-> "member", who |-> w] \in Queued
  BY <1>2, Made DEF Queued
<1>4. \A i \in ids : Ended(i, Yesterday) \in Safe
  BY CurrentTitle, EndedSafe, DaysWritten
<1>5. \A n \in DOMAIN phases : \A x \in phases[n] : x \in Queued /\ x.op # "delete"
  <2>1. \A x \in phases[1] : x \in Queued /\ x.op # "delete"
    BY <1>3
  <2>2. \A x \in phases[2] : x \in Queued /\ x.op # "delete"
    BY <1>4 DEF Queued, Safe
  <2> QED BY <2>1, <2>2
<1>6. "coalitions" \notin {"switch", "aspirants", None}
  BY PositionAssumption DEF Command
<1> HIDE DEF phases
<1> QED BY <1>1, <1>5, <1>6, NothingDeleted

LEMMA EndLoses ==
    ASSUME TypeInv, LossCount, EndPositions
    PROVE  LossCount' /\ LossWork'
<1>1. PICK t \in {"aspirant", "mp"} : Begin("end", {}, <<{Ended(i, Yesterday) : i \in Current(t)}>>)
  BY DEF EndPositions
<1> DEFINE phases == <<{Ended(i, Yesterday) : i \in Current(t)}>>
<1>2. \A i \in Current(t) : Ended(i, Yesterday) \in Safe
  BY CurrentTitle, EndedSafe, DaysWritten
<1>3. \A n \in DOMAIN phases : \A x \in phases[n] : x \in Queued /\ x.op # "delete"
  BY <1>2 DEF Queued, Safe
<1>4. "end" \notin {"switch", "aspirants", None}
  BY PositionAssumption DEF Command
<1>5. Begin("end", {}, phases)
  BY <1>1
<1> HIDE DEF phases
<1> QED BY <1>3, <1>4, <1>5, NothingDeleted

LEMMA ElectLoses ==
    ASSUME TypeInv, LossCount, Elect
    PROVE  LossCount' /\ LossWork'
<1>1. PICK w \in people :
        \E found : Begin("elect", {}, <<IF found = {}
                                         THEN {New(Position(w, "parliament", "mp", None, today, Future))}
                                         ELSE {}, {[op |-> "endAspirants"]}>>)
  BY Zenon DEF Elect
<1> DEFINE row == Position(w, "parliament", "mp", None, today, Future)
<1>2. PICK found : Begin("elect", {}, <<IF found = {} THEN {New(row)} ELSE {}, {[op |-> "endAspirants"]}>>)
  BY <1>1
<1> DEFINE phases == <<IF found = {} THEN {New(row)} ELSE {}, {[op |-> "endAspirants"]}>>
<1>3. row \in Row
  <2>1. w \in Person /\ "parliament" \in Organisation /\ "mp" \in Title
    BY DEF TypeInv, TypeOK, Organisation, Title
  <2> QED BY <2>1, Written, DaysWritten
<1>4. /\ New(row) \in Queued /\ New(row).op # "delete"
      /\ [op |-> "endAspirants"] \in Queued
  BY <1>3, Made DEF Queued, Safe, New
<1>5. \A n \in DOMAIN phases : \A x \in phases[n] : x \in Queued /\ x.op # "delete"
  BY <1>4
<1>6. "elect" \notin {"switch", "aspirants", None}
  BY PositionAssumption DEF Command
<1>7. Begin("elect", {}, phases)
  BY <1>2
<1> HIDE DEF phases
<1> QED BY <1>5, <1>6, <1>7, NothingDeleted

LEMMA ExtendLoses ==
    ASSUME TypeInv, LossCount, ExtendMemberships
    PROVE  LossCount' /\ LossWork'
<1> DEFINE phases == <<{[op |-> "extend", who |-> w] : w \in people}>>
<1>1. people \subseteq Person
  BY DEF TypeInv, TypeOK
<1>2. \A w \in people : [op |-> "extend", who |-> w] \in Queued
  BY <1>1, Made DEF Queued
<1>3. \A n \in DOMAIN phases : \A x \in phases[n] : x \in Queued /\ x.op # "delete"
  BY <1>2
<1>4. "extend" \notin {"switch", "aspirants", None}
  BY PositionAssumption DEF Command
<1>5. Begin("extend", {}, phases)
  BY DEF ExtendMemberships
<1> HIDE DEF phases
<1> QED BY <1>3, <1>4, <1>5, NothingDeleted

LEMMA FixLoses ==
    ASSUME TypeInv, LossCount, Fix
    PROVE  LossCount' /\ LossWork'
<1> DEFINE broken == {i \in DOMAIN pos : pos[i].title = "mp" /\ pos[i].org # "parliament"}
           phases == <<{[op |-> "fix", id |-> i] : i \in broken}>>
<1>1. \A i \in broken : [op |-> "fix", id |-> i] \in Queued
  <2>1. \A i \in DOMAIN pos : i \in Nat
    BY Rows
  <2>2. \A i \in broken : [op |-> "fix", id |-> i] \in Item
    BY <2>1, Made
  <2> QED BY <2>2 DEF Queued
<1>2. \A n \in DOMAIN phases : \A x \in phases[n] : /\ x \in Queued /\ x.op # "delete"
                                                    /\ pos[x.id].title = "mp"
  BY <1>1
<1>3. "fix" \notin {"switch", "aspirants", None}
  BY PositionAssumption DEF Command
<1>4. Begin("fix", {}, phases)
  BY DEF Fix
<1> HIDE DEF phases
<1> QED BY <1>2, <1>3, <1>4, NothingDeleted

(* A command that deletes: of the memberships one like it stays.           *)
LEMMA DeletionsLose ==
    ASSUME TypeInv, LossCount, NEW name \in {"deduplicate", "duplicates"}, NEW gone \in SUBSET DOMAIN pos,
           Begin(name, {}, <<{Delete(i) : i \in gone}>>),
           \A i \in gone : pos[i].title = "member" =>
                \E j \in DOMAIN pos \ gone : /\ Key(pos[j]) = Key(pos[i])
                                             /\ Active(pos[i], SwitchDay) => Active(pos[j], SwitchDay)
    PROVE  LossCount' /\ LossWork'
<1> DEFINE phases == <<{Delete(i) : i \in gone}>>
<1>1. \A i \in gone : Delete(i) \in Queued
  <2> SUFFICES ASSUME NEW i \in gone PROVE Delete(i) \in Queued
    OBVIOUS
  <2>1. i \in Nat
    BY Rows
  <2>2. Delete(i) \in Item
    BY <2>1, Made
  <2> QED BY <2>2 DEF Queued, Delete
<1>2. \A n \in DOMAIN phases : phases[n] \subseteq Queued
  BY <1>1
<1>3. \A j \in DOMAIN pos \ gone : \A n \in DOMAIN phases : Delete(j) \notin phases[n]
  BY DEF Delete
<1>4. \A i \in DOMAIN pos :
            pos[i].title = "member" =>
                \E j \in DOMAIN pos : /\ \A n \in DOMAIN phases : Delete(j) \notin phases[n]
                                      /\ Key(pos[j]) = Key(pos[i])
                                      /\ Active(pos[i], SwitchDay) => Active(pos[j], SwitchDay)
  <2> HIDE DEF phases
  <2> QED BY <1>3
<1>5. name \notin {"switch", "aspirants", "fix", None}
  BY PositionAssumption DEF Command
<1>6. Begin(name, {}, phases)
  OBVIOUS
<1> HIDE DEF phases
<1> QED BY <1>2, <1>4, <1>5, <1>6, OtherBegins

LEMMA DeduplicateLoses ==
    ASSUME TypeInv, LossCount, Deduplicate
    PROVE  LossCount' /\ LossWork'
<1>1. PICK gone \in SUBSET DOMAIN pos :
        /\ \A i \in gone : \E j \in DOMAIN pos \ gone :
                [pos[i] EXCEPT !.code = None] = [pos[j] EXCEPT !.code = None]
        /\ Begin("deduplicate", {}, <<{Delete(i) : i \in gone}>>)
  BY DEF Deduplicate
<1>2. ASSUME NEW i \in DOMAIN pos, NEW j \in DOMAIN pos,
             [pos[i] EXCEPT !.code = None] = [pos[j] EXCEPT !.code = None]
      PROVE  Key(pos[j]) = Key(pos[i]) /\ (Active(pos[i], SwitchDay) => Active(pos[j], SwitchDay))
  <2>1. pos[i] \in Row /\ pos[j] \in Row
    BY Rows
  <2>2. /\ pos[i].who = pos[j].who /\ pos[i].org = pos[j].org /\ pos[i].title = pos[j].title
        /\ pos[i].start = pos[j].start /\ pos[i].end = pos[j].end
    BY <1>2, <2>1 DEF Row
  <2> QED BY <2>2 DEF Key, Active, SortingStart, SortingEnd
<1> QED BY <1>1, <1>2, DeletionsLose, ZenonT(30)

LEMMA RemoveLoses ==
    ASSUME TypeInv, LossCount, RemoveDuplicates
    PROVE  LossCount' /\ LossWork'
<1>1. PICK best : Begin("duplicates", {}, <<{Delete(i) : i \in {j \in Race : best[pos[j].who] # j}}>>)
  BY DEF RemoveDuplicates
<1>2. Race \subseteq DOMAIN pos /\ \A i \in Race : pos[i].title # "member"
  BY CurrentTitle DEF Race
<1>3. PICK gone : gone = {j \in Race : best[pos[j].who] # j}
  OBVIOUS
<1>4. Begin("duplicates", {}, <<{Delete(i) : i \in gone}>>)
  BY <1>1, <1>3
<1>5. gone \in SUBSET DOMAIN pos /\ \A i \in gone : pos[i].title # "member"
  BY <1>2, <1>3
<1> QED BY <1>4, <1>5, DeletionsLose

LEMMA AspirantsLose ==
    ASSUME TypeInv, LossCount, Aspirants
    PROVE  LossCount' /\ LossWork'
<1>1. PICK phases : Begin("aspirants", {}, phases)
  BY Zenon DEF Aspirants
<1>2. /\ note'.owed = {} /\ note'.last = None /\ job' = "aspirants"
      /\ tally' \in [runs : Nat, kills : Nat, edits : Nat, news : Nat]
      /\ tally.kills + tally.edits <= tally'.kills + tally'.edits
  BY <1>1, Begun
<1>3. IsFiniteSet({})
  BY FS_EmptySet
<1>4. Lost' \subseteq Lost
  BY <1>2 DEF Lost
<1>5. LossCount'
  BY <1>2, <1>3, <1>4, NobodyNew
<1>6. LossWork'
  BY <1>2 DEF LossWork
<1> QED BY <1>5, <1>6

(* The work of a command with one loop.                                    *)
LEMMA OneQueue ==
    ASSUME NEW items, NEW name, NEW owed, Begin(name, owed, <<items>>)
    PROVE  /\ \A t \in todo' : t.item \in items
           /\ \A x \in items : \E t \in todo' : t.item = x
<1>1. PICK phases : phases = <<items>>
  OBVIOUS
<1>2. DOMAIN phases = {1} /\ phases[1] = items
  BY <1>1
<1>3. todo' = UNION {{[loop |-> n, item |-> x] : x \in phases[n]} : n \in DOMAIN phases}
  BY <1>1 DEF Begin
<1>4. todo' = {[loop |-> 1, item |-> x] : x \in items}
  BY <1>2, <1>3
<1>5. \A t \in todo' : \E x \in items : t = [loop |-> 1, item |-> x]
  BY <1>4
<1>6. \A x \in items : [loop |-> 1, item |-> x] \in todo' /\ [loop |-> 1, item |-> x].item = x
  BY <1>4
<1> QED BY <1>5, <1>6

Mover(i) == [op |-> "switch", id |-> i, row |-> pos[i]]

(* Whoever is to be moved is waiting, and whoever was waiting is moved.    *)
LEMMA SwitchLoses ==
    ASSUME TypeInv, LossCount, SwitchParty
    PROVE  LossCount' /\ LossWork'
<1>1. PICK rows : rows = {i \in DOMAIN pos : /\ pos[i].title = "member" /\ pos[i].org \in Merged
                                             /\ Active(pos[i], SwitchDay)}
  OBVIOUS
<1>2. PICK owed : owed = {pos[i].who : i \in rows}
  OBVIOUS
<1>3. PICK items : items = {Mover(i) : i \in rows}
  OBVIOUS
<1>4. Begin("switch", owed, <<items>>)
  BY <1>1, <1>2, <1>3 DEF SwitchParty, Mover
<1>5. /\ job # "switch" /\ job' = "switch" /\ pos' = pos /\ next' = <<>> /\ Doomed = {}
      /\ note'.last = None /\ note'.owed = note.owed \cup owed
      /\ tally' \in [runs : Nat, kills : Nat, edits : Nat, news : Nat]
      /\ tally.kills + tally.edits <= tally'.kills + tally'.edits
  BY <1>4, Begun
<1>6. /\ \A t \in todo' : \E i \in rows : t.item = Mover(i)
      /\ \A i \in rows : \E t \in todo' : t.item = Mover(i)
  BY <1>3, <1>4, OneQueue
<1>7. \A i \in rows : /\ Mover(i).op = "switch" /\ Mover(i).id = i /\ Mover(i).row = pos[i]
                      /\ Mover(i).row.title = "member"
  BY <1>1 DEF Mover
<1>8. \A t \in todo' : t.item.op = "switch" /\ t.item.row.title = "member"
  BY <1>6, <1>7
<1>9. LossWork'
  BY <1>5, <1>8 DEF LossWork, SwitchWork
<1>10. IsFiniteSet(note'.owed)
  <2>1. IsFiniteSet(rows)
    BY <1>1, FewRows
  <2>2. IsFiniteSet(owed)
    <3>1. PICK f : f = [i \in rows |-> pos[i].who]
      OBVIOUS
    <3>2. f \in Surjection(rows, owed)
      BY <1>2, <3>1 DEF Surjection
    <3> QED BY <2>1, <3>2, FS_Surjection
  <2>3. IsFiniteSet(note.owed)
    BY DEF LossCount
  <2>4. IsFiniteSet(note.owed \cup owed)
    BY <2>2, <2>3, FS_Union
  <2> QED BY <1>5, <2>4
<1>11. Doomed' = {}
  BY <1>8 DEF Doomed
<1>12. \A i \in rows : i \in DOMAIN pos' /\ i \in Awaited' /\ Waiting(pos'[i])
  <2> SUFFICES ASSUME NEW i \in rows PROVE i \in DOMAIN pos' /\ i \in Awaited' /\ Waiting(pos'[i])
    OBVIOUS
  <2>1. PICK t \in todo' : t.item = Mover(i)
    BY <1>6
  <2>2. t.item.id = i
    BY <1>7, <2>1
  <2>3. i \in Awaited'
    BY <1>5, <2>2 DEF Awaited
  <2> QED BY <1>1, <1>5, <2>3 DEF Waiting
<1>13. \A w \in owed : Waits(w)'
  BY <1>2, <1>5, <1>12 DEF Waits, Waiting
<1>14. \A w \in note.owed : Provided(w) => Provided(w)'
  <2> SUFFICES ASSUME NEW w \in note.owed, Provided(w) PROVE Provided(w)'
    OBVIOUS
  <2>1. CASE Arrives(w)
    BY <1>5, <1>11, <2>1 DEF Arrives, Arrived, Provided
  <2>2. CASE Waits(w)
    <3>1. PICK i \in DOMAIN pos : pos[i].who = w /\ Waiting(pos[i])
      BY <2>2 DEF Waits
    <3>2. i \in rows
      BY <1>1, <3>1 DEF Waiting
    <3> QED BY <1>2, <1>13, <3>1, <3>2 DEF Provided
  <2> QED BY <1>5, <2>1, <2>2 DEF Provided, Moves
<1>15. Lost' \subseteq Lost
  BY <1>5, <1>13, <1>14 DEF Lost, Provided
<1> QED BY <1>5, <1>9, <1>10, <1>15, NobodyNew

LEMMA CommandsLose == TypeInv /\ LossCount /\ (Commands \/ Fix) => LossCount' /\ LossWork'
BY AspirantsLose, SwitchLoses, CoalitionsLose, EndLoses, ElectLoses, ExtendLoses, FixLoses,
   DeduplicateLoses, RemoveLoses DEF Commands

(* --fix changes rows of members of parliament, and adds rows.             *)
LEMMA FixTitles ==
    ASSUME TypeInv, NEW item \in Items, FixRow(item)
    PROVE  /\ DOMAIN pos \subseteq DOMAIN pos'
           /\ \A i \in DOMAIN pos : pos'[i].title = pos[i].title
           /\ \A i \in DOMAIN pos : i # item.id => pos'[i] = pos[i]
<1>1. item.id \in DOMAIN pos /\ item.id \in Nat
  <2>1. Sound(item) /\ item \in Item /\ item.op = "fix"
    BY InHand DEF FixRow
  <2> QED BY <2>1, Kinds DEF Sound
<1>2. lastId \in Nat /\ lastId + 1 \notin DOMAIN pos
  BY DEF TypeInv, TypeOK
<1>3. pos[item.id] \in Row
  BY <1>1, Rows
<1> DEFINE fixed == [pos[item.id] EXCEPT !.org = "parliament"]
           more == [pos[item.id] EXCEPT !.title = "member", !.code = None]
<1>4. fixed \in Row /\ fixed.title = pos[item.id].title
  <2>1. "parliament" \in Organisation
    BY DEF Organisation
  <2> QED BY <1>3, <2>1 DEF Row
<1>5. CASE UNCHANGED pos
  BY <1>5
<1>6. CASE pos' = Put(item.id, fixed)
  <2>1. PICK r \in Row : r = fixed
    BY <1>4
  <2>2. pos' = Put(item.id, r)
    BY <1>6, <2>1
  <2>3. /\ DOMAIN pos' = DOMAIN pos \cup {item.id} /\ pos'[item.id] = r
        /\ \A j \in DOMAIN pos : j # item.id => pos'[j] = pos[j]
    BY <1>1, <2>2, PutMade
  <2> QED BY <1>4, <2>1, <2>3
<1>7. CASE pos' = [k \in DOMAIN pos \cup {lastId + 1} |->
                        IF k = item.id THEN fixed ELSE IF k = lastId + 1 THEN more ELSE pos[k]]
  <2> HIDE DEF fixed, more
  <2>1. DOMAIN pos' = DOMAIN pos \cup {lastId + 1} /\ pos'[item.id] = fixed
    BY <1>1, <1>7
  <2>2. \A k \in DOMAIN pos : k # item.id => pos'[k] = pos[k]
    BY <1>2, <1>7
  <2> QED BY <1>4, <2>1, <2>2
<1> QED BY <1>5, <1>6, <1>7 DEF FixRow

-----------------------------------------------------------------------------
(* A step of a command that neither moves anybody nor looks at parties.    *)
LEMMA Queue ==
    ASSUME TypeInv, OtherWork, NEW item \in Items
    PROVE  /\ item \in Queued /\ item \in Item /\ Rest \in Seq(Safe) /\ Left(item) \subseteq todo
           /\ item.op \notin {"switch", "code", "parties", "stand", "add"}
           /\ item.op = "save" => (item.row.title = "member" => item.row.end = Future)
           /\ item.op \in {"delete", "fix"} => \E t \in todo : t.item = item
<1>1. next \in Seq(Safe) /\ \A t \in todo : t.item \in Queued
  BY DEF OtherWork
<1>2. CASE next # <<>>
  <2>1. item = Head(next)
    BY <1>2 DEF Items
  <2>2. item \in Safe /\ Rest \in Seq(Safe)
    BY <1>1, <1>2, <2>1 DEF Rest
  <2> QED BY <2>2 DEF Queued, Safe, Left
<1>3. CASE next = <<>>
  <2>1. PICK t \in todo : item = t.item
    BY <1>3 DEF Items, First
  <2>2. item \in Queued /\ Rest \in Seq(Safe)
    BY <1>1, <1>3, <2>1 DEF Rest
  <2> QED BY <2>1, <2>2 DEF Queued, Safe, Left
<1> QED BY <1>2, <1>3

LEMMA ReadsSafe ==
    ASSUME TypeInv, OtherWork, NEW item \in Items, Read(item)
    PROVE  \E more \in Seq(Safe) : Took(item, more)
<1>1. /\ item \in Item
      /\ item.op \notin {"switch", "code", "parties", "stand", "add"}
  BY Queue
<1>2. CASE item.op = "member" /\ Took(item, Joins(item.who))
  <2>1. item.who \in Person
    BY <1>1, <1>2, Kinds
  <2>2. /\ Joins(item.who) \in Seq(Plain)
        /\ \A n \in 1..Len(Joins(item.who)) : \E c \in Due(item.who) : Joins(item.who)[n] = Join(item.who, c)
    BY <2>1, PlainClosed, JoinsTyped
  <2>3. \A x \in Plain : \A c : x = Join(item.who, c) => x \in Safe
    BY DEF Plain, Join, Safe
  <2>4. \A n \in 1..Len(Joins(item.who)) : Joins(item.who)[n] \in Safe
    BY <2>2, <2>3
  <2>5. Joins(item.who) \in Seq(Safe)
    BY <2>2, <2>4
  <2> QED BY <1>2, <2>5
<1>3. CASE item.op = "endAspirants" /\ Took(item, EndAll(Race, Yesterday))
  <2>1. Race \in SUBSET DOMAIN pos /\ \A i \in Race : pos[i].title # "member"
    BY CurrentTitle DEF Race
  <2> QED BY <1>3, <2>1, DaysWritten, EndsSafe
<1>4. CASE item.op = "extend" /\ \E i \in MostRecent(item.who) : Took(item, Extend(i))
  <2>1. PICK i \in DOMAIN pos : Took(item, Extend(i))
    BY <1>4 DEF MostRecent, Memberships, In, Of
  <2>2. Ended(i, Future) \in Safe
    BY DaysWritten, EndedSafe
  <2>3. Extend(i) \in Seq(Safe)
    BY <2>2 DEF Extend
  <2> QED BY <2>1, <2>3
<1>5. CASE Took(item, <<>>)
  <2>1. <<>> \in Seq(Safe)
    OBVIOUS
  <2> QED BY <1>5, <2>1
<1> QED BY <1>1, <1>2, <1>3, <1>4, <1>5 DEF Read

LEMMA JoinsSafe ==
    ASSUME TypeInv, OtherWork, NEW item \in Items, JoinCoalition(item), job' # None
    PROVE  job' = job /\ todo' \subseteq todo /\ \E x \in Safe : next' = <<x>> \o Rest
<1>1. item \in Item /\ item.op = "join" /\ Left(item) \subseteq todo
  BY Queue DEF JoinCoalition
<1>2. item.who \in Person /\ item.org \in Coalition
  BY <1>1, Kinds
<1> DEFINE rows == In({item.org}, Of(item.who, Current("coalition")))
           new == Position(item.who, item.org, "coalition", None, today, Future)
<1>3. CASE /\ \E i \in rows : rows = {i} /\ next' = <<Ended(i, Future)>> \o Rest
           /\ todo' = Discard(Left(item), rows)
           /\ UNCHANGED job
  <2>1. PICK i \in DOMAIN pos : next' = <<Ended(i, Future)>> \o Rest
    BY <1>3, CurrentRows
  <2>2. Ended(i, Future) \in Safe
    BY DaysWritten, EndedSafe
  <2>3. todo' \subseteq todo /\ job' = job
    BY <1>1, <1>3 DEF Discard
  <2> HIDE DEF rows
  <2> QED BY <2>1, <2>2, <2>3
<1>4. CASE Took(item, <<New(new)>>) /\ UNCHANGED job
  <2>1. item.org \in Organisation /\ "coalition" \in Title
    BY <1>2 DEF Organisation, Title
  <2>2. new \in Row
    BY <1>2, <2>1, Written, DaysWritten
  <2>3. New(new) \in Safe
    BY <2>2, Made DEF Safe, New
  <2> QED BY <1>1, <1>4, <2>3 DEF Took
<1> QED BY <1>3, <1>4 DEF JoinCoalition

LEMMA OtherWorkStays ==
    ASSUME TypeInv, LossWork, OtherWork, job \notin {"switch", "aspirants", None}, NEW item \in Items,
           Write(item) \/ Read(item) \/ Add(item) \/ JoinCoalition(item) \/ FixRow(item)
    PROVE  /\ LossWork' /\ todo' \subseteq todo /\ note' = note /\ tally' = tally
           /\ job' = job \/ job' = None
<1>1. /\ item.op \notin {"switch", "code", "parties", "stand", "add"}
      /\ Rest \in Seq(Safe) /\ Left(item) \subseteq todo
  BY Queue
<1>2. ~Add(item) /\ note' = note /\ tally' = tally
  BY <1>1 DEF Write, Read, Add, JoinCoalition, FixRow
<1>3. ASSUME NEW more \in Seq(Safe), Took(item, more)
      PROVE  next' \in Seq(Safe) /\ todo' \subseteq todo
  BY <1>1, <1>3 DEF Took
<1>4. <<>> \in Seq(Safe)
  OBVIOUS
<1>5. CASE job' = None
  <2>1. next' = <<>> /\ todo' = {}
    BY <1>2, <1>5 DEF Write, Read, JoinCoalition, FixRow
  <2>2. None \notin {"switch", "aspirants", "fix"}
    BY PositionAssumption DEF Command
  <2>3. OtherWork'
    BY <1>4, <2>1 DEF OtherWork
  <2>4. LossWork'
    BY <1>5, <2>2, <2>3 DEF LossWork
  <2> QED BY <1>2, <1>5, <2>1, <2>4
<1>6. CASE job' # None
  <2>1. job' = job /\ next' \in Seq(Safe) /\ todo' \subseteq todo
    <3>1. CASE Write(item)
      BY <1>3, <1>4, <3>1 DEF Write
    <3>2. CASE Read(item)
      BY <1>3, <3>2, ReadsSafe DEF Read
    <3>3. CASE JoinCoalition(item)
      <4>1. PICK x \in Safe : next' = <<x>> \o Rest
        BY <1>6, <3>3, JoinsSafe
      <4>2. next' \in Seq(Safe)
        BY <1>1, <4>1
      <4> QED BY <1>6, <3>3, <4>2, JoinsSafe
    <3>4. CASE FixRow(item)
      <4>1. Took(item, <<>>) /\ job' = job
        BY <1>6, <3>4 DEF FixRow
      <4> QED BY <1>3, <1>4, <4>1
    <3> QED BY <1>2, <3>1, <3>2, <3>3, <3>4
  <2>2. OtherWork'
    BY <2>1 DEF OtherWork
  <2>3. job = "fix" => \A t \in todo' : pos'[t.item.id].title = "mp"
    <3> SUFFICES ASSUME job = "fix", NEW t \in todo' PROVE pos'[t.item.id].title = "mp"
      OBVIOUS
    <3>1. FixRow(item)
      <4>1. item.op = "fix"
        BY InHand DEF Sound
      <4> QED BY <4>1 DEF Write, Read, Add, JoinCoalition
    <3>2. t.item.id \in DOMAIN pos /\ pos[t.item.id].title = "mp"
      BY <2>1 DEF LossWork, TypeInv, Work, WorkFor, Fixes
    <3>3. pos[t.item.id].title = pos'[t.item.id].title
      BY <1>6, <3>1, <3>2, FixTitles
    <3> QED BY <3>2, <3>3
  <2>4. LossWork'
    BY <1>2, <2>1, <2>2, <2>3 DEF LossWork
  <2> QED BY <1>2, <2>1, <2>4
<1> QED BY <1>5, <1>6

LEMMA OtherStepLoses ==
    ASSUME TypeInv, KeyInv, LossCount, LossWork, job \notin {"switch", "aspirants", None},
           NEW item \in Items,
           Write(item) \/ Read(item) \/ Add(item) \/ JoinCoalition(item) \/ FixRow(item)
    PROVE  LossCount' /\ LossWork'
<1>1. OtherWork /\ note.last = None /\ None # "switch"
  BY PositionAssumption DEF LossWork, Command
<1>2. /\ LossWork' /\ todo' \subseteq todo /\ note' = note /\ tally' = tally
      /\ job' \in {job, None}
  BY <1>1, OtherWorkStays
<1>3. /\ item \in Item
      /\ item.op = "save" => (item.row.title = "member" => item.row.end = Future)
      /\ item.op \in {"delete", "fix"} => \E t \in todo : t.item = item
  BY <1>1, Queue
<1>4. Doomed' \subseteq Doomed
  BY <1>2 DEF Doomed
<1>5. ASSUME NEW i \in DOMAIN pos \ Doomed, pos[i].title = "member"
      PROVE  /\ i \in DOMAIN pos' \ Doomed' /\ Key(pos'[i]) = Key(pos[i])
             /\ Active(pos[i], SwitchDay) => Active(pos'[i], SwitchDay)
  <2>1. lastId \in Nat /\ lastId + 1 \in Nat /\ lastId + 1 \notin DOMAIN pos
    BY DEF TypeInv, TypeOK
  <2>2. CASE Read(item) \/ Add(item) \/ JoinCoalition(item)
    BY <1>4, <2>2 DEF Read, Add, JoinCoalition
  <2>3. CASE FixRow(item)
    <3>1. job = "fix" /\ item.op = "fix"
      BY <2>3, InHand DEF FixRow, Sound
    <3>2. pos[item.id].title = "mp"
      BY <1>3, <3>1 DEF LossWork
    <3>3. i # item.id
      BY <1>5, <3>2
    <3> QED BY <1>4, <2>3, <3>3, FixTitles
  <2>4. CASE Write(item) /\ item.op = "save" /\ pos' = Put(item.id, item.row)
    <3>1. item.id \in Nat /\ item.row \in Row
      BY <1>3, <2>4, Kinds
    <3>2. /\ DOMAIN pos' = DOMAIN pos \cup {item.id} /\ pos'[item.id] = item.row
          /\ \A j \in DOMAIN pos : j # item.id => pos'[j] = pos[j]
      BY <2>4, <3>1, PutMade
    <3>3. job' # None
      BY <2>4 DEF Write
    <3>4. Key(pos'[i]) = Key(pos[i])
      BY <2>4, <3>2, <3>3, StepNames
    <3>5. i = item.id => (Active(pos[i], SwitchDay) => Active(pos'[i], SwitchDay))
      <4> SUFFICES ASSUME i = item.id, Active(pos[i], SwitchDay) PROVE Active(pos'[i], SwitchDay)
        OBVIOUS
      <4>1. pos[i] \in Row
        BY Rows
      <4>2. item.row.title = "member" /\ Key(pos[i]) = Key(item.row)
        BY <1>5, <3>2, <3>4 DEF Key
      <4>3. item.row.end = Future
        BY <1>3, <2>4, <4>2
      <4>4. Active(item.row, SwitchDay)
        BY <3>1, <4>1, <4>2, <4>3, ActiveOn
      <4> QED BY <3>2, <4>4
    <3> QED BY <1>4, <3>2, <3>4, <3>5
  <2>5. CASE item.op = "new" /\ pos' = Put(lastId + 1, item.row)
    <3>1. item.row \in Row
      BY <1>3, <2>5, Kinds
    <3>2. /\ DOMAIN pos' = DOMAIN pos \cup {lastId + 1}
          /\ \A j \in DOMAIN pos : j # lastId + 1 => pos'[j] = pos[j]
      BY <2>1, <2>5, <3>1, PutMade
    <3>3. i \in DOMAIN pos' /\ pos'[i] = pos[i]
      BY <2>1, <3>2
    <3> QED BY <1>4, <3>3
  <2>6. CASE item.op = "delete" /\ pos' = [j \in DOMAIN pos \ {item.id} |-> pos[j]]
    <3>1. item.id \in Doomed
      BY <1>3, <2>6 DEF Doomed
    <3>2. i \in DOMAIN pos' /\ pos'[i] = pos[i]
      BY <2>6, <3>1
    <3> QED BY <1>4, <3>2
  <2> QED BY <2>2, <2>3, <2>4, <2>5, <2>6 DEF Write
<1>6. job' # "switch" /\ note'.last # "switch" /\ note'.owed = note.owed
  BY <1>1, <1>2
<1>7. \A i \in DOMAIN pos \ Doomed :
            pos[i].title = "member" /\ pos[i].who \notin {} =>
                \E j \in DOMAIN pos' \ Doomed' :
                    /\ Key(pos'[j]) = Key(pos[i])
                    /\ Active(pos[i], SwitchDay) => Active(pos'[j], SwitchDay)
  BY <1>5
<1>8. Lost' \subseteq Lost
  BY <1>6, <1>7, RowsOn
<1>9. LossCount'
  <2>1. /\ IsFiniteSet(note'.owed) /\ tally' \in [runs : Nat, kills : Nat, edits : Nat, news : Nat]
        /\ tally.kills + tally.edits <= tally'.kills + tally'.edits
    BY <1>2 DEF LossCount
  <2> QED BY <1>8, <2>1, NobodyNew
<1> QED BY <1>2, <1>9

(* The IEBC gives a party to those it publishes: nobody is owed any more.  *)
LEMMA AspirantStepLoses ==
    ASSUME TypeInv, LossCount, LossWork, job = "aspirants", NEW item \in Items,
           Write(item) \/ Read(item) \/ Add(item) \/ JoinCoalition(item) \/ FixRow(item),
           TypeInv'
    PROVE  LossCount' /\ LossWork'
<1>1. note.owed = {} /\ note.last = None /\ None \notin {"switch", "aspirants", "fix"}
  BY PositionAssumption DEF LossWork, Command
<1>2. note'.owed = {} /\ note'.last = None /\ tally' = tally /\ job' \in {job, None}
  <2>1. note' = note \/ note' = [note EXCEPT !.quiet = FALSE]
    BY DEF Write, Read, Add, JoinCoalition, FixRow
  <2> QED BY <1>1, <2>1 DEF Write, Read, Add, JoinCoalition, FixRow, TypeInv
<1>3. job' = None => todo' = {} /\ next' = <<>>
  BY DEF TypeInv
<1>4. LossWork'
  <2>1. <<>> \in Seq(Safe)
    OBVIOUS
  <2>2. job' = None => OtherWork'
    BY <1>3, <2>1 DEF OtherWork
  <2> QED BY <1>1, <1>2, <2>2 DEF LossWork
<1>5. Lost' \subseteq Lost
  BY <1>2 DEF Lost
<1>6. LossCount'
  <2>1. /\ IsFiniteSet(note'.owed) /\ tally' \in [runs : Nat, kills : Nat, edits : Nat, news : Nat]
        /\ tally.kills + tally.edits <= tally'.kills + tally'.edits
    BY <1>2, FS_EmptySet DEF LossCount
  <2> QED BY <1>5, <2>1, NobodyNew
<1> QED BY <1>4, <1>6

-----------------------------------------------------------------------------
(* A step of the command that moves them.                                  *)

(* It keeps those provided for when it keeps the rows that have arrived,   *)
(* and moves those whose row it no longer has to do.                       *)
LEMMA MovesOn ==
    ASSUME LossCount, job = "switch", job' = "switch", note' = note, tally' = tally,
           Doomed = {}, Doomed' = {},
           \A i \in DOMAIN pos :
                i \in DOMAIN pos' /\ pos'[i].who = pos[i].who /\ (Arrived(pos[i]) => Arrived(pos'[i])),
           \A i \in DOMAIN pos \cap Awaited :
                Waiting(pos[i]) => (i \in Awaited' /\ Waiting(pos'[i])) \/ Moves(pos[i].who)',
           \A w : Moves(w) => Moves(w)' \/ Arrives(w)'
    PROVE  LossCount'
<1>1. ASSUME NEW w, Provided(w)
      PROVE  Provided(w)'
  <2>1. CASE Arrives(w)
    <3>1. PICK i \in DOMAIN pos : pos[i].who = w /\ Arrived(pos[i])
      BY <2>1 DEF Arrives
    <3>2. i \in DOMAIN pos' \ Doomed' /\ pos'[i].who = w /\ Arrived(pos'[i])
      BY <3>1
    <3>3. Arrives(w)'
      BY <3>2 DEF Arrives, Arrived
    <3> QED BY <3>3 DEF Provided
  <2>2. CASE Waits(w)
    <3>1. PICK i \in DOMAIN pos \cap Awaited : pos[i].who = w /\ Waiting(pos[i])
      BY <2>2 DEF Waits
    <3>2. CASE Moves(pos[i].who)'
      BY <3>1, <3>2 DEF Provided, Moves
    <3>3. CASE i \in Awaited' /\ Waiting(pos'[i])
      <4>1. i \in DOMAIN pos' /\ pos'[i].who = w
        BY <3>1
      <4>2. Waits(w)'
        BY <3>3, <4>1 DEF Waits, Waiting
      <4> QED BY <4>2 DEF Provided
    <3> QED BY <3>1, <3>2, <3>3
  <2>3. CASE Moves(w)
    BY <2>3 DEF Provided
  <2> QED BY <1>1, <2>1, <2>2, <2>3 DEF Provided
<1>2. Lost' \subseteq Lost
  BY <1>1 DEF Lost
<1>3. /\ IsFiniteSet(note'.owed) /\ tally' \in [runs : Nat, kills : Nat, edits : Nat, news : Nat]
      /\ tally.kills + tally.edits <= tally'.kills + tally'.edits
  BY DEF LossCount
<1> QED BY <1>2, <1>3, NobodyNew

LEMMA NothingDoomed ==
    ASSUME job = "switch", LossWork
    PROVE  Doomed = {}
BY DEF LossWork, SwitchWork, Doomed

(* What it has in hand: a row to be moved, the end of the old membership,  *)
(* or the new one.                                                         *)
LEMMA SwitchHands ==
    ASSUME TypeInv, LossWork, job = "switch", NEW item \in Items
    PROVE  \/ /\ next = <<>> /\ item.op = "switch" /\ item.row.title = "member"
              /\ \A t \in todo : t \in Left(item) \/ t.item = item
              /\ Rest = <<>> /\ Left(item) \subseteq todo
           \/ /\ next = <<item>> /\ item.op = "new" /\ Arrived(item.row)
              /\ Rest = <<>> /\ Left(item) = todo
           \/ \E new \in Item :
                /\ next = <<item, new>> /\ item.op = "save" /\ item.row.who = new.row.who
                /\ new.op = "new" /\ Arrived(new.row)
                /\ Rest = <<new>> /\ Left(item) = todo
<1>1. SwitchWork
  BY DEF LossWork
<1>2. CASE next = <<>>
  <2>1. PICK t \in todo : item = t.item
    BY <1>2 DEF Items, First
  <2>2. item.op = "switch" /\ item.row.title = "member"
    BY <1>1, <2>1 DEF SwitchWork
  <2>3. /\ \A u \in todo : u \in Left(item) \/ u.item = item
        /\ Rest = <<>> /\ Left(item) \subseteq todo
    BY <1>2 DEF Left, Rest
  <2> QED BY <1>2, <2>2, <2>3
<1>3. ASSUME NEW new \in Item, next = <<new>>, new.op = "new", Arrived(new.row)
      PROVE  /\ next = <<item>> /\ item.op = "new" /\ Arrived(item.row)
             /\ Rest = <<>> /\ Left(item) = todo
  <2>1. next # <<>> /\ Head(next) = new /\ Tail(next) = <<>>
    BY <1>3
  <2>2. item = new /\ Rest = <<>> /\ Left(item) = todo
    BY <2>1 DEF Items, Rest, Left
  <2> QED BY <1>3, <2>2
<1>4. ASSUME NEW old \in Item, NEW new \in Item, next = <<old, new>>, old.op = "save",
             old.row.who = new.row.who, new.op = "new", Arrived(new.row)
      PROVE  /\ next = <<item, new>> /\ item.op = "save" /\ item.row.who = new.row.who
             /\ new.op = "new" /\ Arrived(new.row)
             /\ Rest = <<new>> /\ Left(item) = todo
  <2>1. next # <<>> /\ Head(next) = old /\ Tail(next) = <<new>>
    BY <1>4
  <2>2. item = old /\ Rest = <<new>> /\ Left(item) = todo
    BY <2>1 DEF Items, Rest, Left
  <2> QED BY <1>4, <2>2
<1> QED BY <1>1, <1>2, <1>3, <1>4 DEF SwitchWork

LEMMA LastHeld ==
    /\ \A x : <<x>> # <<>> /\ Len(<<x>>) = 1 /\ <<x>>[1] = x
    /\ \A x, y : <<x, y>> # <<>> /\ Len(<<x, y>>) = 2 /\ <<x, y>>[2] = y
OBVIOUS

(* An old membership is read again, and becomes its end and the new one.   *)
LEMMA SwitchReads ==
    ASSUME TypeInv, KeyInv, LossCount, LossWork, job = "switch", NEW item \in Items, Read(item),
           next = <<>>, item.op = "switch", item.row.title = "member", Rest = <<>>,
           \A t \in todo : t \in Left(item) \/ t.item = item, Left(item) \subseteq todo
    PROVE  LossCount' /\ SwitchWork'
<1>1. item \in Item /\ item.id \in Nat /\ item.row \in Row
  BY InHand, Kinds
<1>2. Took(item, Switch(item.id, item.row)) /\ UNCHANGED <<pos, job, tally, note>>
  BY DEF Read
<1>3. PICK end \in Approximate : end = [SwitchDay EXCEPT !.d = @ - 1]
  BY DaysWritten
<1>4. PICK old \in Row : old = [item.row EXCEPT !.end = end]
  BY <1>1 DEF Row
<1>5. PICK new \in Row : new = [item.row EXCEPT !.end = NoDate, !.start = SwitchDay, !.org = Union]
  <2>1. NoDate \in Approximate /\ SwitchDay \in Approximate /\ Union \in Organisation
    BY Words, DaysKnown, PositionAssumption DEF Organisation, Parties
  <2> QED BY <1>1, <2>1 DEF Row
<1>6. old.who = item.row.who /\ new.who = item.row.who /\ Arrived(new)
  BY <1>1, <1>4, <1>5 DEF Row, Arrived
<1>7. PICK x \in Item : x = Save(item.id, old) /\ x.op = "save" /\ x.row = old
  BY <1>1, Made DEF Save
<1>8. PICK y \in Item : y = New(new) /\ y.op = "new" /\ y.row = new
  BY Made DEF New
<1>9. next' = <<x, y>> /\ todo' = Left(item)
  <2>1. Switch(item.id, item.row) = <<x, y>>
    BY <1>3, <1>4, <1>5, <1>7, <1>8 DEF Switch
  <2> QED BY <1>2, <2>1 DEF Took
<1>10. SwitchWork'
  <2>1. \A t \in todo' : t.item.op = "switch" /\ t.item.row.title = "member"
    BY <1>9 DEF LossWork, SwitchWork
  <2> QED BY <1>6, <1>7, <1>8, <1>9, <2>1 DEF SwitchWork, Arrived
<1>11. Doomed = {} /\ Doomed' = {}
  <2>1. \A t \in todo' : t.item.op = "switch"
    BY <1>10 DEF SwitchWork
  <2> QED BY <2>1, NothingDoomed DEF Doomed
<1>12. Moves(item.row.who)'
  <2>1. next' # <<>> /\ next'[Len(next')] = y
    BY <1>9, LastHeld
  <2> QED BY <1>2, <1>6, <1>8, <2>1 DEF Moves
<1>13. ASSUME NEW i \in DOMAIN pos \cap Awaited, Waiting(pos[i])
       PROVE  (i \in Awaited' /\ Waiting(pos'[i])) \/ Moves(pos[i].who)'
  <2>1. PICK t \in todo : t.item.id = i
    BY DEF Awaited
  <2>2. CASE t \in todo'
    BY <1>2, <1>13, <2>1, <2>2 DEF Awaited, Waiting
  <2>3. CASE t.item = item
    <3>1. PICK key : OneEach(key)
      BY DEF KeyInv
    <3>2. Key(item.row) = key[i] /\ Key(pos[i]) = key[i]
      BY <2>1, <2>3, <3>1 DEF OneEach, Named, Names
    <3>3. pos[i].who = item.row.who
      BY <3>2 DEF Key
    <3>4. pos'[i].who = item.row.who
      BY <1>2, <3>3
    <3> QED BY <1>12, <3>4 DEF Moves
  <2> QED BY <1>9, <2>2, <2>3
<1>14. \A w : ~Moves(w)
  BY DEF Moves
<1>15. LossCount'
  <2>1. \A i \in DOMAIN pos :
            i \in DOMAIN pos' /\ pos'[i].who = pos[i].who /\ (Arrived(pos[i]) => Arrived(pos'[i]))
    BY <1>2
  <2>2. job' = "switch" /\ note' = note /\ tally' = tally
    BY <1>2
  <2> QED BY <1>11, <1>13, <1>14, <2>1, <2>2, MovesOn
<1> QED BY <1>10, <1>15

(* The old membership is ended: its person is the one for whom the new one *)
(* comes next.                                                             *)
LEMMA SwitchEnds ==
    ASSUME TypeInv, KeyInv, LossCount, LossWork, job = "switch", NEW item \in Items, Write(item),
           NEW new \in Item, next = <<item, new>>, item.op = "save", item.row.who = new.row.who,
           new.op = "new", Arrived(new.row), Rest = <<new>>, Left(item) = todo
    PROVE  LossCount' /\ SwitchWork'
<1>1. item \in Item /\ item.id \in Nat /\ item.row \in Row
  BY InHand, Kinds
<1>2. /\ UNCHANGED <<job, tally, note>> /\ pos' = Put(item.id, item.row)
      /\ next' = <<new>> /\ todo' = todo
  <2>1. Took(item, <<>>)
    BY DEF Write
  <2>2. next' = <<>> \o <<new>> /\ todo' = todo
    BY <2>1 DEF Took
  <2> QED BY <2>2 DEF Write
<1>3. /\ DOMAIN pos' = DOMAIN pos \cup {item.id} /\ pos'[item.id] = item.row
      /\ \A j \in DOMAIN pos : j # item.id => pos'[j] = pos[j]
  BY <1>1, <1>2, PutMade
<1>4. SwitchWork'
  BY <1>2 DEF LossWork, SwitchWork, Arrived
<1>5. Doomed = {} /\ Doomed' = {}
  BY <1>2, NothingDoomed DEF Doomed
<1>6. \A i \in DOMAIN pos : i \in DOMAIN pos' /\ Key(pos'[i]) = Key(pos[i])
  <2>1. job' # None
    BY <1>2, PositionAssumption DEF Command
  <2> QED BY <1>3, <2>1, StepNames
<1>7. \A i \in DOMAIN pos :
            i \in DOMAIN pos' /\ pos'[i].who = pos[i].who /\ (Arrived(pos[i]) => Arrived(pos'[i]))
  BY <1>6 DEF Key, Arrived
<1>8. \A w : w = new.row.who => Moves(w)'
  <2>1. next' # <<>> /\ next'[Len(next')] = new
    BY <1>2, LastHeld
  <2> QED BY <1>2, <2>1 DEF Moves
<1>9. \A w : Moves(w) => w = new.row.who
  BY LastHeld DEF Moves
<1>10. ASSUME NEW i \in DOMAIN pos \cap Awaited, Waiting(pos[i])
       PROVE  (i \in Awaited' /\ Waiting(pos'[i])) \/ Moves(pos[i].who)'
  <2>1. i \in Awaited'
    BY <1>2 DEF Awaited
  <2>2. CASE i = item.id
    <3>1. pos'[i].who = new.row.who
      BY <1>3, <2>2
    <3> QED BY <1>8, <3>1
  <2>3. CASE i # item.id
    BY <1>3, <1>10, <2>1, <2>3
  <2> QED BY <2>2, <2>3
<1>11. \A w : Moves(w) => Moves(w)' \/ Arrives(w)'
  BY <1>8, <1>9
<1>12. job' = "switch" /\ note' = note /\ tally' = tally
  BY <1>2
<1>13. LossCount'
  BY <1>5, <1>7, <1>10, <1>11, <1>12, MovesOn
<1> QED BY <1>4, <1>13

(* The new one is saved: its person has arrived.                           *)
LEMMA SwitchArrives ==
    ASSUME TypeInv, LossCount, LossWork, job = "switch", NEW item \in Items, Write(item),
           next = <<item>>, item.op = "new", Arrived(item.row), Rest = <<>>, Left(item) = todo
    PROVE  LossCount' /\ SwitchWork'
<1>1. item \in Item /\ item.row \in Row
  BY InHand, Kinds
<1>2. PICK id \in Nat : id = lastId + 1 /\ id \notin DOMAIN pos
  BY DEF TypeInv, TypeOK
<1>3. /\ UNCHANGED <<job, tally, note>> /\ pos' = Put(id, item.row)
      /\ next' = <<>> /\ todo' = todo
  <2>1. Took(item, <<>>)
    BY DEF Write
  <2>2. next' = <<>> \o <<>> /\ todo' = todo
    BY <2>1 DEF Took
  <2> QED BY <1>2, <2>2 DEF Write
<1>4. /\ DOMAIN pos' = DOMAIN pos \cup {id} /\ pos'[id] = item.row
      /\ \A j \in DOMAIN pos : j # id => pos'[j] = pos[j]
  BY <1>1, <1>3, PutMade
<1>5. SwitchWork'
  BY <1>3 DEF LossWork, SwitchWork
<1>6. Doomed = {} /\ Doomed' = {}
  BY <1>3, NothingDoomed DEF Doomed
<1>7. \A i \in DOMAIN pos : i \in DOMAIN pos' /\ pos'[i] = pos[i]
  BY <1>2, <1>4
<1>8. \A w : Moves(w) => w = item.row.who
  BY LastHeld DEF Moves
<1>9. Arrives(item.row.who)'
  <2>1. id \in DOMAIN pos' \ Doomed' /\ pos'[id].who = item.row.who /\ Arrived(pos'[id])
    BY <1>4, <1>6
  <2> QED BY <2>1 DEF Arrives, Arrived
<1>10. \A w : Moves(w) => Moves(w)' \/ Arrives(w)'
  <2> SUFFICES ASSUME NEW w, Moves(w) PROVE Arrives(w)'
    OBVIOUS
  <2>1. w = item.row.who
    BY <1>8
  <2> QED BY <1>9, <2>1 DEF Arrives
<1>11. ASSUME NEW i \in DOMAIN pos \cap Awaited, Waiting(pos[i])
       PROVE  i \in Awaited' /\ Waiting(pos'[i])
  BY <1>3, <1>7, <1>11 DEF Awaited, Waiting
<1>12. \A i \in DOMAIN pos :
            i \in DOMAIN pos' /\ pos'[i].who = pos[i].who /\ (Arrived(pos[i]) => Arrived(pos'[i]))
  BY <1>7
<1>13. job' = "switch" /\ note' = note /\ tally' = tally
  BY <1>3
<1>14. LossCount'
  BY <1>6, <1>10, <1>11, <1>12, <1>13, MovesOn
<1> QED BY <1>5, <1>14

LEMMA SwitchStepLoses ==
    ASSUME TypeInv, KeyInv, LossCount, LossWork, job = "switch", NEW item \in Items,
           Write(item) \/ Read(item) \/ Add(item) \/ JoinCoalition(item) \/ FixRow(item)
    PROVE  LossCount' /\ LossWork'
<1>1. item.op = "switch" => Read(item)
  BY DEF Write, Add, JoinCoalition, FixRow
<1>2. item.op \in {"save", "new"} => Write(item)
  BY DEF Read, Add, JoinCoalition, FixRow
<1>3. LossCount' /\ SwitchWork'
  BY <1>1, <1>2, SwitchHands, SwitchReads, SwitchEnds, SwitchArrives
<1>4. note' = note /\ job' = job
  <2>1. item.op \in {"switch", "save", "new"}
    BY SwitchHands
  <2> QED BY <1>1, <1>2, <2>1 DEF Read, Write
<1>5. "switch" # None /\ note.last = None
  BY PositionAssumption DEF LossWork, Command
<1> QED BY <1>3, <1>4, <1>5 DEF LossWork

-----------------------------------------------------------------------------
LEMMA StepLoses == TypeInv /\ KeyInv /\ LossCount /\ LossWork /\ Step => LossCount' /\ LossWork'
<1> SUFFICES ASSUME TypeInv, KeyInv, LossCount, LossWork, Step PROVE LossCount' /\ LossWork'
  OBVIOUS
<1>1. PICK item \in Items : Write(item) \/ Read(item) \/ Add(item) \/ JoinCoalition(item) \/ FixRow(item)
  BY DEF Step
<1>2. job # None
  BY InHand
<1>3. TypeInv'
  BY StepTyped
<1> QED BY <1>1, <1>2, <1>3, OtherStepLoses, AspirantStepLoses, SwitchStepLoses

(* When nothing is left to be done, nobody waits for a command.            *)
LEMMA FinishLoses == TypeInv /\ LossCount /\ LossWork /\ Finish => LossCount' /\ LossWork'
<1> SUFFICES ASSUME TypeInv, LossCount, LossWork, Finish PROVE LossCount' /\ LossWork'
  OBVIOUS
<1>1. /\ job # None /\ job' = None /\ todo = {} /\ todo' = {} /\ next = <<>> /\ next' = <<>>
      /\ pos' = pos /\ tally' = tally
  BY DEF Finish
<1>2. note.last = None /\ None \notin {"switch", "aspirants", "fix"}
  BY <1>1, PositionAssumption DEF LossWork, Command
<1>3. note'.owed = note.owed /\ note'.last \in {None, job}
  BY <1>2 DEF Finish, TypeInv
<1>4. Doomed = {} /\ Doomed' = {}
  BY <1>1 DEF Doomed
<1>5. LossWork'
  <2>1. <<>> \in Seq(Safe)
    OBVIOUS
  <2>2. OtherWork'
    BY <1>1, <2>1 DEF OtherWork
  <2> QED BY <1>1, <1>2, <2>2 DEF LossWork
<1>6. Lost' \subseteq Lost
  <2> SUFFICES ASSUME NEW w, Provided(w) PROVE Provided(w)'
    BY <1>3 DEF Lost
  <2>1. CASE Arrives(w)
    BY <1>1, <1>4, <2>1 DEF Arrives, Arrived, Provided
  <2>2. CASE Waits(w)
    <3>1. job # "switch"
      BY <1>1, <2>2 DEF Waits, Awaited
    <3>2. Awaited' = DOMAIN pos
      BY <1>1, <1>2, <1>3, <1>4, <3>1 DEF Awaited
    <3> QED BY <1>1, <2>2, <3>2 DEF Waits, Waiting, Provided
  <2>3. ~Moves(w)
    BY <1>1 DEF Moves
  <2> QED BY <2>1, <2>2, <2>3 DEF Provided
<1>7. /\ IsFiniteSet(note'.owed) /\ tally' \in [runs : Nat, kills : Nat, edits : Nat, news : Nat]
      /\ tally.kills + tally.edits <= tally'.kills + tally'.edits
  BY <1>1, <1>3 DEF LossCount
<1>8. LossCount'
  BY <1>6, <1>7, NobodyNew
<1> QED BY <1>5, <1>8

LEMMA DisturbedNote ==
    ASSUME TypeInv, Disturb
    PROVE  note'.owed = note.owed /\ note'.last = None
BY DEF TypeInv, Disturb

(* A kill leaves out the person whose new membership was the next to be    *)
(* saved, and nobody else.                                                 *)
LEMMA KillLoses == TypeInv /\ LossCount /\ LossWork /\ Kill => LossCount' /\ LossWork'
<1> SUFFICES ASSUME TypeInv, LossCount, LossWork, Kill PROVE LossCount' /\ LossWork'
  OBVIOUS
<1>1. job' = None /\ todo' = {} /\ next' = <<>> /\ pos' = pos
  BY DEF Kill
<1>2. None \notin {"switch", "aspirants", "fix"}
  BY PositionAssumption DEF Command
<1>3. note'.owed = note.owed /\ note'.last = None
  BY DisturbedNote DEF Kill
<1>4. LossWork'
  <2>1. <<>> \in Seq(Safe)
    OBVIOUS
  <2>2. OtherWork'
    BY <1>1, <2>1 DEF OtherWork
  <2> QED BY <1>1, <1>2, <2>2 DEF LossWork
<1>5. Doomed' = {} /\ Awaited' = DOMAIN pos
  <2>1. Doomed' = {}
    BY <1>1 DEF Doomed
  <2> QED BY <1>1, <1>2, <1>3, <2>1 DEF Awaited
<1>6. PICK v : v = next[Len(next)].row.who
  OBVIOUS
<1>7. Lost' \subseteq Lost \cup {v}
  <2> SUFFICES ASSUME NEW w, w # v, Provided(w) PROVE Provided(w)'
    BY <1>3 DEF Lost
  <2>1. ~Moves(w)
    BY <1>6 DEF Moves
  <2>2. CASE Arrives(w)
    BY <1>1, <1>5, <2>2 DEF Arrives, Arrived, Provided
  <2>3. CASE Waits(w)
    BY <1>1, <1>5, <2>3 DEF Waits, Waiting, Provided
  <2> QED BY <2>1, <2>2, <2>3 DEF Provided
<1>8. /\ IsFiniteSet(note'.owed) /\ tally' \in [runs : Nat, kills : Nat, edits : Nat, news : Nat]
      /\ tally'.kills + tally'.edits = tally.kills + tally.edits + 1
  <2>1. tally' = [tally EXCEPT !.kills = @ + 1]
    BY DEF Kill
  <2> QED BY <1>3, <2>1 DEF LossCount
<1>9. LossCount'
  BY <1>7, <1>8, OneNew
<1> QED BY <1>4, <1>9

(* And an edit of a row its person.                                        *)
LEMMA ApplyLoses == TypeInv /\ LossCount /\ LossWork /\ ApplyUpdate => LossCount' /\ LossWork'
<1> SUFFICES ASSUME TypeInv, LossCount, LossWork, ApplyUpdate PROVE LossCount' /\ LossWork'
  OBVIOUS
<1>1. job' = job /\ todo' = todo /\ next' = next /\ job # "fix"
  BY DEF ApplyUpdate, InTransaction
<1>2. note'.owed = note.owed /\ note'.last = None /\ None # "switch"
  BY DisturbedNote, PositionAssumption DEF ApplyUpdate, Command
<1>3. PICK i \in DOMAIN pos : \A k \in DOMAIN pos : k # i => k \in DOMAIN pos' /\ pos'[k] = pos[k]
  <2>1. PICK i \in DOMAIN pos : \/ pos' = [pos EXCEPT ![i].end = Yesterday]
                                \/ pos' = [j \in DOMAIN pos \ {i} |-> pos[j]]
    BY DEF ApplyUpdate
  <2>2. \A k \in DOMAIN pos : k # i => k \in DOMAIN pos' /\ pos'[k] = pos[k]
    BY <2>1
  <2> QED BY <2>2
<1>4. LossWork'
  BY <1>1, <1>2 DEF LossWork, SwitchWork, OtherWork, Arrived
<1>5. Doomed' = Doomed
  BY <1>1 DEF Doomed
<1>6. \A k \in DOMAIN pos \cap Awaited : k # i => k \in DOMAIN pos' \cap Awaited'
  BY <1>1, <1>2, <1>3, <1>5 DEF Awaited
<1>7. PICK v : v = pos[i].who
  OBVIOUS
<1>8. Lost' \subseteq Lost \cup {v}
  <2> SUFFICES ASSUME NEW w, w # v, Provided(w) PROVE Provided(w)'
    BY <1>2 DEF Lost
  <2>1. CASE Arrives(w)
    <3>1. PICK k \in DOMAIN pos \ Doomed : pos[k].who = w /\ Arrived(pos[k])
      BY <2>1 DEF Arrives
    <3>2. k \in DOMAIN pos' \ Doomed' /\ pos'[k] = pos[k]
      BY <1>3, <1>5, <1>7, <3>1
    <3>3. Arrives(w)'
      BY <3>1, <3>2 DEF Arrives, Arrived
    <3> QED BY <3>3 DEF Provided
  <2>2. CASE Waits(w)
    <3>1. PICK k \in DOMAIN pos \cap Awaited : pos[k].who = w /\ Waiting(pos[k])
      BY <2>2 DEF Waits
    <3>2. k \in DOMAIN pos' \cap Awaited' /\ pos'[k] = pos[k]
      BY <1>3, <1>6, <1>7, <3>1
    <3>3. Waits(w)'
      BY <3>1, <3>2 DEF Waits, Waiting
    <3> QED BY <3>3 DEF Provided
  <2>3. CASE Moves(w)
    BY <1>1, <2>3 DEF Moves, Provided
  <2> QED BY <2>1, <2>2, <2>3 DEF Provided
<1>9. /\ IsFiniteSet(note'.owed) /\ tally' \in [runs : Nat, kills : Nat, edits : Nat, news : Nat]
      /\ tally'.kills + tally'.edits = tally.kills + tally.edits + 1
  <2>1. tally' = [tally EXCEPT !.edits = @ + 1]
    BY DEF ApplyUpdate
  <2> QED BY <1>2, <2>1 DEF LossCount
<1>10. LossCount'
  BY <1>8, <1>9, OneNew
<1> QED BY <1>4, <1>10

(* What changes no row and nothing that is left to be done.                *)
LEMMA IdleLoses ==
    ASSUME LossCount, LossWork, UNCHANGED <<pos, job, todo, next>>, note'.owed = note.owed,
           note'.last = note.last \/ note'.last = None,
           tally' \in [runs : Nat, kills : Nat, edits : Nat, news : Nat],
           tally.kills + tally.edits <= tally'.kills + tally'.edits
    PROVE  LossCount' /\ LossWork'
<1>1. None # "switch"
  BY PositionAssumption DEF Command
<1>2. LossWork'
  BY DEF LossWork, SwitchWork, OtherWork, Arrived
<1>3. Doomed' = Doomed
  BY DEF Doomed
<1>4. Awaited \subseteq Awaited'
  BY <1>1, <1>3 DEF Awaited
<1>5. ASSUME NEW w, Provided(w)
      PROVE  Provided(w)'
  <2>1. Arrives(w) => Arrives(w)'
    BY <1>3 DEF Arrives, Arrived
  <2>2. Waits(w) => Waits(w)'
    BY <1>4 DEF Waits, Waiting
  <2>3. Moves(w) => Moves(w)'
    BY DEF Moves
  <2> QED BY <1>5, <2>1, <2>2, <2>3 DEF Provided
<1>6. Lost' \subseteq Lost
  BY <1>5 DEF Lost
<1>7. IsFiniteSet(note'.owed)
  BY DEF LossCount
<1> QED BY <1>2, <1>6, <1>7, NobodyNew

LEMMA LossStays ==
    ASSUME TypeInv, KeyInv, LossCount, LossWork, [Next]_vars
    PROVE  LossCount' /\ LossWork'
<1>1. CASE CheckNames \/ UNCHANGED vars
  <2>1. UNCHANGED <<pos, job, todo, next>> /\ note' = note /\ tally' = tally
    BY <1>1 DEF CheckNames, vars
  <2>2. /\ tally' \in [runs : Nat, kills : Nat, edits : Nat, news : Nat]
        /\ tally.kills + tally.edits <= tally'.kills + tally'.edits
    BY <2>1 DEF LossCount
  <2> QED BY <2>1, <2>2, IdleLoses
<1>2. CASE News
  <2>1. UNCHANGED <<pos, job, todo, next>> /\ tally' = [tally EXCEPT !.news = @ + 1]
    BY <1>2 DEF News
  <2>2. note'.owed = note.owed /\ note'.last = None
    BY <1>2, DisturbedNote DEF News
  <2>3. /\ tally' \in [runs : Nat, kills : Nat, edits : Nat, news : Nat]
        /\ tally.kills + tally.edits <= tally'.kills + tally'.edits
    BY <2>1 DEF LossCount
  <2> QED BY <2>1, <2>2, <2>3, IdleLoses
<1> QED BY <1>1, <1>2, CommandsLose, StepLoses, FinishLoses, KillLoses, ApplyLoses DEF Next, Commands

LEMMA LossStart == Init => LossCount /\ LossWork
<1> SUFFICES ASSUME Init PROVE LossCount /\ LossWork
  OBVIOUS
<1>1. /\ note.owed = {} /\ job = None /\ todo = {} /\ next = <<>>
      /\ tally = [runs |-> 0, kills |-> 0, edits |-> 0, news |-> 0]
  BY DEF Init
<1>2. None \notin {"switch", "aspirants", "fix"}
  BY PositionAssumption DEF Command
<1>3. <<>> \in Seq(Safe)
  OBVIOUS
<1>4. LossWork
  BY <1>1, <1>2, <1>3 DEF LossWork, OtherWork
<1>5. Lost = {}
  BY <1>1 DEF Lost
<1>6. IsFiniteSet({}) /\ Cardinality({}) = 0
  BY FS_EmptySet
<1>7. LossCount
  BY <1>1, <1>5, <1>6 DEF LossCount
<1> QED BY <1>4, <1>7

LEMMA FewOut == TypeInv /\ LossCount /\ LossWork => NobodyLeftOut
<1> SUFFICES ASSUME TypeInv, LossCount, LossWork, note.last = "switch"
             PROVE  Cardinality({w \in note.owed : \A i \in Of(w, DOMAIN pos) :
                                    pos[i].org # Union \/ pos[i].start # SwitchDay})
                        <= tally.kills + tally.edits
  BY DEF NobodyLeftOut
<1>1. job = None
  BY PositionAssumption DEF LossWork, Command
<1>2. job # "switch" /\ todo = {}
  BY <1>1, PositionAssumption DEF TypeInv, Command
<1>3. PICK out : out = {w \in note.owed : \A i \in Of(w, DOMAIN pos) :
                                    pos[i].org # Union \/ pos[i].start # SwitchDay}
  OBVIOUS
<1>4. out \subseteq Lost
  <2> SUFFICES ASSUME NEW w \in out PROVE ~Provided(w)
    BY <1>3 DEF Lost
  <2>1. ~Arrives(w)
    BY <1>3 DEF Arrives, Arrived, Of
  <2>2. ~Waits(w)
    BY <1>2 DEF Waits, Awaited
  <2>3. ~Moves(w)
    BY <1>2 DEF Moves
  <2> QED BY <2>1, <2>2, <2>3 DEF Provided
<1>5. IsFiniteSet(Lost)
  BY FS_Subset DEF LossCount, Lost
<1>6. Cardinality(out) <= Cardinality(Lost) /\ Cardinality(out) \in Nat /\ Cardinality(Lost) \in Nat
  BY <1>4, <1>5, FS_Subset, FS_CardinalityType
<1>7. Cardinality(Lost) <= tally.kills + tally.edits /\ tally.kills \in Nat /\ tally.edits \in Nat
  BY DEF LossCount
<1>8. Cardinality(out) <= tally.kills + tally.edits
  BY <1>6, <1>7
<1> QED BY <1>3, <1>8

(* The change of parties leaves out one person for each kill and each edit *)
(* at most, of all that were to be moved in some run: those who are not    *)
(* there yet wait, in a row the next run finds, or are the one in hand;    *)
(* and no other command deletes, ends or renames a membership in between.  *)
THEOREM NobodyStaysOut == Spec => []NobodyLost
<1>1. Init => TypeInv /\ KeyInv /\ LossCount /\ LossWork
  BY TypesStart, KeyStart, LossStart
<1>2. TypeInv /\ KeyInv /\ LossCount /\ LossWork /\ [Next]_vars
        => (TypeInv /\ KeyInv /\ LossCount /\ LossWork)'
  BY TypesStay, KeyStays, LossStays
<1>3. TypeInv /\ LossCount /\ LossWork => TypeOK /\ NobodyLeftOut
  BY FewOut DEF TypeInv
<1> QED BY <1>1, <1>2, <1>3, PTL DEF Spec, NobodyLost
=============================================================================
