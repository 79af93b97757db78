--------------------------- MODULE PositionCommands ---------------------------
(***************************************************************************)
(* The commands that keep positions up to date: the Kenyan aspirants of a  *)
(* race and their parties from the IEBC, their coalitions, the removal of  *)
(* duplicates and the recurring problems, the Nigerian change of party,    *)
(* and the generic commands of core.                                       *)
(*                                                                         *)
(* A command reads the rows it will work on, and then saves them one by    *)
(* one, each save a transaction of its own and a write of the whole row as *)
(* it was read.  What it still has to do is a set of items (todo), those   *)
(* of an earlier loop of the code before those of a later one; an item may *)
(* become a sequence of further items (next), when the code reads again.   *)
(* One command runs at a time; it may be killed, and an editor may change  *)
(* rows under it.                                                          *)
(***************************************************************************)
EXTENDS Positions, Sequences, SequencesExt

CONSTANTS
    None,
    Person, Party, Code,
    CoalitionOf,        \* the coalition of each party, or None
    Merged, Union,      \* the parties that become one, and that one
    SwitchDay,          \* the day on which they do
    Namesake,           \* codes of candidates who only share the name
    Feeds,              \* what the IEBC may publish for the race
    Tables,             \* the rows there may be at first
    FirstDay,           \* today, at first
    MaxRuns, MaxEvents  \* bounds: commands, and what happens around them

Independent == "independent"
Parties == Party \cup {Independent}
Coalition == {CoalitionOf[p] : p \in Party} \ {None}
Organisation == Parties \cup Coalition \cup {"kenya", "parliament", "other"}
Title == {"aspirant", "member", "coalition", "mp"}
Row == [who : Person, org : Organisation, title : Title, code : Code \cup {None},
        start : Approximate, end : Approximate]

Command == {"aspirants", "coalitions", "switch", "end", "elect", "deduplicate", "duplicates",
            "extend", "fix"}

(* What is to be done: a save, a deletion, or a part of the command that   *)
(* reads again first.                                                      *)
Item == [op : {"save", "switch"}, id : Nat, row : Row]
        \cup [op : {"code"}, id : Nat, row : Row, code : Code]
        \cup [op : {"new"}, row : Row]
        \cup [op : {"delete", "fix"}, id : Nat]
        \cup [op : {"parties"}, who : Person, party : Parties]
        \cup [op : {"stand"}, who : Person, code : Code]
        \cup [op : {"join"}, who : Person, org : Coalition]
        \cup [op : {"member", "extend"}, who : Person]
        \cup [op : {"add"}, code : Code]
        \cup [op : {"endAspirants"}]

VARIABLES
    pos,        \* the rows, by id
    lastId,     \* the last id given
    people,     \* the persons there are
    verdict,    \* names-manually-checked.csv, by candidate and person
    feed,       \* the candidates, by code: the person of that name, the party
    today,
    job,        \* the command that runs
    todo,       \* what is left of it, by the number of the loop
    next,       \* what is left of the item in hand
    tally,      \* how often what is bounded has happened
    note        \* history: what the properties look back on

vars == <<pos, lastId, people, verdict, feed, today, job, todo, next, tally, note>>

(* The day before t.                                                       *)
DayBefore(t) ==
    IF t.d > 1 THEN Date(t.y, t.m, t.d - 1)
    ELSE IF t.m > 1 THEN Date(t.y, t.m - 1, LastDay(t.y, t.m - 1))
    ELSE Date(t.y - 1, LastMonth, LastDay(t.y - 1, LastMonth))

ASSUME PositionAssumption ==
    /\ None \notin Person \cup Code \cup Command
    /\ FirstDay \in Day /\ DayBefore(FirstDay) \in Day
    /\ SwitchDay \in Day /\ SwitchDay.d > 1
    /\ Merged \subseteq Party /\ Union \in Party \ Merged
    /\ Party \cap {"kenya", "parliament", "other"} = {}

(* A code stays with the name it was given to.                             *)
ASSUME FeedAssumption ==
    /\ Tables \subseteq Seq(Row)
    /\ \A f \in Feeds :
        /\ DOMAIN f \subseteq Code
        /\ \A c \in DOMAIN f : f[c].who \in Person /\ f[c].party \in Parties
    /\ \A f \in Feeds, c \in Code :
        c \in DOMAIN f =>
            /\ \A g \in Feeds : c \in DOMAIN g => g[c].who = f[c].who
            /\ \A t \in Tables : \A i \in DOMAIN t : t[i].code = c => t[i].who = f[c].who

Yesterday == DayBefore(today)

Current(title) == {i \in DOMAIN pos : pos[i].title = title /\ Active(pos[i], today)}
Of(who, ids) == {i \in ids : pos[i].who = who}
In(orgs, ids) == {i \in ids : pos[i].org \in orgs}
Race == Current("aspirant")

Position(who, org, title, code, start, end) ==
    [who |-> who, org |-> org, title |-> title, code |-> code, start |-> start, end |-> end]

Save(i, row) == [op |-> "save", id |-> i, row |-> row]
Ended(i, end) == Save(i, [pos[i] EXCEPT !.end = end])
New(row) == [op |-> "new", row |-> row]
Delete(i) == [op |-> "delete", id |-> i]
EndAll(ids, end) == [n \in 1..Cardinality(ids) |-> Ended(SetToSeq(ids)[n], end)]
Update(who, party) == [op |-> "parties", who |-> who, party |-> party]

-----------------------------------------------------------------------------
(* kenya_update_aspirants_from_iebc, for one race.                         *)

(* update_parties.                                                         *)
UpdateParties(who, party) ==
    LET now == In(Parties, Of(who, Current("member")))
        right == In({party}, now)
    IN  IF party = Independent /\ now # right THEN <<>>
        ELSE EndAll({i \in right : pos[i].end # Future}, Future)
             \o EndAll(now \ right, Yesterday)
             \o IF right # {} THEN <<>>
                ELSE <<New(Position(who, party, "member", None, today, Future))>>

(* The last part of adding a candidate: the position of the aspirant.      *)
Stand(code, who) ==
    LET mine == Of(who, Race)
        wrong == {i \in mine : pos[i].code # code \/ pos[i].end # Future}
    IN  IF mine = {} THEN <<New(Position(who, "kenya", "aspirant", code, today, Future))>>
        ELSE [n \in 1..Cardinality(wrong) |->
                LET i == SetToSeq(wrong)[n] IN Save(i, [pos[i] EXCEPT !.code = code, !.end = Future])]

(* An aspirant of that name whose row has no code gets it, and then the    *)
(* party.                                                                  *)
Unset(who) == {i \in Of(who, Race) : pos[i].code = None}
WithCode(i, code) == [op |-> "code", id |-> i, row |-> pos[i], code |-> code]
SetCode(code) ==
    LET rows == Unset(feed[code].who)
    IN  [n \in 1..Cardinality(rows) |-> WithCode(SetToSeq(rows)[n], code)]
GetCode(i, row, code) ==
    <<Save(i, [row EXCEPT !.code = code]), Update(row.who, feed[code].party)>>

(* Mutant: aspirants who are no longer in the race stay.                   *)
Removals_None(carrier) == {}

(* The rows that were read with a code that is not published any more.     *)
Removals(carrier) == {Ended(carrier[c], Yesterday) : c \in DOMAIN carrier \ DOMAIN feed}

-----------------------------------------------------------------------------
(* The items that read again, and what they become.                        *)

Join(who, org) == [op |-> "join", who |-> who, org |-> org]
Joins(who) ==
    LET rows == {i \in In(Party, Of(who, Current("member"))) : CoalitionOf[pos[i].org] # None}
    IN  [n \in 1..Cardinality(rows) |-> Join(who, CoalitionOf[pos[SetToSeq(rows)[n]].org])]

(* core_extend_party_memberships: the first row in the default order.      *)
BadEnd == Date(FirstDay.y, 0, 0)
Memberships(who) == In(Parties, {i \in Of(who, DOMAIN pos) : pos[i].title = "member"})
MostRecent(who) ==
    {i \in Memberships(who) :
        \A j \in Memberships(who) :
            \/ Before(SortingEnd(pos[j]), SortingEnd(pos[i]))
            \/ /\ SortingEnd(pos[j]) = SortingEnd(pos[i])
               /\ UpTo(SortingStart(pos[j]), SortingStart(pos[i]))}
Extend(i) == IF pos[i].end = BadEnd THEN <<Ended(i, Future)>> ELSE <<>>

(* Mutant: the new membership begins when the old one did.                 *)
Switch_Start(i, row) ==
    <<Save(i, [row EXCEPT !.end = [SwitchDay EXCEPT !.d = @ - 1]]),
      New([row EXCEPT !.end = NoDate, !.org = Union])>>

(* nigeria_update_party_memberships: one row becomes two.                  *)
Switch(i, row) ==
    <<Save(i, [row EXCEPT !.end = [SwitchDay EXCEPT !.d = @ - 1]]),
      New([row EXCEPT !.end = NoDate, !.start = SwitchDay, !.org = Union])>>

-----------------------------------------------------------------------------
(* The steps of a command.                                                 *)

Begin(name, owed, phases) ==
    /\ job = None
    /\ tally.runs < MaxRuns
    /\ job' = name
    /\ todo' = UNION {{[loop |-> n, item |-> x] : x \in phases[n]} : n \in DOMAIN phases}
    /\ tally' = [tally EXCEPT !.runs = @ + 1]
    /\ note' = [note EXCEPT !.quiet = TRUE, !.last = None,
                            !.rounds = IF name = "aspirants" THEN @ ELSE 0,
                            !.owed = IF name = "aspirants" THEN {} ELSE @ \cup owed]
    /\ UNCHANGED <<pos, lastId, people, verdict, feed, today, next>>

First == {t \in todo : \A u \in todo : t.loop <= u.loop}
Items == IF next # <<>> THEN {Head(next)} ELSE {t.item : t \in First}
Rest == IF next # <<>> THEN Tail(next) ELSE <<>>
Left(item) == IF next # <<>> THEN todo ELSE todo \ {t \in First : t.item = item}

Took(item, more) == next' = more \o Rest /\ todo' = Left(item)

Put(i, row) == [j \in DOMAIN pos \cup {i} |-> IF j = i THEN row ELSE pos[j]]

(* A save writes the row as it was read, also over a row that is gone.     *)
Write(item) ==
    /\ \/ /\ item.op = "save"
          /\ pos' = Put(item.id, item.row)
          /\ UNCHANGED lastId
       \/ /\ item.op = "new"
          /\ pos' = Put(lastId + 1, item.row)
          /\ lastId' = lastId + 1
       \/ /\ item.op = "delete"
          /\ pos' = [i \in DOMAIN pos \ {item.id} |-> pos[i]]
          /\ UNCHANGED lastId
    /\ Took(item, <<>>)
    /\ UNCHANGED <<people, verdict, feed, today, job, tally, note>>

Read(item) ==
    /\ \/ item.op = "parties" /\ Took(item, UpdateParties(item.who, item.party))
       \/ item.op = "stand" /\ Took(item, Stand(item.code, item.who))
       \/ item.op = "code" /\ Took(item, GetCode(item.id, item.row, item.code))
       \/ item.op = "member" /\ Took(item, Joins(item.who))
       \/ item.op = "switch" /\ Took(item, Switch(item.id, item.row))
       \/ item.op = "endAspirants" /\ Took(item, EndAll(Race, Yesterday))
       \/ item.op = "extend" /\ \E i \in MostRecent(item.who) : Took(item, Extend(i))
       \/ item.op = "extend" /\ Memberships(item.who) = {} /\ Took(item, <<>>)
    /\ UNCHANGED <<pos, lastId, people, verdict, feed, today, job, tally, note>>

(* A candidate whose code no row had: the code is all that is missing, or  *)
(* the person must be the same, for names-manually-checked.csv, and gets a *)
(* position.  An entry "Different" is not None either.                     *)
Add(item) ==
    /\ item.op = "add"
    /\ LET code == item.code
           who == feed[code].who
           asked == who \in people /\ <<code, who>> \notin DOMAIN verdict
       IN  \/ /\ Unset(who) # {}
              /\ Took(item, SetCode(code))
              /\ UNCHANGED <<people, verdict, note>>
           \/ /\ Unset(who) = {} /\ ~asked
              /\ people' = people \cup {who}
              /\ Took(item, <<Update(who, feed[code].party), [op |-> "stand", code |-> code, who |-> who]>>)
              /\ UNCHANGED <<verdict, note>>
           \/ /\ Unset(who) = {} /\ asked
              /\ verdict' = (<<code, who>> :> "unfilled") @@ verdict
              /\ note' = [note EXCEPT !.quiet = FALSE]
              /\ Took(item, <<>>)
              /\ UNCHANGED people
    /\ UNCHANGED <<pos, lastId, feed, today, job, tally>>

(* Mutant: the membership that was found is still to be ended.             *)
Discard_None(tasks, rows) == tasks

Discard(tasks, rows) == {t \in tasks : t.item.op = "save" => t.item.id \notin rows}

(* A party of a coalition member: the membership of the coalition goes on, *)
(* or begins; two of them end the command.                                 *)
JoinCoalition(item) ==
    /\ item.op = "join"
    /\ LET rows == In({item.org}, Of(item.who, Current("coalition")))
       IN  \/ /\ Cardinality(rows) > 1
              /\ job' = None /\ todo' = {} /\ next' = <<>>
           \/ /\ \E i \in rows : rows = {i} /\ next' = <<Ended(i, Future)>> \o Rest
              /\ todo' = Discard(Left(item), rows)
              /\ UNCHANGED job
           \/ /\ rows = {}
              /\ Took(item, <<New(Position(item.who, item.org, "coalition", None, today, Future))>>)
              /\ UNCHANGED job
    /\ UNCHANGED <<pos, lastId, people, verdict, feed, today, tally, note>>

(* kenya_check_for_recurring_problems --fix: the membership of the party   *)
(* is created if none of it overlaps.  All is one transaction, committed   *)
(* also when an organisation it does not know ends the command.            *)
HasMembership(row) ==
    \E i \in DOMAIN pos :
        /\ pos[i].who = row.who /\ pos[i].title = "member" /\ pos[i].org = row.org
        /\ HasOverlap(pos[i], Earliest(row.start), Latest(row.end))

FixRow(item) ==
    /\ item.op = "fix"
    /\ LET row == pos[item.id]
           fixed == [row EXCEPT !.org = "parliament"]
       IN  \/ /\ row.org \notin Parties \cup {"kenya"}
              /\ job' = None /\ todo' = {} /\ next' = <<>>
              /\ UNCHANGED <<pos, lastId>>
           \/ /\ row.org = "kenya" \/ (row.org \in Parties /\ HasMembership(row))
              /\ pos' = Put(item.id, fixed)
              /\ Took(item, <<>>)
              /\ UNCHANGED <<lastId, job>>
           \/ /\ row.org \in Parties /\ ~HasMembership(row)
              /\ pos' = [i \in DOMAIN pos \cup {lastId + 1} |->
                            IF i = item.id THEN fixed
                            ELSE IF i = lastId + 1 THEN [row EXCEPT !.title = "member", !.code = None]
                            ELSE pos[i]]
              /\ lastId' = lastId + 1
              /\ Took(item, <<>>)
              /\ UNCHANGED job
    /\ UNCHANGED <<people, verdict, feed, today, tally, note>>

Step == \E item \in Items : Write(item) \/ Read(item) \/ Add(item) \/ JoinCoalition(item) \/ FixRow(item)

Finish ==
    /\ job # None
    /\ next = <<>> /\ todo = {}
    /\ job' = None
    /\ note' = IF ~note.quiet THEN [note EXCEPT !.rounds = 0]
               ELSE [note EXCEPT !.last = job, !.rounds = IF job = "aspirants" THEN @ + 1 ELSE @]
    /\ UNCHANGED <<pos, lastId, people, verdict, feed, today, todo, next, tally>>

-----------------------------------------------------------------------------
(* The commands.                                                           *)

(* An entry that nobody has filled in is an error, before anything else.   *)
Aspirants ==
    LET held == {pos[i].code : i \in Race} \ {None}
    IN  /\ \A key \in DOMAIN verdict : verdict[key] # "unfilled"
        /\ \E carrier \in [held -> Race] :
            /\ \A c \in held : pos[carrier[c]].code = c
            /\ Begin("aspirants", {},
                <<{[op |-> "add", code |-> c] : c \in DOMAIN feed \ held},
                  Removals(carrier),
                  {Update(pos[carrier[c]].who, feed[c].party) : c \in DOMAIN feed \cap held}>>)

Coalitions ==
    LET inParty == {i \in Current("member") : pos[i].org \in Party /\ CoalitionOf[pos[i].org] # None}
        members == {pos[i].who : i \in inParty} \cap {pos[i].who : i \in Race}
    IN  Begin("coalitions", {},
            <<{[op |-> "member", who |-> w] : w \in members},
              {Ended(i, Yesterday) : i \in {j \in Current("coalition") : pos[j].who \in members}}>>)

SwitchParty ==
    LET rows == {i \in DOMAIN pos : /\ pos[i].title = "member" /\ pos[i].org \in Merged
                                    /\ Active(pos[i], SwitchDay)}
    IN  Begin("switch", {pos[i].who : i \in rows},
            <<{[op |-> "switch", id |-> i, row |-> pos[i]] : i \in rows}>>)

EndPositions == \E t \in {"aspirant", "mp"} : Begin("end", {}, <<{Ended(i, Yesterday) : i \in Current(t)}>>)

(* core_create_elected_positions, for a winner who is elected today.       *)
Elect == \E w \in people :
    LET found == {i \in Of(w, DOMAIN pos) : /\ pos[i].title = "mp" /\ pos[i].org = "parliament"
                                            /\ pos[i].start = today}
        row == Position(w, "parliament", "mp", None, today, Future)
    IN  /\ Cardinality(found) < 2
        /\ Begin("elect", {}, <<IF found = {} THEN {New(row)} ELSE {}, {[op |-> "endAspirants"]}>>)

(* core_position_deduplicate compares all but the code.  Equal rows that   *)
(* another person of the same sort name comes between are not found.       *)
Deduplicate ==
    LET Same(i, j) == [pos[i] EXCEPT !.code = None] = [pos[j] EXCEPT !.code = None]
    IN  \E gone \in SUBSET DOMAIN pos :
            /\ \A i \in gone : \E j \in DOMAIN pos \ gone : Same(i, j)
            /\ Begin("deduplicate", {}, <<{Delete(i) : i \in gone}>>)

(* kenya_remove_duplicate_aspirants: of each person's rows in the race the *)
(* best stays, one with a code if there is one, and then the latest.       *)
RemoveDuplicates ==
    LET Better(i, j) ==
            \/ pos[i].code # None /\ pos[j].code = None
            \/ pos[i].code = pos[j].code /\ Before(StartString(pos[j]), StartString(pos[i]))
    IN  \E best \in [{pos[i].who : i \in Race} -> Race] :
            /\ \A w \in DOMAIN best :
                /\ pos[best[w]].who = w
                /\ \A i \in Of(w, Race) : ~Better(i, best[w])
            /\ Begin("duplicates", {}, <<{Delete(i) : i \in {j \in Race : best[pos[j].who] # j}}>>)

ExtendMemberships == Begin("extend", {}, <<{[op |-> "extend", who |-> w] : w \in people}>>)

Fix ==
    LET broken == {i \in DOMAIN pos : pos[i].title = "mp" /\ pos[i].org # "parliament"}
    IN  broken # {} /\ Begin("fix", {}, <<{[op |-> "fix", id |-> i] : i \in broken}>>)

-----------------------------------------------------------------------------
(* What happens around the commands.                                       *)

Few == tally.kills + tally.edits + tally.news < MaxEvents

(* The transaction of --fix: a kill is as if it had not begun.             *)
InTransaction == job = "fix"

Disturb == note' = [note EXCEPT !.quiet = FALSE, !.rounds = 0, !.last = None]

Kill ==
    /\ job # None /\ ~InTransaction
    /\ Few
    /\ tally' = [tally EXCEPT !.kills = @ + 1]
    /\ job' = None /\ todo' = {} /\ next' = <<>>
    /\ Disturb
    /\ UNCHANGED <<pos, lastId, people, verdict, feed, today>>

(* A row of the list of kenya_apply_updates, at any time.                  *)
ApplyUpdate ==
    /\ Few /\ ~InTransaction
    /\ \E i \in DOMAIN pos :
        \/ pos' = [pos EXCEPT ![i].end = Yesterday]
        \/ pos' = [j \in DOMAIN pos \ {i} |-> pos[j]]
    /\ tally' = [tally EXCEPT !.edits = @ + 1]
    /\ Disturb
    /\ UNCHANGED <<lastId, people, verdict, feed, today, job, todo, next>>

(* The entries of names-manually-checked.csv are filled in by hand.        *)
CheckNames ==
    /\ job = None
    /\ \E key \in DOMAIN verdict : verdict[key] = "unfilled"
    /\ verdict' = [key \in DOMAIN verdict |-> IF key[1] \in Namesake THEN "Different" ELSE "Same"]
    /\ UNCHANGED <<pos, lastId, people, feed, today, job, todo, next, tally, note>>

News ==
    /\ job = None
    /\ Few
    /\ tally' = [tally EXCEPT !.news = @ + 1]
    /\ \/ feed' \in Feeds \ {feed} /\ UNCHANGED today
       \/ today' = [today EXCEPT !.d = @ + 1] /\ today' \in Day /\ UNCHANGED feed
    /\ Disturb
    /\ UNCHANGED <<pos, lastId, people, verdict, job, todo, next>>

Init ==
    /\ pos \in Tables
    /\ lastId = Cardinality(DOMAIN pos)
    /\ people = {pos[i].who : i \in DOMAIN pos}
    /\ verdict = <<>>
    /\ feed \in Feeds
    /\ today = FirstDay
    /\ job = None /\ todo = {} /\ next = <<>>
    /\ tally = [runs |-> 0, kills |-> 0, edits |-> 0, news |-> 0]
    /\ note = [quiet |-> FALSE, last |-> None, rounds |-> 0, owed |-> {}]

Next ==
    \/ Aspirants \/ Coalitions \/ SwitchParty \/ EndPositions \/ Elect \/ Deduplicate
    \/ RemoveDuplicates \/ ExtendMemberships \/ Fix
    \/ Step \/ Finish
    \/ Kill \/ ApplyUpdate \/ CheckNames \/ News

Spec == Init /\ [][Next]_vars

-----------------------------------------------------------------------------
(* Every row has dates that the field accepts, and ids are not reused.     *)
TypeOK ==
    /\ lastId \in Nat /\ DOMAIN pos \subseteq 1..lastId /\ pos \in [DOMAIN pos -> Row]
    /\ people \subseteq Person /\ feed \in Feeds /\ today \in Day
    /\ todo \subseteq [loop : 1..3, item : Item] /\ next \in Seq(Item)
    /\ note.rounds \in Nat

(* The queries mean what the dates mean, for every row a command leaves.   *)
Dates == {[start |-> pos[i].start, end |-> pos[i].end] : i \in DOMAIN pos}
AllDates == {[start |-> s, end |-> e] : s, e \in Approximate}
Meaningful == {p \in AllDates : QueriesMeanDays(p) /\ OverlapsMeanDays(p)}
RowsMeanDays == Dates \subseteq Meaningful

(* A candidate whose person is nobody else: not another candidate of the   *)
(* same name, and not one whom staff found to be different.                *)
Sure(c) ==
    /\ \A d \in DOMAIN feed : feed[d].who = feed[c].who => d = c
    /\ \A key \in DOMAIN verdict : key = <<c, feed[c].who>> => verdict[key] # "Different"

(* After two runs that nothing disturbed, though the codes or the persons  *)
(* may have changed before and duplicates been there, these candidates     *)
(* stand under their code.                                                 *)
CandidatesStand ==
    note.rounds >= 2 =>
        \A c \in DOMAIN feed : Sure(c) =>
            \E i \in Race : pos[i].who = feed[c].who /\ pos[i].code = c

(* And each of them is in the party the IEBC gives and no other, but that  *)
(* someone in a party is not made independent.                             *)
InOneParty ==
    note.rounds >= 2 =>
        \A c \in DOMAIN feed : Sure(c) =>
            LET orgs == {pos[i].org : i \in In(Parties, Of(feed[c].who, Current("member")))}
            IN  IF feed[c].party = Independent THEN orgs # {} ELSE orgs = {feed[c].party}

(* A run ends one row of each code that is not published: nobody stands    *)
(* under it any more after as many undisturbed runs as there are rows with *)
(* that code, ended ones included.                                         *)
WithdrawnEnd ==
    \A c \in Code \ DOMAIN feed :
        Cardinality({i \in DOMAIN pos : pos[i].code = c}) <= note.rounds =>
            \A i \in Race : pos[i].code # c

(* After two runs a further one changes nothing but such rows, where every *)
(* candidate has a name of his own.                                        *)
RunsSettle ==
    [][/\ job = "aspirants" /\ note.rounds >= 2 /\ note'.rounds >= 2
       /\ \A c, d \in DOMAIN feed : feed[c].who = feed[d].who => c = d
       => \A i \in DOMAIN pos \cup DOMAIN pos' :
            \/ i \in DOMAIN pos \cap DOMAIN pos' /\ pos'[i] = pos[i]
            \/ i \in Race /\ pos[i].code \in Code \ DOMAIN feed]_vars

(* All of them: what is left by undisturbed runs, two for the candidates   *)
(* and one for each row that should end, is what the IEBC publishes.       *)
RaceInOrder == [](TypeOK /\ CandidatesStand /\ InOneParty /\ WithdrawnEnd) /\ RunsSettle

(* Once the coalitions have been assigned, every aspirant in a party of a  *)
(* coalition is in the coalitions of those parties, and in no other.       *)
CoalitionsFollow ==
    note.last = "coalitions" =>
        \A w \in {pos[i].who : i \in Race} :
            LET due == {CoalitionOf[pos[i].org] : i \in In(Party, Of(w, Current("member")))} \ {None}
            IN  due # {} => {pos[i].org : i \in Of(w, Current("coalition"))} = due

(* Of all who were to change party in some run, and whom the IEBC has not  *)
(* given one since, all but one for each kill and each edit are in the new *)
(* one from the day on when a run gets to its end, though it does not look *)
(* again at those whose old membership has been ended.                     *)
NobodyLeftOut ==
    note.last = "switch" =>
        Cardinality({w \in note.owed : \A i \in Of(w, DOMAIN pos) :
                        pos[i].org # Union \/ pos[i].start # SwitchDay})
            <= tally.kills + tally.edits

(* A change of rows from one party to another leaves nobody without one.   *)
NobodyLost == TypeOK /\ NobodyLeftOut

(* A member of parliament whose row named the party is in that party at    *)
(* the same time when the row names parliament.                            *)
BothRepresented ==
    [][\A i \in DOMAIN pos \cap DOMAIN pos' :
        pos[i].title = "mp" /\ pos[i].org \in Parties /\ pos'[i].org = "parliament" =>
            \E j \in DOMAIN pos' :
                /\ pos'[j].who = pos[i].who /\ pos'[j].title = "member" /\ pos'[j].org = pos[i].org
                /\ UpTo(Earliest(pos'[j].start), Latest(pos[i].end))
                /\ UpTo(Earliest(pos[i].start), Latest(pos'[j].end))]_vars

(* No candidate stands as a person who was found to be a different one.    *)
NamesakesApart ==
    \A i \in DOMAIN pos, key \in DOMAIN verdict :
        key = <<pos[i].code, pos[i].who>> => verdict[key] # "Different"
=============================================================================
