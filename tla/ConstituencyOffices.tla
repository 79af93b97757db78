------------------------- MODULE ConstituencyOffices -------------------------
(***************************************************************************)
(* south_africa_update_constituency_offices --commit: the constituency     *)
(* offices of parties, the people who work there and how to reach both,    *)
(* brought up to date from a JSON file.                                    *)
(*                                                                         *)
(* The command goes through the offices of the file.  An item of agenda is *)
(* done by one step, which reads and saves at most one row, or becomes     *)
(* further items.  Every save is committed by itself; the run may be       *)
(* killed, or end with an exception, and be started again with any file.   *)
(***************************************************************************)
EXTENDS Positions, FiniteSets, Sequences, SequencesExt

CONSTANTS
    Null,
    Name,           \* titles of offices; a slug is the name it was made of
    Code,           \* identifiers of offices
    Party,          \* slugs of the parties in the database
    NoParty,        \* a slug that no party has
    Person,
    Title,          \* the titles in position_titles
    OtherTitle,     \* any other that a file may name
    Contact,        \* the title Constituency Contact, which is for Member
    Member,         \* those who have, or had, a seat
    Number,         \* phone numbers and addresses, of offices and of people
    Files,          \* the files, with the options of the command
    Databases,      \* the offices and positions there may be at first
    Today,
    MaxRuns, MaxKills   \* bounds

Office == [name : Name, slug : Name, code : Code \cup {Null}, parties : SUBSET Party,
           ended : Approximate, contact : SUBSET Number,
           place : Name \cup {Null}, spot : Name \cup {Null}]  \* its place's name and slug

Position == [who : Person, org : Nat, title : Title \cup {Null},
             start : Approximate, end : Approximate]

(* What a file says of a person and of an office, and the call with a file.*)
Worker  == [who : Person, title : Title \cup {Null, OtherTitle}, cell : Number \cup {Null}]
Listing == [name : Name, code : Code \cup {Null}, party : Party \cup {NoParty},
            contact : Number \cup {Null}, located : BOOLEAN, people : Seq(Worker)]
Call    == [offices : Seq(Listing), endOld : Party \cup {Null}, exclude : SUBSET Name,
            search : BOOLEAN, start : Approximate, end : Approximate \ {NoDate}]

(* is_ongoing.                                                             *)
Ongoing(o) == o.ended \in {NoDate, Future} \/ UpTo(Today, o.ended)

ASSUME OfficeAssumption ==
    /\ Today \in Day
    /\ Null \notin Name \cup Code \cup Title \cup Number \cup Files
    /\ NoParty \notin Party
    /\ Contact \in Title /\ OtherTitle \notin Title \cup {Null}
    /\ MaxRuns \in Nat /\ MaxKills \in Nat

(* The offices of a file have titles and identifiers of their own.         *)
ASSUME FilesAssumption ==
    \A f \in Files :
        /\ f \in Call /\ UpTo(f.start, Today) /\ Before(High(f.end), Today)
        /\ \A m, n \in DOMAIN f.offices :
            m # n => /\ f.offices[m].name # f.offices[n].name
                     /\ f.offices[m].code = Null \/ f.offices[m].code # f.offices[n].code

Titled(f, who) == \A e \in Range(f.offices) : \A p \in Range(e.people) : p.who = who => p.title \in Title

(* Nothing is there twice at first, nobody is at an office that has ended, *)
(* and the positions without a title are of people with none in the files. *)
(* A seat is a position of somebody there is.                              *)
ASSUME DatabasesAssumption ==
    \A db \in Databases :
        /\ db.office \in Seq(Office) /\ db.pos \in Seq(Position)
        /\ Member \subseteq DOMAIN db.cell
        /\ DOMAIN db.cell \subseteq Person /\ \A w \in DOMAIN db.cell : db.cell[w] \subseteq Number
        /\ \A o, q \in DOMAIN db.office :
            o # q => db.office[o].name # db.office[q].name /\ db.office[o].slug # db.office[q].slug
        /\ \A i \in DOMAIN db.pos : LET p == db.pos[i] IN
            /\ p.org \in DOMAIN db.office /\ p.who \in DOMAIN db.cell
            /\ Active(p, Today) => Ongoing(db.office[p.org])
            /\ p.title = Null => \E f \in Files : ~Titled(f, p.who)
            /\ \A j \in DOMAIN db.pos :
                /\ i # j /\ p.who = db.pos[j].who /\ p.org = db.pos[j].org
                /\ p.title = db.pos[j].title /\ Active(p, Today) /\ Active(db.pos[j], Today)
                => p.title = Null

VARIABLES
    office, pos,    \* rows, by id: the offices and the positions there
    cell,           \* the numbers of each person there is
    file,           \* what the command that runs was called with, or Null
    mem,            \* its variables: organisation, people_to_keep,
                    \* organisations_to_keep and locationsnotfound
    agenda,
    tally,
    served,         \* history: the office of each entry of the file, so far
    last            \* history: the run that ended undisturbed, or Null

officesVars == <<office, pos, cell, file, mem, agenda, tally, served, last>>

People == DOMAIN cell
Nothing == [at |-> 0, keep |-> {}, kept |-> {}, missed |-> {}]
ActiveIn(o) == {i \in DOMAIN pos : pos[i].org = o /\ Active(pos[i], Today)}

-----------------------------------------------------------------------------
(* The items.  Each operation says what it changes of office, pos, cell    *)
(* and mem, and what the item becomes.                                     *)

Item == [op : {"open", "rename", "relate", "furnish", "locate"}, entry : Listing]
        \cup [op : {"person", "hire", "cell"}, person : Worker]
        \cup [op : {"entitle"}, id : Nat, title : Title]
        \cup [op : {"end"}, id : Nat, date : Approximate]
        \cup [op : {"endOffice"}, id : Nat]
        \cup [op : {"reopen", "leavers", "endOld"}]

Do(op) == [op |-> op]
Entry(op, e) == [op |-> op, entry |-> e]
Listed(op, p) == [op |-> op, person |-> p]
End(i, date) == [op |-> "end", id |-> i, date |-> date]
EndAll(ids, date) == [n \in 1..Cardinality(ids) |-> End(SetToSeq(ids)[n], date)]
Close(o) == [op |-> "endOffice", id |-> o]
CloseAll(ids) == [n \in 1..Cardinality(ids) |-> Close(SetToSeq(ids)[n])]
Optional(condition, item) == IF condition THEN <<item>> ELSE <<>>

Becomes(items) == agenda' = items \o Tail(agenda)
Done == Becomes(<<>>)

(* Mutant: the identifier counts, whatever the names say.                  *)
Found_Code(e) ==
    IF e.code = Null THEN {o \in DOMAIN office : office[o].name = e.name}
    ELSE {o \in DOMAIN office : office[o].code = e.code}

(* The office of an entry: the one of that name, of that identifier, or    *)
(* any that a search may bring up, whatever party it belongs to.           *)
Found(e) ==
    LET named == {o \in DOMAIN office : office[o].name = e.name}
        known == {o \in DOMAIN office : office[o].code = e.code /\ e.code # Null}
    IN  IF named # {} THEN named
        ELSE IF known # {} THEN known
        ELSE IF file.search THEN DOMAIN office
        ELSE {}

SlugTaken(name) == \E o \in DOMAIN office : office[o].slug = name

(* What is done for an office once it is there.                            *)
Visit(e) ==
    <<Entry("relate", e), Entry("furnish", e), Entry("locate", e)>>
    \o [n \in DOMAIN e.people |-> Listed("person", e.people[n])]
    \o <<Do("leavers")>>

Open(e) ==
    /\ \/ \E o \in Found(e) :
            /\ mem' = [mem EXCEPT !.at = o, !.keep = {}]
            /\ Becomes(Optional(office[o].name # e.name, Entry("rename", e))
                       \o Optional(office[o].ended # Future, Do("reopen"))
                       \o Visit(e))
            /\ UNCHANGED office
       \/ /\ Found(e) = {} /\ ~SlugTaken(e.name)
          /\ office' = Append(office, [name |-> e.name, slug |-> e.name, code |-> Null,
                          parties |-> {}, ended |-> Future, contact |-> {},
                          place |-> Null, spot |-> Null])
          /\ mem' = [mem EXCEPT !.at = Len(office'), !.keep = {}]
          /\ Becomes(Visit(e))
    /\ UNCHANGED <<pos, cell>>

(* Mutant: an office that was ended stays so.                              *)
Reopen_Not == Done /\ UNCHANGED <<office, pos, cell, mem>>

Reopen ==
    /\ office' = [office EXCEPT ![mem.at].ended = Future]
    /\ Done /\ UNCHANGED <<pos, cell, mem>>

Rename(e) ==
    /\ office' = [office EXCEPT ![mem.at].name = e.name]
    /\ Done /\ UNCHANGED <<pos, cell, mem>>

Relate(e) ==
    /\ e.party \in Party
    /\ office' = [office EXCEPT ![mem.at].parties = @ \cup {e.party}]
    /\ Done /\ UNCHANGED <<pos, cell, mem>>

(* One of the five fields; without it in the file, the contact is deleted. *)
Furnish(e) ==
    /\ Cardinality(office[mem.at].contact) <= 1
    /\ office' = [office EXCEPT ![mem.at].contact = IF e.contact = Null THEN {} ELSE {e.contact}]
    /\ Done /\ UNCHANGED <<pos, cell, mem>>

(* The place, which is named after the office, if the location is found.   *)
(* Its slug is that of the name it was made with.                          *)
NewPlace == office[mem.at].place = Null
SpotTaken(name) == \E o \in DOMAIN office : office[o].spot = name

Locate(e) ==
    /\ \/ /\ e.located /\ NewPlace /\ ~SpotTaken(e.name)
          /\ office' = [office EXCEPT ![mem.at].place = e.name, ![mem.at].spot = e.name]
          /\ UNCHANGED mem
       \/ e.located /\ ~NewPlace /\ office' = [office EXCEPT ![mem.at].place = e.name] /\ UNCHANGED mem
       \/ e.located /\ mem' = [mem EXCEPT !.missed = @ \cup {e.name}] /\ UNCHANGED office
       \/ ~e.located /\ UNCHANGED <<office, mem>>
    /\ Done /\ UNCHANGED <<pos, cell>>

-----------------------------------------------------------------------------
(* The people of an office.                                                *)

Here(p) == {i \in ActiveIn(mem.at) : /\ pos[i].who = p.who
                                     /\ p.title = Null \/ pos[i].title = p.title}

Accepted(p) == p.title = Contact => p.who \in Member

(* The rest of what is done for a person: the title of a new position,     *)
(* which is a second save, and the phone number.                           *)
Rest(p, new) ==
    Optional(new /\ p.title \in Title, [op |-> "entitle", id |-> Len(pos) + 1, title |-> p.title])
    \o Optional(p.cell # Null, Listed("cell", p))

Create(p) == pos' = Append(pos, [who |-> p.who, org |-> mem.at, title |-> Null,
                                 start |-> file.start, end |-> Future])

Known(p) ==
    /\ p.who \in People /\ p.title # OtherTitle
    /\ \/ /\ ~Accepted(p)
          /\ Done /\ UNCHANGED <<pos, mem>>
       \/ /\ Accepted(p) /\ Here(p) # {}
          /\ mem' = [mem EXCEPT !.keep = @ \cup Here(p)]
          /\ Becomes(Rest(p, FALSE)) /\ UNCHANGED pos
       \/ /\ Accepted(p) /\ Here(p) = {}
          /\ Create(p)
          /\ mem' = [mem EXCEPT !.keep = @ \cup {Len(pos')}]
          /\ Becomes(Rest(p, TRUE))
    /\ UNCHANGED <<office, cell>>

(* Someone new, unless a member was expected.  A title that the command    *)
(* does not know is left out here, and ends it where the person is known.  *)
Unknown(p) ==
    /\ p.who \notin People
    /\ \/ /\ p.title = Contact
          /\ Done /\ UNCHANGED cell
       \/ /\ p.title # Contact
          /\ cell' = [w \in People \cup {p.who} |-> IF w = p.who THEN {} ELSE cell[w]]
          /\ Becomes(<<Listed("hire", p)>>)
    /\ UNCHANGED <<office, pos, mem>>

(* The position of someone new is not put into people_to_keep.             *)
Hire(p) == Create(p) /\ Becomes(Rest(p, TRUE)) /\ UNCHANGED <<office, cell, mem>>

Entitle(i, title) ==
    pos' = [pos EXCEPT ![i].title = title] /\ Done /\ UNCHANGED <<office, cell, mem>>

(* A single number is replaced, one of several is added.                   *)
Phone(p) ==
    /\ cell' = [cell EXCEPT ![p.who] = IF Cardinality(@) = 1 THEN {p.cell} ELSE @ \cup {p.cell}]
    /\ Done /\ UNCHANGED <<office, pos, mem>>

(* The other positions of the office end on end_date, which is None.       *)
Leavers ==
    /\ Becomes(EndAll(ActiveIn(mem.at) \ mem.keep, NoDate))
    /\ mem' = [mem EXCEPT !.kept = @ \cup {mem.at}]
    /\ UNCHANGED <<office, pos, cell>>

EndPosition(i, date) ==
    pos' = [pos EXCEPT ![i].end = date] /\ Done /\ UNCHANGED <<office, cell, mem>>

-----------------------------------------------------------------------------
(* --end-old-offices.                                                      *)

OldOffices == {o \in DOMAIN office : /\ file.endOld \in office[o].parties
                                     /\ o \notin mem.kept
                                     /\ office[o].name \notin file.exclude}

EndOldOffices ==
    /\ Becomes(CloseAll(OldOffices))
    /\ UNCHANGED <<office, pos, cell, mem>>

(* Mutant: the positions at the office stay.                               *)
EndOffice_Only(o) ==
    /\ office' = IF Ongoing(office[o]) THEN [office EXCEPT ![o].ended = file.end] ELSE office
    /\ Done /\ UNCHANGED <<pos, cell, mem>>

EndOffice(o) ==
    /\ \/ /\ Ongoing(office[o])
          /\ office' = [office EXCEPT ![o].ended = file.end]
          /\ Becomes(EndAll(ActiveIn(o), file.end))
       \/ ~Ongoing(office[o]) /\ Done /\ UNCHANGED office
    /\ UNCHANGED <<pos, cell, mem>>

-----------------------------------------------------------------------------
Work(item) ==
    \/ item.op = "open" /\ Open(item.entry)
    \/ item.op = "rename" /\ Rename(item.entry)
    \/ item.op = "reopen" /\ Reopen
    \/ item.op = "relate" /\ Relate(item.entry)
    \/ item.op = "furnish" /\ Furnish(item.entry)
    \/ item.op = "locate" /\ Locate(item.entry)
    \/ item.op = "person" /\ Known(item.person)
    \/ item.op = "person" /\ Unknown(item.person)
    \/ item.op = "hire" /\ Hire(item.person)
    \/ item.op = "entitle" /\ Entitle(item.id, item.title)
    \/ item.op = "cell" /\ Phone(item.person)
    \/ item.op = "leavers" /\ Leavers
    \/ item.op = "end" /\ EndPosition(item.id, item.date)
    \/ item.op = "endOld" /\ EndOldOffices
    \/ item.op = "endOffice" /\ EndOffice(item.id)

Step ==
    /\ agenda # <<>>
    /\ Work(Head(agenda))
    /\ served' = IF Head(agenda).op = "leavers" THEN Append(served, mem.at) ELSE served
    /\ UNCHANGED <<file, tally, last>>

Start ==
    /\ file = Null
    /\ tally.runs < MaxRuns
    /\ tally' = [tally EXCEPT !.runs = @ + 1]
    /\ file' \in Files
    /\ agenda' = [n \in DOMAIN file'.offices |-> Entry("open", file'.offices[n])]
               \o Optional(file'.endOld # Null, Do("endOld"))
    /\ UNCHANGED <<office, pos, cell, mem, served, last>>

Finish ==
    /\ file # Null /\ agenda = <<>>
    /\ file' = Null /\ mem' = Nothing /\ served' = <<>>
    /\ last' = [file |-> file, missed |-> mem.missed, served |-> served,
                office |-> [o \in DOMAIN office |-> [office[o] EXCEPT !.place = Null, !.spot = Null]],
                pos |-> pos, cell |-> cell]
    /\ UNCHANGED <<office, pos, cell, agenda, tally>>

Stop == file' = Null /\ mem' = Nothing /\ agenda' = <<>> /\ served' = <<>> /\ last' = Null

(* What nobody catches: the slug of a renamed office is taken, or that of  *)
(* its place, there is no such party, the office has two contacts of a     *)
(* kind, or somebody known is to have a title that is not known.           *)
Fails(item) ==
    \/ item.op = "open" /\ Found(item.entry) = {} /\ SlugTaken(item.entry.name)
    \/ item.op = "relate" /\ item.entry.party \notin Party
    \/ item.op = "furnish" /\ Cardinality(office[mem.at].contact) > 1
    \/ item.op = "locate" /\ item.entry.located /\ NewPlace /\ SpotTaken(item.entry.name)
    \/ item.op = "person" /\ item.person.who \in People /\ item.person.title = OtherTitle

Abort ==
    /\ agenda # <<>>
    /\ Fails(Head(agenda))
    /\ Stop
    /\ UNCHANGED <<office, pos, cell, tally>>

Kill ==
    /\ file # Null
    /\ tally.kills < MaxKills
    /\ tally' = [tally EXCEPT !.kills = @ + 1]
    /\ Stop
    /\ UNCHANGED <<office, pos, cell>>

OfficesInit ==
    /\ \E db \in Databases : office = db.office /\ pos = db.pos /\ cell = db.cell
    /\ file = Null /\ mem = Nothing /\ agenda = <<>>
    /\ tally = [runs |-> 0, kills |-> 0]
    /\ served = <<>> /\ last = Null

OfficesNext == Start \/ Step \/ Finish \/ Abort \/ Kill

OfficesSpec == OfficesInit /\ [][OfficesNext]_officesVars

-----------------------------------------------------------------------------
(* Every row has the fields of its table and refers to rows there are, and *)
(* what is still to be done is about rows that are there by then.          *)
OfficesTypeOK ==
    /\ office \in Seq(Office) /\ pos \in Seq(Position)
    /\ \A i \in DOMAIN pos : pos[i].org \in DOMAIN office /\ pos[i].who \in People
    /\ People \subseteq Person /\ \A w \in People : cell[w] \subseteq Number
    /\ mem \in [at : Nat, keep : SUBSET DOMAIN pos, kept : SUBSET DOMAIN office, missed : SUBSET Name]
    /\ file \in Files \cup {Null} /\ agenda \in Seq(Item)
    /\ tally \in [runs : 0..MaxRuns, kills : 0..MaxKills]

(* No two offices have one name or one slug, although an office is found   *)
(* by its name, by its identifier or by a search, and renamed.             *)
OneOfficeEach ==
    \A o, q \in DOMAIN office :
        o # q => office[o].name # office[q].name /\ office[o].slug # office[q].slug

Ended == file = Null /\ last # Null

(* The entries of that run whose office no later entry of the file took:   *)
(* an entry that finds by its identifier the office that an earlier one    *)
(* has found by name gives that office another name.                       *)
Lasting == {m \in DOMAIN last.served : \A n \in DOMAIN last.served :
                                          n > m => last.served[n] # last.served[m]}

(* After a run that came to its end, the office of each of these entries   *)
(* has its name, is ongoing, has its party and its contact, and its place  *)
(* has its name unless the run reported the location; a kill in an earlier *)
(* run, or what a file said before, has left nothing behind.               *)
OfficesThere ==
    Ended =>
        /\ DOMAIN last.served = DOMAIN last.file.offices
        /\ \A m \in Lasting :
            LET e == last.file.offices[m]
                o == office[last.served[m]]
            IN  /\ o.name = e.name /\ Ongoing(o) /\ e.party \in o.parties
                /\ o.contact = {e.contact} \ {Null}
                /\ e.located /\ e.name \notin last.missed => o.place = e.name

(* And so are its people, also those nobody knew before, with the title    *)
(* they have there, but for contacts who never had a seat.                 *)
PeopleThere ==
    Ended =>
        \A m \in Lasting : \A p \in Range(last.file.offices[m].people) :
            Accepted(p) =>
                /\ p.who \in People
                /\ \E i \in ActiveIn(last.served[m]) :
                    /\ pos[i].who = p.who
                    /\ p.title \in Title => pos[i].title = p.title

(* And each of them can be reached under the last number that the file     *)
(* gives for them, at whichever office.                                    *)
Given(who) ==
    SelectSeq(FlattenSeq([n \in DOMAIN last.file.offices |-> last.file.offices[n].people]),
              LAMBDA p : p.who = who /\ p.cell # Null /\ Accepted(p))

NumbersThere ==
    Ended => \A w \in Person : Given(w) # <<>> => Last(Given(w)).cell \in cell[w]

(* Nobody holds one title at an office twice at a time, and a position     *)
(* without the title that was to be saved next is the rest of a kill.      *)
OnePositionEach ==
    /\ \A i, j \in DOMAIN pos :
        /\ i # j /\ pos[i].who = pos[j].who /\ pos[i].org = pos[j].org /\ pos[i].title = pos[j].title
        /\ Active(pos[i], Today) /\ Active(pos[j], Today)
        => pos[i].title = Null
    /\ file = Null =>
        Cardinality({i \in DOMAIN pos : /\ pos[i].title = Null
                                        /\ \A f \in Files : Titled(f, pos[i].who)}) <= tally.kills

(* Both: repeated, killed and renaming runs leave nothing twice.           *)
NothingTwice == OfficesTypeOK /\ OneOfficeEach /\ OnePositionEach

(* Once the old offices of a party have been ended, its offices that go on *)
(* are those of the file and of the names to exclude; and all but one for  *)
(* each kill that have ended have nobody there.                            *)
OldOfficesEnd ==
    /\ Ended /\ last.file.endOld # Null =>
        \A o \in DOMAIN office :
            last.file.endOld \in office[o].parties /\ Ongoing(office[o]) =>
                office[o].name \in last.file.exclude \cup {e.name : e \in Range(last.file.offices)}
    /\ file = Null => Cardinality({o \in DOMAIN office : ~Ongoing(office[o]) /\ ActiveIn(o) # {}}) <= tally.kills

(* A run over the file of the run before has nothing to change, if each    *)
(* entry had an office of its own.                                         *)
RunsSettle ==
    [][/\ last # Null /\ last' # Null /\ file # Null /\ file' = Null
       /\ file = last.file /\ Lasting = DOMAIN last.served
       => <<last.office, last.pos, last.cell>> = <<last'.office, last'.pos, last'.cell>>]_officesVars

(* All of them: a run that ends has brought about what its file says, and  *)
(* a second run has nothing to add.                                        *)
FileInPlace == [](OfficesThere /\ PeopleThere /\ NumbersThere) /\ RunsSettle

(* "find the positions to end": after a run, nobody is at an office who is *)
(* not in the file for it.                                                 *)
LeaversEnd ==
    Ended =>
        \A m \in Lasting : \A i \in ActiveIn(last.served[m]) :
            pos[i].who \in {p.who : p \in Range(last.file.offices[m].people)}
=============================================================================
