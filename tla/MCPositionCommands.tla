-------------------------- MODULE MCPositionCommands --------------------------
EXTENDS PositionCommands

CONSTANTS amina, bela, odm, narc, cord, k1, k2, k3

MCLastDay(y, m) == 3
MCCoalitionOf == (odm :> cord) @@ (narc :> None)
MCToday == Date(2, 1, 2)
MCSwitchDay == Date(2, 1, 2)

Candidate(who, party) == [who |-> who, party |-> party]
MCFeeds == {k2 :> Candidate(amina, narc),
            (k2 :> Candidate(amina, Independent)) @@ (k3 :> Candidate(bela, odm)),
            (k1 :> Candidate(amina, odm)) @@ (k2 :> Candidate(amina, narc))}

Member(who, party, start, end) == Position(who, party, "member", None, start, end)
Aspirant(who, code, start) == Position(who, "kenya", "aspirant", code, start, Future)

MCTables ==
  { <<Member(amina, odm, Past, NoDate), Aspirant(amina, k1, NoDate), Member(bela, odm, MCToday, NoDate)>>,
    <<Aspirant(bela, k3, NoDate), Aspirant(bela, k3, MCToday), Aspirant(bela, k3, MCToday)>>,
    <<Aspirant(amina, None, NoDate), Aspirant(amina, None, MCToday), Aspirant(amina, None, MCToday)>>,
    <<Member(amina, narc, Past, Date(2, 0, 0)), Member(amina, odm, Past, Past),
      Position(amina, cord, "coalition", None, Past, Date(2, 1, 0))>>,
    <<Position(bela, odm, "mp", None, Date(2, 1, 1), Date(2, 1, 3)), Member(bela, odm, Past, Past),
      Position(amina, "other", "mp", None, Past, Future)>> }
=============================================================================
