------------------------ MODULE MCConstituencyOffices ------------------------
EXTENDS ConstituencyOffices

CONSTANTS amina, bela, cyril, north, south, west, da, eff, contact, admin, code, t1, t2

MCLastDay(y, m) == 4
MCToday == Date(2, 1, 3)

Works(who, title, number) == [who |-> who, title |-> title, cell |-> number]
Entered(name, id, party, number, located, people) ==
    [name |-> name, code |-> id, party |-> party, contact |-> number, located |-> located,
     people |-> people]
File(offices, endOld, exclude, search) ==
    [offices |-> offices, endOld |-> endOld, exclude |-> exclude, search |-> search,
     start |-> Date(2, 1, 2), end |-> Date(2, 1, 1)]

MCFiles ==
  { File(<<Entered(north, code, da, t1, TRUE, <<Works(amina, contact, t1)>>)>>,
         da, {south}, FALSE),
    File(<<Entered(south, code, da, Null, TRUE, <<Works(bela, admin, t2)>>),
           Entered(west, Null, eff, t2, FALSE, <<Works(bela, contact, Null), Works(cyril, Null, Null)>>)>>,
         Null, {}, FALSE),
    File(<<Entered(west, Null, eff, t2, FALSE, <<>>), Entered(north, Null, da, t1, FALSE, <<Works(amina, contact, t2)>>)>>,
         eff, {}, FALSE),
    File(<<Entered(west, Null, NoParty, Null, FALSE, <<>>)>>, Null, {}, TRUE),
    File(<<Entered(north, Null, da, t2, FALSE, <<Works(cyril, admin, t1)>>),
           Entered(south, code, da, t1, TRUE, <<Works(cyril, Null, t2)>>)>>,
         Null, {}, FALSE),
    File(<<Entered(south, Null, eff, t1, TRUE, <<Works(bela, OtherTitle, t1)>>)>>,
         Null, {}, TRUE) }

Place(name, id, parties, ended, numbers) ==
    [name |-> name, slug |-> name, code |-> id, parties |-> parties, ended |-> ended,
     contact |-> numbers, place |-> name, spot |-> name]
Held(who, org, title, end) == [who |-> who, org |-> org, title |-> title, start |-> Past, end |-> end]

MCDatabases ==
  { [office |-> <<>>, pos |-> <<>>, cell |-> amina :> {}],
    [office |-> <<Place(north, code, {da}, Future, {t1}), Place(west, Null, {da, eff}, Date(2, 1, 2), {})>>,
     pos |-> <<Held(amina, 1, contact, NoDate), Held(bela, 1, admin, Future), Held(cyril, 2, admin, Date(2, 1, 1))>>,
     cell |-> (amina :> {t1}) @@ (bela :> {t1, t2}) @@ (cyril :> {})],
    [office |-> <<Place(south, Null, {da}, NoDate, {}), Place(west, Null, {eff}, Future, {t1, t2}), Place(north, code, {da}, Future, {t1})>>,
     pos |-> <<Held(amina, 2, admin, Future)>>,
     cell |-> (amina :> {}) @@ (bela :> {t1})] }
=============================================================================
