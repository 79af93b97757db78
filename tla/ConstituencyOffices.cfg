SPECIFICATION OfficesSpec
CONSTANTS
    amina = amina
    bela = bela
    cyril = cyril
    north = north
    south = south
    west = west
    da = da
    eff = eff
    contact = contact
    admin = admin
    code = code
    t1 = t1
    t2 = t2
    Null = Null
    Name = {north, south, west}
    Code = {code}
    Party = {da, eff}
    NoParty = NoParty
    Person = {amina, bela, cyril}
    Title = {contact, admin}
    OtherTitle = OtherTitle
    Contact = contact
    Member = {amina}
    Number = {t1, t2}
    Year = {2}
    LastMonth = 1
    LastDay <- MCLastDay
    Files <- MCFiles
    Databases <- MCDatabases
    Today <- MCToday
    MaxRuns = 4
    MaxKills = 2
CHECK_DEADLOCK FALSE
INVARIANTS
    NothingTwice
    OldOfficesEnd
PROPERTIES
    FileInPlace
