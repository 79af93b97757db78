SPECIFICATION Spec
CONSTANTS
    amina = amina
    bela = bela
    odm = odm
    narc = narc
    cord = cord
    k1 = k1
    k2 = k2
    k3 = k3
    None = None
    Person = {amina, bela}
    Party = {odm, narc}
    Code = {k1, k2, k3}
    Year = {2}
    LastMonth = 1
    LastDay <- MCLastDay
    CoalitionOf <- MCCoalitionOf
    Merged = {odm}
    Union = narc
    SwitchDay <- MCSwitchDay
    FirstDay <- MCToday
    Namesake = {k3}
    Feeds <- MCFeeds
    Tables <- MCTables
    MaxRuns = 3
    MaxEvents = 1
CHECK_DEADLOCK FALSE
INVARIANTS
    RowsMeanDays
    CoalitionsFollow
    NobodyLost
PROPERTY
    RaceInOrder
