SPECIFICATION FairSpec
CONSTANTS
    e1 = e1
    e2 = e2
    e3 = e3
    e4 = e4
    jones = jones
    seat = seat
    alice = alice
    bob = bob
    day1 = day1
    day2 = day2
    None = None
    Entry <- MCEntry
    Name <- MCName
    Person = {alice, bob}
    Key <- MCKey
    Order <- MCOrder
    NameOf <- MCNameOf
    Found <- MCFound
    House <- MCHouse
    JointSitting = {}
    Substring = TRUE
    PlaceParty = {seat}
    ByPlace <- MCByPlace
    Ignorable = {seat}
    MaxStaff = 2
    MaxFailures = 1
PROPERTIES
    AliasRespected
    MatchesDateAndName
    OnlyUnassignedFilled
    EventuallyListed
CHECK_DEADLOCK FALSE
