SPECIFICATION Spec
CONSTANTS
    old = old
    twin = twin
    new = new
    c1 = c1
    c2 = c2
    Report = {old, twin, new}
    Event = {old, new}
    Old = {old, twin}
    Committee = {c1, c2}
    CommitteeOf <- MCCommitteeOf
    SectionOf <- MCSectionOf
    Before <- MCBefore
    MaxNames = 2
    MaxEdits = 2
    MaxErrors = 1
    MaxFailures = 1
    MaxByHand = 1
INVARIANTS
    OldReportsKept
    PagesRight
PROPERTIES
    EventuallyShown
