SPECIFICATION WizardSpec
CONSTANTS
    assembly = assembly
    committees = committees
    left = left
    right = right
    Tab = {left, right}
    None = None
    Kind = {assembly, committees}
    Single = {committees}
    Id = {1, 2}
    Existing <- MCExisting
    Recipients <- MCRecipients
    Choosable <- MCChoosable
    MaxRequests = 6
    MaxDrafts = 2
    MaxOverlaps = 1
    MaxDrops = 1
    MaxLeaving = 1
SYMMETRY Tabs
CHECK_DEADLOCK FALSE
INVARIANTS
    NoneTwice
    NoStranger
