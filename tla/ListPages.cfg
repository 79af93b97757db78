SPECIFICATION Spec
CONSTANTS
    List <- MCList
    PageSize = 2
    MaxPublished = 5
    MaxBetween = 1
    MaxAborts = 1
INVARIANTS
    NoHole
PROPERTIES
    CheckAllComplete
