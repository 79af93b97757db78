SPECIFICATION Spec
CONSTANTS
    ann = ann
    bob = bob
    cleo = cleo
    s1 = s1
    s2 = s2
    Person = {ann, bob, cleo}
    Known = {ann, bob}
    Speech = {s1, s2}
    Author <- MCAuthor
    None = None
    MaxFailures = 1
INVARIANTS
    SpeechesTogether
    SlugsFollow
PROPERTIES
    EventuallyKnown
