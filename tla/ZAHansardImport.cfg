SPECIFICATION FairSpec
CONSTANTS
    d1 = d1
    d2 = d2
    d3 = d3
    None = None
    Doc = {d1, d2, d3}
    Garbled = {d3}
    MaxErrors = 1
    MaxFailures = 1
    MaxCommands = 2
INVARIANTS XmlBehindSuccess ImportedOnce FewUntagged
PROPERTY EventuallyImported
