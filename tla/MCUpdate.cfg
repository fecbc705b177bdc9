SPECIFICATION Spec
CONSTANTS
    c1 = c1
    Cmds = {c1}
    None = None
    MaxRelease = 3
    Format <- Formats
    Keys = {"k"}
    Values = {0, 1}
    OldScripts = FALSE
    MaxFaults = 2
    MaxOutages = 1
INVARIANTS
    TypeOK
    TagIsHonest
    ConfigReadable
PROPERTIES
    UpdateInstalls
    ForceRepairs
    AppliedConfigRuns
