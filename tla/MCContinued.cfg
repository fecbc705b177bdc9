SPECIFICATION Spec
CONSTANTS
    c1 = c1
    Cmds = {c1}
    None = None
    MaxRelease = 2
    Format <- Formats
    Keys = {}
    Values = {0, 1}
    OldScripts = FALSE
    MaxFaults = 1
    MaxOutages = 0
PROPERTIES
    ContinuedUpdateRuns
