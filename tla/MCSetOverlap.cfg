SPECIFICATION Spec
CONSTANTS
    c1 = c1 c2 = c2
    Cmds = {c1, c2}
    None = None
    MaxRelease = 1
    Format <- Formats
    Keys = {"k", "l"}
    Values = {0, 1}
    OldScripts = FALSE
    MaxFaults = 0
    MaxOutages = 0
PROPERTIES
    SetKeepsOtherKeys
