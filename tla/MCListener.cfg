SPECIFICATION Spec
CONSTANTS
    ScaleSets = {"a"}
    MinRunners = 0
    MaxRunners = 1
    Labels = {1, 2}
    MaxAssigned = 1
    MaxMessages = 2
    MaxFaults = 2
    MaxOutages = 1
INVARIANTS
    NoLostWakeup
    RegisteredOnce
    StopClosesSessions
PROPERTIES
    StopsInTheEnd
    DemandReaches
    StatusFollows
