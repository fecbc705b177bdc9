SPECIFICATION FairSpec
CONSTANTS
    WorkerIDs = {1}
    TemplateIDs = {9}
    ForeignIDs = {}
    ScaleSets = {"a"}
    Configs <- OneOrAll
    MinRunners <- Min0
    MaxRunners <- Max1
    Parallelism = 2
    MaxAssigned = 1
    MaxCreated = 2
    MaxFaults = 1
    MaxVersion = 1
    MayExpire = {}
PROPERTIES
    FinishedWorkersGo
    HalfBuiltGo
    DemandMet
CHECK_DEADLOCK FALSE
