SPECIFICATION Spec
CONSTANTS
    WorkerIDs = {1}
    TemplateIDs = {9}
    ForeignIDs = {}
    ScaleSets = {"a"}
    Configs <- OneOrAll
    MinRunners <- Min0
    MaxRunners <- Max1
    Parallelism = 2
    MaxAssigned = 2
    MaxCreated = 2
    MaxFaults = 1
    MaxVersion = 1
    MayExpire = {1}
PROPERTY
    ShutdownKeepsJobs
ACTION_CONSTRAINT OnlyWhileWaiting
CHECK_DEADLOCK FALSE
