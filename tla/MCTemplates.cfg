SPECIFICATION Spec
CONSTANTS
    WorkerIDs = {1, 2}
    TemplateIDs = {8, 9}
    ForeignIDs = {1}
    ScaleSets = {"a"}
    Configs <- OneOrAll
    MinRunners <- Min0
    MaxRunners <- Max1
    Parallelism = 1
    MaxAssigned = 1
    MaxCreated = 2
    MaxFaults = 1
    MaxVersion = 3
    MayExpire = {}
INVARIANT
    TemplatesKept

    
CHECK_DEADLOCK FALSE
