SPECIFICATION Spec
CONSTANTS
    WorkerIDs = {1}
    TemplateIDs = {9}
    ForeignIDs = {}
    ScaleSets = {"a", "b"}
    Configs <- OneOrAll
    MinRunners <- Min0
    MaxRunners <- Max1
    Parallelism = 1
    MaxAssigned = 1
    MaxCreated = 2
    MaxFaults = 1
    MaxVersion = 1
    MayExpire = {}
INVARIANTS
    OperationsOwnTheirVM
    IndInv
PROPERTY
    LiveRunnersNotCut
CHECK_DEADLOCK FALSE
