SPECIFICATION Spec
CONSTANTS
    WorkerIDs = {1}
    TemplateIDs = {9}
    ForeignIDs = {}
    ScaleSets = {"a"}
    Configs <- OneOrAll
    MinRunners <- Min0
    MaxRunners <- Max1
    Parallelism = 2
    MaxAssigned = 2
    MaxCreated = 2
    MaxFaults = 2
    MaxVersion = 1
    MayExpire = {1}
INVARIANTS
    TypeOK
    RunnersTraceable
    NoOrphanRunners
    AdoptedUndisturbed
PROPERTIES
    LiveRunnersNotCut
    SingleUse
CHECK_DEADLOCK FALSE
