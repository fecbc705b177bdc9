SPECIFICATION Spec
CONSTANT
    MaxFaults = 3

    
PROPERTIES
    TagMeansComplete
    
    UninstallContinues
