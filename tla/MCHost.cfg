SPECIFICATION HostSpec
CONSTANTS
    Flags <- MCFlags
    Written <- MCWritten
    Hosts <- MCHosts
    LowerCase <- MCLowerCase
    MaxInt = 1048575
    MaxSize = 32767
    Versions <- MCVersions
    MaxReleases = 3
    MaxFaults = 3
INVARIANTS
    SavedIsAccepted
    ShownIsRun
    StoredAsMeant
    AllowedIsAccepted
    FindsTheNewest
    AsyncPFTuned
    AsyncPFRestored
    
    

    
CHECK_DEADLOCK FALSE
