SPECIFICATION CrashSpec
CONSTANTS
    ClusterMapSize = 6
    FatBlock = 4
    DirSize = 3
    ClusterSize = 2
    Names = {n1}
    Exts = {none, dir}
    NoName = zero
    NoExt = none
    DirExt = dir
    RootName = root
    Values = {v1}
    Sizes = {0, 3}
    SIGNATURE = SIGNATURE
VIEW CrashView
INVARIANTS
    CrashConsistent
    
    
PROPERTIES
    CommittedUntouched
    HalfFormattedForGood
