SPECIFICATION StoreSpec
CONSTANTS
    ClusterMapSize = 6
    DirSize = 3
    ClusterSize = 2
    Names = {root}
    Exts = {none, dir, x}
    NoName = zero
    NoExt = none
    DirExt = dir
    RootName = root
    Values = {v1, v2}
    Sizes = {0, 3}
    SIGNATURE = SIGNATURE
VIEW TablesView
SYMMETRY Symmetry
INVARIANTS
    TypeOK
    
    
    NamesUnique
PROPERTIES
    OtherFilesUntouched
    
