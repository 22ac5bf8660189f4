SPECIFICATION Spec
CONSTANTS
    ClusterMapSize = 6
    DirSize = 3
    ClusterSize = 2
    Names = {n1}
    Exts = {none, dir}
    NoName = zero
    NoExt = none
    DirExt = dir
    RootName = root
    Values = {v1}
    Sizes = {0, 3}
    SIGNATURE = SIGNATURE
VIEW TablesView
INVARIANTS
    ReservedValues
