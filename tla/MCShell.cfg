SPECIFICATION ShellSpec
CONSTANTS
    ClusterMapSize = 7
    DirSize = 3
    ClusterSize = 1
    TypedNames <- OneName
    Names <- WithGarbled
    NoName <- EmptyName
    RootName <- Root
    Exts = {"", "dir", "txt"}
    NoExt = ""
    DirExt = "dir"
    FileExts = {"txt", "dir"}
    BannerName <- Kaguya
    BannerExt = "txt"
    JUNK = "junk"
    NUL = "nul"
    Values = {"v"}
    Sizes = {0, 1}
    SIGNATURE = SIGNATURE
    ByteSize = 5
    MaxPath = 2
VIEW ShellView

    
PROPERTIES
    CpReturns
    EchoKeepsFile
