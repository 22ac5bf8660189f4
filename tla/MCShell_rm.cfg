SPECIFICATION ShellSpec
CONSTANTS
    ClusterMapSize = 6
    DirSize = 3
    ClusterSize = 1
    TypedNames <- OneName
    Names <- WithGarbled
    NoName <- EmptyName
    RootName <- Root
    Exts = {"", "dir", "txt", "bin"}
    NoExt = ""
    DirExt = "dir"
    FileExts = {"txt", "bin"}
    BannerName <- Kaguya
    BannerExt = "txt"
    JUNK = "junk"
    NUL = "nul"
    Values = {"v"}
    Sizes = {0, 1}
    SIGNATURE = SIGNATURE
    ByteSize = 5
    MaxPath = 1
VIEW ShellView
PROPERTY RmRemovesNamed
