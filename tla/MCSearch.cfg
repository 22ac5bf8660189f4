SPECIFICATION Spec
CONSTANTS
    FolderCount = 4
    ListedFolders = 3
    DirSize = 4
    LeafSlots = 2
    Limit = 2
    Short = short
    Long = long
    Other = other
INVARIANTS
    TypeOK
    ListingIsTree
    SearchExact
    
    ListsAll
