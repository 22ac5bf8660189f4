SPECIFICATION Spec
CONSTANTS
    PROCESS_COUNT_MAX = 4
    PAGING_DIRECTORY_TABLE_MAX_COUNT = 5
    PROCESS_PAGE_FRAME_COUNT_MAX = 3
    PAGE_FRAME_MAX_COUNT = 5
    PAGE_FRAME_SIZE = 2
    WordSize = 16
    ShellSize = 1
    BufferSizes = {1, 4, 5, 15}
INVARIANTS
    TypeOK
    ListNeverOverrun
    DirsOwned
    NoStaleMappings
    RunningMapped
    
