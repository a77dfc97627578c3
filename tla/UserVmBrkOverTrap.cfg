CONSTANTS
    Spaces = {p1, p2, p3}
    InitSpace = p1
    NFrames = 5
    PageSize = 2
    FileByte = 1
    StoreVal = 2
    NoPte = NoPte
    ElfSegs <- MCElfSegs
    StackRange <- MCStackRange
    TrapRange <- MCTrapRange
    BrkArgs <- MCBrkArgsOverTrap
    UserVAs <- MCUserVAs


SPECIFICATION Spec
CHECK_DEADLOCK FALSE

INVARIANT
    PageTableMatchesAreas
