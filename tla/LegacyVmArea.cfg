CONSTANTS
    u = u
    ks = ks
    kt = kt
    Areas = {u, ks, kt}
    Kind <- MCKind
    Region <- MCRegion
    InitRange <- MCInitRange
    InitPerm <- MCInitPerm
    PermChoices <- MCPermChoices
    KernelVpnBit = 8
    PPNs <- MCPPNs
    NoPte = NoPte

SPECIFICATION Spec
\* a frame_alloc unwrap panic halts the kernel
CHECK_DEADLOCK FALSE

INVARIANTS
    TypeOK
    PagesMapped
    FrameConservation
