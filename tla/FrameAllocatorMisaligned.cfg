\* ceil(ekernel) is an arbitrary page: here PPN 5, not a multiple of two.
\* alloc_with_align aligns the bitmap index, so an aligned request can get
\* an odd PPN.
CONSTANTS
    BasePPN = 5
    NFrames = 6
    PageSize = 4096
    MaxCnt = 3
    LayoutSizes <- MCLayoutSizes
    LayoutAligns <- MCLayoutAligns
SPECIFICATION Spec
PROPERTY ImplementsFramePool
