\* Bitmap index 0 sits at PPN 4, a multiple of every alignment requested.
CONSTANTS
    BasePPN = 4
    NFrames = 6
    PageSize = 4096
    MaxCnt = 3
    LayoutSizes <- MCLayoutSizes
    LayoutAligns <- MCLayoutAligns
SPECIFICATION Spec
INVARIANT TypeOK
PROPERTY ImplementsFramePool
