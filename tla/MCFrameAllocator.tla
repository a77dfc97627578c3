-------------------------- MODULE MCFrameAllocator --------------------------
(* Model-checking instance of FrameAllocator: six frames, requests of up  *)
(* to three frames, layouts of 0 .. 2 pages aligned to 1, 2 or 4 pages.   *)
EXTENDS FrameAllocator

MCLayoutSizes == {0, 1, PageSize, PageSize + 1}
MCLayoutAligns == {1, PageSize, 2 * PageSize, 4 * PageSize}
=============================================================================
