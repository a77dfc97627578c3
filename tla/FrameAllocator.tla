--------------------------- MODULE FrameAllocator ---------------------------
(***************************************************************************)
(* The physical frame allocator of src/os/src/mm/allocator/                *)
(* frame_allocator.rs and the frame tracker of src/hal/src/component/      *)
(* common.rs.                                                              *)
(*                                                                         *)
(* BitMapFrameAllocator keeps a bitmap over frame indices 0 .. N-1 and the *)
(* PPN range it stands for; index i is PPN range.start + i.  Callers get   *)
(* frames either as a FrameTracker (frames_alloc) or as raw memory through *)
(* the core::alloc::Allocator front end (allocate / deallocate).  A        *)
(* FrameTracker returns its run on drop, or gives it away with leak().     *)
(***************************************************************************)
EXTENDS Naturals, FiniteSets

CONSTANTS
    BasePPN,       \* range.start = ceil(ekernel): PPN of bitmap index 0
    NFrames,       \* number of bits inserted by init()
    PageSize,      \* Constant::PAGE_SIZE
    MaxCnt,        \* largest frames_alloc request
    LayoutSizes,   \* Layout::size() values passed to Allocator::allocate
    LayoutAligns   \* Layout::align() values passed to Allocator::allocate

ASSUME BasePPN \in Nat /\ NFrames \in Nat \ {0} /\ MaxCnt \in Nat \ {0}

VARIABLES
    freeIdx,       \* bitmap: indices whose bit is set (free)
    held,          \* runs [start, end) of PPNs owned by live trackers / boxes,
                   \* with the alignment exponent they were requested with
    leaked         \* runs given away by FrameTracker::leak (history)

vars == <<freeIdx, held, leaked>>

Idx == 0 .. (NFrames - 1)
Run(s, n) == s .. (s + n - 1)

(* bitmap_allocator::BitAlloc::alloc_contiguous(None, cnt, align_log2):    *)
(* the lowest free run of cnt bits whose first index is a multiple of      *)
(* 2^align_log2.  The crate is not part of the repository; this is the     *)
(* behaviour spec section 4.1 describes.                                   *)
AllocContiguous(cnt, al) ==
    LET fits == {i \in Idx : i % (2 ^ al) = 0 /\ Run(i, cnt) \subseteq freeIdx}
    IN  IF fits = {} THEN {} ELSE {CHOOSE i \in fits : \A j \in fits : i <= j}

(* Mutant: the bitmap clears one bit fewer than it hands out. *)
AllocWithAlignShort(cnt, al) ==
    \/ /\ cnt # 0
       /\ \E i \in AllocContiguous(cnt, al) :
             /\ freeIdx' = freeIdx \ Run(i, cnt - 1)
             /\ held' = held \cup {[start |-> i + BasePPN, end |-> i + BasePPN + cnt,
                                     align |-> al]}
       /\ UNCHANGED leaked
    \/ /\ cnt = 0 \/ AllocContiguous(cnt, al) = {}
       /\ UNCHANGED vars

(* FrameAllocatorHal::alloc_with_align: None for cnt = 0 or when the      *)
(* bitmap has no fitting run; otherwise clear the bits and hand out        *)
(* PPNs start + range.start .. start + range.start + cnt.                  *)
AllocWithAlign(cnt, al) ==
    \/ /\ cnt # 0
       /\ \E i \in AllocContiguous(cnt, al) :
             /\ freeIdx' = freeIdx \ Run(i, cnt)
             /\ held' = held \cup {[start |-> i + BasePPN, end |-> i + BasePPN + cnt,
                                     align |-> al]}
       /\ UNCHANGED leaked
    \/ /\ cnt = 0 \/ AllocContiguous(cnt, al) = {}
       /\ UNCHANGED vars

(* Mutant: dealloc sets the bits at the PPNs, not at PPN - range.start. *)
DeallocIdxNoRebase(r) ==
    IF r.end - r.start = 0 THEN freeIdx
    ELSE freeIdx \cup Run(r.start, r.end - r.start)

(* FrameAllocatorHal::dealloc: no-op on an empty range, otherwise set the  *)
(* bits of range_ppn.start - range.start .. + count.                       *)
DeallocIdx(r) ==
    IF r.end - r.start = 0 THEN freeIdx
    ELSE freeIdx \cup Run(r.start - BasePPN, r.end - r.start)

(* mm/mod.rs log2 (not in the repository's sources): floor of log2.       *)
RECURSIVE Log2(_)
Log2(n) == IF n <= 1 THEN 0 ELSE 1 + Log2(n \div 2)

(* Page count of a Layout: (size - 1 + PAGE_SIZE) / PAGE_SIZE.  usize      *)
(* wrap-around of size - 1 for size = 0 gives the same quotient, 0.        *)
PagesFor(bytes) == (bytes - 1 + PageSize) \div PageSize

(* frames_alloc(n): a FrameTracker over a fresh run, alignment 0.          *)
FramesAlloc(n) == AllocWithAlign(n, 0)

(* Allocator::allocate(layout): pages and alignment from the layout; an    *)
(* AllocError (the stutter) when alloc_with_align refuses.                 *)
Allocate(size, align) ==
    AllocWithAlign(PagesFor(size), Log2(PagesFor(align)))

(* Drop of a FrameTracker, or Allocator::deallocate of the same run.       *)
Dealloc(r) ==
    /\ r \in held
    /\ held' = held \ {r}
    /\ freeIdx' = DeallocIdx(r)
    /\ UNCHANGED leaked

(* FrameTracker::leak: the range is returned to the caller and the         *)
(* tracker forgotten, so drop never deallocates it.                        *)
Leak(r) ==
    /\ r \in held
    /\ held' = held \ {r}
    /\ leaked' = leaked \cup {r}
    /\ UNCHANGED freeIdx

(* init_frame_allocator: every index of the range is free.                 *)
Init ==
    /\ freeIdx = Idx
    /\ held = {}
    /\ leaked = {}

Next ==
    \/ \E n \in 1 .. MaxCnt : FramesAlloc(n)
    \/ \E s \in LayoutSizes, a \in LayoutAligns : Allocate(s, a)
    \/ \E r \in held : Dealloc(r)
    \/ \E r \in held : Leak(r)

Spec == Init /\ [][Next]_vars

-----------------------------------------------------------------------------
TypeOK ==
    /\ freeIdx \subseteq Idx
    /\ held \subseteq [start : Nat, end : Nat, align : Nat]
    /\ leaked \subseteq [start : Nat, end : Nat, align : Nat]

(* The allocator implements what spec 4.1 promises: every run handed out   *)
(* is free, contiguous and starts at a PPN aligned to the requested        *)
(* 2^align_log2, and a dropped run (dealloc after the index translation)   *)
(* is exactly what becomes free again.                                     *)
Pool == INSTANCE FramePool WITH
            PPNs <- {i + BasePPN : i \in Idx},
            MaxCnt <- NFrames,
            MaxAlignLog2 <- Log2(NFrames),
            freePPN <- {i + BasePPN : i \in freeIdx}

ImplementsFramePool == Pool!Spec
=============================================================================
