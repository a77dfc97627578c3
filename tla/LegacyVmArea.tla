---------------------------- MODULE LegacyVmArea ----------------------------
(***************************************************************************)
(* The RISC-V virtual-memory areas of src/os/src/mm/vm_area.rs: the VmArea *)
(* trait (map, unmap, shrink_to, append_to, set_perm, set_perm_flush) and  *)
(* VmAreaFrameExt (frames owned per page, set_perm_and_flush_allocated_    *)
(* frames), implemented by UserVmArea and KernelVmArea over one page      *)
(* table.                                                                  *)
(*                                                                         *)
(* A UserVmArea and a KernelStack area own one FrameTracker per mapped     *)
(* page (frame_alloc().unwrap()); the other kernel areas map their pages   *)
(* linearly onto physical memory at vpn & !(KERNEL_ADDR_OFFSET >> 12).     *)
(* Ranges are page aligned (new() rounds them out, shrink_to/append_to set *)
(* them from page numbers), so an area's range is kept as [start, end) in  *)
(* page numbers.  PageTable and frame_alloc are not in the repository:     *)
(* map writes the leaf, unmap clears it, frame_alloc takes the lowest free *)
(* frame, and dropping a FrameTracker frees its frame.                     *)
(***************************************************************************)
EXTENDS Naturals, FiniteSets, SequencesExt

CONSTANTS
    Areas,         \* the areas of the page table
    Kind,          \* Kind[a]: "User", "KernelStack" or "Linear" (Text .. PhysMem)
    Region,        \* Region[a]: <<lo, hi>>, the pages the area's callers keep it in
    InitRange,     \* InitRange[a]: <<start, end>> given to new()
    InitPerm,      \* InitPerm[a]: the MapPerm given to new()
    PermChoices,   \* MapPerm values passed to set_perm*
    KernelVpnBit,  \* KERNEL_ADDR_OFFSET >> 12, as the one bit it sets here
    PPNs,          \* frames of the frame allocator
    NoPte          \* an invalid leaf

VPNs == UNION {Region[a][1] .. (Region[a][2] - 1) : a \in Areas}
Framed(a) == Kind[a] \in {"User", "KernelStack"}

(* map_range_highly: the physical page of a kernel page number. *)
LinearPPN(v) == v - KernelVpnBit
LinearPPNs == {LinearPPN(v) : v \in {w \in VPNs : w >= KernelVpnBit}}

VARIABLES
    range,         \* range[a]: [start, end) in page numbers (range_va)
    perm,          \* perm[a]: map_perm
    pages,         \* pages[a]: vpn -> PPN of the FrameTracker held for it
    pt,            \* pt[vpn]: [ppn, flags] or NoPte
    free,          \* frames the allocator can hand out
    panicked       \* "none" or the reason of a kernel panic

vars == <<range, perm, pages, pt, free, panicked>>

Leaf(ppn, flags) == [ppn |-> ppn, flags |-> flags]
Interval(lo, hi) == lo .. (hi - 1)

(* Mutant: map_range_highly without the mask, the page number as PPN. *)
MapRangeToUnmasked(a, lo, hi) ==
    [v \in VPNs |-> IF v \in Interval(lo, hi)
                    THEN Leaf(range[a].start + (v - lo), perm[a])
                    ELSE pt[v]]

(* map_range_to (KernelVmArea): the i-th page of the range gets the        *)
(* physical page of the area's first page plus i.                          *)
MapRangeTo(a, lo, hi) ==
    [v \in VPNs |-> IF v \in Interval(lo, hi)
                    THEN Leaf(LinearPPN(range[a].start) + (v - lo), perm[a])
                    ELSE pt[v]]

(* map_range_and_alloc_frames: per page, frame_alloc().unwrap(), map it,   *)
(* insert the tracker (an older tracker at the same page is dropped).      *)
(* Returns ok = FALSE where the unwrap panics.                             *)
MapRangeAndAllocFrames(a, lo, hi) ==
    LET n == Cardinality(Interval(lo, hi))
    IN  IF Cardinality(free) < n THEN [ok |-> FALSE]
        ELSE LET got == SubSeq(SetToSortSeq(free, <), 1, n)
                 fr  == [v \in Interval(lo, hi) |-> got[v - lo + 1]]
                 old == {pages[a][v] : v \in DOMAIN pages[a] \cap Interval(lo, hi)}
             IN  [ok |-> TRUE,
                  pages |-> [v \in DOMAIN pages[a] \cup Interval(lo, hi) |->
                               IF v \in Interval(lo, hi) THEN fr[v] ELSE pages[a][v]],
                  pt |-> [v \in VPNs |-> IF v \in Interval(lo, hi)
                                         THEN Leaf(fr[v], perm[a]) ELSE pt[v]],
                  free |-> (free \ ToSet(got)) \cup old]

(* VmArea::map_range as each area implements it. *)
MapRange(a, lo, hi) ==
    IF Framed(a) THEN MapRangeAndAllocFrames(a, lo, hi)
    ELSE [ok |-> TRUE, pages |-> pages[a], pt |-> MapRangeTo(a, lo, hi), free |-> free]

(* Mutant: removing a page's tracker does not free its frame. *)
UnmapRangeLeak(a, lo, hi) ==
    [pages |-> [v \in DOMAIN pages[a] \ Interval(lo, hi) |-> pages[a][v]],
     pt |-> [v \in VPNs |-> IF v \in Interval(lo, hi) THEN NoPte ELSE pt[v]],
     free |-> free]

(* VmArea::unmap_range: unmap every page of the range; a framed area also  *)
(* removes its tracker (unmap_range_and_dealloc_frames), freeing the frame.*)
UnmapRange(a, lo, hi) ==
    LET gone == IF Framed(a) THEN DOMAIN pages[a] \cap Interval(lo, hi) ELSE {}
    IN  [pages |-> [v \in DOMAIN pages[a] \ gone |-> pages[a][v]],
         pt |-> [v \in VPNs |-> IF v \in Interval(lo, hi) THEN NoPte ELSE pt[v]],
         free |-> free \cup {pages[a][v] : v \in gone}]

(* Install the result r of a map or unmap of area a, and its new range. *)
Install(a, r, rng) ==
    /\ pages' = [pages EXCEPT ![a] = r.pages]
    /\ pt' = r.pt
    /\ free' = r.free
    /\ range' = [range EXCEPT ![a] = rng]
    /\ UNCHANGED <<perm, panicked>>

(* A map whose allocation unwrap panicked. *)
Panic(reason) ==
    /\ panicked' = reason
    /\ UNCHANGED <<range, perm, pages, pt, free>>
-----------------------------------------------------------------------------
(* VmArea::map: map_range over range_vpn. *)
Map(a) ==
    /\ panicked = "none"
    /\ LET r == MapRange(a, range[a].start, range[a].end)
       IN  IF r.ok THEN Install(a, r, range[a]) ELSE Panic("frame_alloc_unwrap")

(* VmArea::unmap: unmap_range over range_vpn. *)
Unmap(a) ==
    /\ panicked = "none"
    /\ Install(a, UnmapRange(a, range[a].start, range[a].end), range[a])

(* Mutant: the pages above new_end are unmapped from one page too late. *)
ShrinkToLate(a, e) ==
    /\ panicked = "none"
    /\ range[a].start <= e /\ e <= range[a].end
    /\ Install(a, UnmapRange(a, e + 1, range[a].end), [start |-> range[a].start, end |-> e])

(* VmArea::shrink_to(new_end): unmap new_end .. end_vpn, then the range    *)
(* ends at new_end.                                                        *)
ShrinkTo(a, e) ==
    /\ panicked = "none"
    /\ range[a].start <= e /\ e <= range[a].end
    /\ Install(a, UnmapRange(a, e, range[a].end), [start |-> range[a].start, end |-> e])

(* VmArea::append_to(new_end): map end_vpn .. new_end, then the range ends *)
(* at new_end.                                                             *)
AppendTo(a, e) ==
    /\ panicked = "none"
    /\ range[a].end <= e /\ e <= Region[a][2]
    /\ LET r == MapRange(a, range[a].end, e)
       IN  IF r.ok THEN Install(a, r, [start |-> range[a].start, end |-> e])
           ELSE Panic("frame_alloc_unwrap")

(* VmArea::set_perm and set_perm_flush: the area's perm changes; the       *)
(* flush is sfence.vma over the range, which changes no page-table entry.  *)
SetPerm(a, p) ==
    /\ panicked = "none"
    /\ perm' = [perm EXCEPT ![a] = p]
    /\ UNCHANGED <<range, pages, pt, free, panicked>>

(* set_perm_and_flush_allocated_frames: set_perm, then each allocated      *)
(* page's leaf gets its flags united with the new perm.                    *)
SetPermAndFlush(a, p) ==
    /\ panicked = "none"
    /\ perm' = [perm EXCEPT ![a] = p]
    /\ pt' = [v \in VPNs |-> IF v \in DOMAIN pages[a]
                             THEN Leaf(pt[v].ppn, pt[v].flags \cup p) ELSE pt[v]]
    /\ UNCHANGED <<range, pages, free, panicked>>

(* UserVmArea::new / KernelVmArea::new: no pages; nothing mapped yet. *)
Init ==
    /\ range = [a \in Areas |-> [start |-> InitRange[a][1], end |-> InitRange[a][2]]]
    /\ perm = InitPerm
    /\ pages = [a \in Areas |-> [v \in {} |-> 0]]
    /\ pt = [v \in VPNs |-> NoPte]
    /\ free = PPNs
    /\ panicked = "none"

Next ==
    \/ \E a \in Areas : Map(a) \/ Unmap(a)
    \/ \E a \in Areas : \E e \in VPNs \cup {Region[a][2]} : ShrinkTo(a, e) \/ AppendTo(a, e)
    \/ \E a \in Areas, p \in PermChoices : SetPerm(a, p) \/ SetPermAndFlush(a, p)

Spec == Init /\ [][Next]_vars
-----------------------------------------------------------------------------
TypeOK ==
    /\ \A a \in Areas : Region[a][1] <= range[a].start /\ range[a].start <= range[a].end
                        /\ range[a].end <= Region[a][2]
    /\ \A a \in Areas : /\ DOMAIN pages[a] \subseteq Interval(Region[a][1], Region[a][2])
                        /\ \A v \in DOMAIN pages[a] : pages[a][v] \in PPNs
    /\ pt \in [VPNs -> {NoPte} \cup [ppn : PPNs \cup LinearPPNs, flags : SUBSET {"R", "W", "X", "U"}]]
    /\ free \subseteq PPNs
    /\ panicked \in {"none", "frame_alloc_unwrap"}

(* Every page a framed area holds a tracker for is mapped to that frame,   *)
(* and every valid leaf lies inside some area's range: shrink_to and       *)
(* unmap leave no mapping behind, append_to and map no tracker unmapped.   *)
PagesMapped ==
    /\ \A a \in Areas : \A v \in DOMAIN pages[a] : pt[v] # NoPte /\ pt[v].ppn = pages[a][v]
    /\ \A v \in VPNs : pt[v] # NoPte => \E a \in Areas : v \in Interval(range[a].start, range[a].end)

(* Every frame is either free or held by exactly one page of one area:     *)
(* the trackers removed by unmap and replaced by a second map go back.    *)
FrameConservation ==
    LET held == UNION {{<<a, v>> : v \in DOMAIN pages[a]} : a \in Areas}
    IN  /\ free \cup {pages[h[1]][h[2]] : h \in held} = PPNs
        /\ \A h, k \in held : h # k => pages[h[1]][h[2]] # pages[k[1]][k[2]]
        /\ \A h \in held : pages[h[1]][h[2]] \notin free
=============================================================================
