------------------------------- MODULE UserVm -------------------------------
(***************************************************************************)
(* User virtual memory of src/os/src/mm/vm/loongarch64.rs (UserVmSpace,    *)
(* UserVmArea) with the types and permission filter of vm/mod.rs.          *)
(*                                                                         *)
(* Every address space (one per process) holds an ordered list of areas    *)
(* (VMAs), a page table and a cached index of its heap area.  An area has  *)
(* a VA range, a kind, a MapPerm and a sparse map VPN -> shared frame      *)
(* (StrongArc<FrameTracker>).  A frame goes back to the allocator when the *)
(* last area referencing it lets go of it.  The operations are those of    *)
(* UserVmSpaceHal: construction from an ELF image (Init and Exec), fork    *)
(* (from_existed, clone_cow), the page-fault handler, reset_heap_break,    *)
(* and dropping a space.  User loads and stores go through the page table; *)
(* an access the PTE does not allow traps into the fault handler, and a    *)
(* fault the handler refuses kills the process.                            *)
(*                                                                         *)
(* Addresses are in units of 1/PageSize of a page so that the ceil/floor   *)
(* of unaligned addresses is kept.  Page contents are abstracted to one    *)
(* value per frame.                                                        *)
(***************************************************************************)
EXTENDS Naturals, FiniteSets, Sequences, SequencesExt, Functions

CONSTANTS
    Spaces,        \* address-space (process) identifiers
    InitSpace,     \* the space built from the ELF image at boot
    NFrames,       \* frames the allocator manages (PPNs 1 .. NFrames)
    PageSize,      \* address units per page
    ElfSegs,       \* LOAD segments: [start, end, filesz, perm] in address units
    StackRange,    \* [USER_STACK_BOTTOM, USER_STACK_TOP)
    TrapRange,     \* [USER_TRAP_CONTEXT_BOTTOM, USER_TRAP_CONTEXT_TOP)
    BrkArgs,       \* new_brk values passed to reset_heap_break
    UserVAs,       \* addresses user code loads from, stores to and jumps to
    FileByte,      \* content copy_data puts in a page from the ELF file
    StoreVal,      \* content a user store writes
    NoPte          \* an invalid / absent leaf PTE

ASSUME InitSpace \in Spaces /\ NFrames \in Nat /\ PageSize \in Nat \ {0}
ASSUME UserVAs \subseteq 0 .. (TrapRange[2] - 1)

VARIABLES
    live,          \* spaces of running processes
    used,          \* spaces ever created (identifiers are not reused)
    areas,         \* areas[s]: Seq of areas, UserVmSpace.areas
    heap,          \* heap[s]: UserVmSpace.heap, 0-based index into areas[s]
    pt,            \* pt[s][vpn]: leaf PTE [ppn, perm, d] or NoPte
    free,          \* PPNs whose bit is set in the frame allocator
    mem,           \* mem[ppn]: content of the frame
    panicked,      \* "none" or the reason the kernel panicked
    segv           \* the faults that killed a process (history)

vars == <<live, used, areas, heap, pt, free, mem, panicked, segv>>

PPNs == 1 .. NFrames
MaxVA == TrapRange[2]
Floor(va) == va \div PageSize
Ceil(va) == (va + PageSize - 1) \div PageSize
VPNs == 0 .. (Ceil(MaxVA) - 1)
Kinds == {"Data", "Heap", "Stack", "TrapContext"}
Perms == {"R", "W", "X", "U", "C"}
Access == {"READ", "WRITE", "EXECUTE"}
NoFrames == [v \in {} |-> 0]

(* UserVmArea::new: no frames, no file. *)
NewArea(start, end, kind, perm) ==
    [start |-> start, end |-> end, kind |-> kind, perm |-> perm, frames |-> NoFrames]

(* UserVmArea::range_vpn: floor(start) .. ceil(end). *)
RangeVpn(a) == Floor(a.start) .. (Ceil(a.end) - 1)

(* PageTableEntry::new(ppn, perm, true): a valid leaf with the flags of    *)
(* the MapPerm.  The dirty bit is not kept: PageTableEntry is in the hal   *)
(* crate, which is not in the repository, so whether a clear D makes a     *)
(* store trap (LoongArch page-modify exception) is not known.              *)
NewPte(ppn, perm) == [ppn |-> ppn, perm |-> perm]

EmptyTable == [v \in VPNs |-> NoPte]

(* Frames referenced by some area of some space: the StrongArc count of    *)
(* such a frame is the number of (space, area, vpn) entries naming it.     *)
Refs(ar) ==
    UNION {UNION {{<<s, i, v>> : v \in DOMAIN ar[s][i].frames} : i \in DOMAIN ar[s]} :
           s \in Spaces}
Referenced(ar) == {ar[r[1]][r[2]].frames[r[3]] : r \in Refs(ar)}
Owners(ar, p) == Cardinality({r \in Refs(ar) : ar[r[1]][r[2]].frames[r[3]] = p})

(* FrameAllocator.alloc_tracker(n) for n single pages: the n lowest free    *)
(* PPNs (the bitmap's lowest-fit search), zero-filled.                     *)
Lowest(fr, n) == SubSeq(SetToSortSeq(fr, <), 1, n)

(* Mutant: dropping a tracker never returns its frame. *)
ReleasedNone(ar, ar2) == {}

(* Dropping the last StrongArc of a frame deallocates it: the frames       *)
(* referenced before a step and by nothing after it become free.           *)
Released(ar, ar2) == Referenced(ar) \ Referenced(ar2)

-----------------------------------------------------------------------------
(* UserVmArea::map(page_table), as called by push_area.  Returns the area, *)
(* the table, the free set after allocation, the frames it allocated, and  *)
(* ok = FALSE where the code panics: alloc_tracker(1).unwrap() on an empty  *)
(* allocator, or a COW TrapContext.                                        *)
MapArea(a, tbl, fr) ==
    IF "C" \in a.perm
    THEN IF a.kind = "TrapContext"
         THEN [area |-> a, pt |-> tbl, free |-> fr, got |-> {}, ok |-> FALSE]
         ELSE [area |-> a,
               pt |-> [v \in VPNs |-> IF v \in DOMAIN a.frames
                                      THEN NewPte(a.frames[v], a.perm \cup {"C"})
                                      ELSE tbl[v]],
               free |-> fr, got |-> {}, ok |-> TRUE]
    ELSE IF a.kind \in {"Heap", "Stack"}
    THEN [area |-> a, pt |-> tbl, free |-> fr, got |-> {}, ok |-> TRUE]
    ELSE LET vs  == RangeVpn(a)
             lo  == Floor(a.start)
             n   == Cardinality(vs)
         IN  IF Cardinality(fr) < n
             THEN [area |-> a, pt |-> tbl, free |-> fr, got |-> {}, ok |-> FALSE]
             ELSE LET got == Lowest(fr, n)
                      fs  == [v \in vs |-> got[v - lo + 1]]
                  IN  [area |-> [a EXCEPT !.frames = fs],
                       pt |-> [v \in VPNs |->
                                 IF v \in vs
                                 THEN NewPte(fs[v], a.perm)
                                 ELSE tbl[v]],
                       free |-> fr \ ToSet(got), got |-> ToSet(got), ok |-> TRUE]

(* UserVmArea::copy_data: page k of the area (from floor(start)) receives  *)
(* file bytes k*PAGE_SIZE .. while they last, at page offset 0.           *)
CopyData(a, tbl, m, filesz) ==
    [p \in DOMAIN m |->
        IF \E v \in RangeVpn(a) : /\ tbl[v] # NoPte /\ tbl[v].ppn = p
                                  /\ (v - Floor(a.start)) * PageSize < filesz
        THEN FileByte ELSE m[p]]

ZeroFill(m, got) == [p \in DOMAIN m |-> IF p \in got THEN 0 ELSE m[p]]

(* from_elf: one Data area per LOAD segment (perm of the segment plus U),  *)
(* mapped eagerly and filled; then the empty heap at the page above the    *)
(* last segment, the stack, and the TrapContext page (R|W, no U).  Returns *)
(* the space's areas, table, heap index, and the allocator and memory     *)
(* after it, or ok = FALSE if an allocation unwrap panicked.               *)
RECURSIVE LoadSegs(_, _)
LoadSegs(st, k) ==
    IF k > Len(ElfSegs) \/ ~st.ok THEN st
    ELSE LET seg == ElfSegs[k]
             m   == MapArea(NewArea(seg.start, seg.end, "Data", seg.perm \cup {"U"}),
                            st.pt, st.free)
         IN  LoadSegs([st EXCEPT
                         !.areas = Append(@, m.area), !.pt = m.pt, !.free = m.free,
                         !.mem = CopyData(m.area, m.pt, ZeroFill(@, m.got), seg.filesz),
                         !.maxEnd = Ceil(seg.end), !.ok = m.ok], k + 1)

FromElf(fr, m) ==
    LET segs == LoadSegs([areas |-> <<>>, pt |-> EmptyTable, free |-> fr, mem |-> m,
                          maxEnd |-> 0, ok |-> TRUE], 1)
        bottom == segs.maxEnd * PageSize
        heapA  == NewArea(bottom, bottom, "Heap", {"R", "W", "U"})
        stackA == NewArea(StackRange[1], StackRange[2], "Stack", {"R", "W", "U"})
        trap   == MapArea(NewArea(TrapRange[1], TrapRange[2], "TrapContext", {"R", "W"}),
                          segs.pt, segs.free)
    IN  [areas |-> segs.areas \o <<heapA, stackA, trap.area>>,
         heap |-> Len(segs.areas),
         pt |-> trap.pt, free |-> trap.free,
         mem |-> ZeroFill(segs.mem, trap.got),
         ok |-> segs.ok /\ trap.ok]
-----------------------------------------------------------------------------
(* UserVmArea::clone_cow on the parent's area a: a TrapContext is refused  *)
(* (the caller copies it instead); a writable area loses W and gains C,    *)
(* and so does every PTE of a frame it holds;                             *)
(* a read-only area only gains C and its PTEs stay as they are.            *)
CloneCowPerm(a) == IF "W" \in a.perm THEN (a.perm \ {"W"}) \cup {"C"} ELSE a.perm \cup {"C"}
(* Mutant: clone_cow sets C on the parent's PTEs but leaves W. *)
CloneCowPtKeepW(a, tbl) ==
    IF "W" \in a.perm
    THEN [v \in VPNs |-> IF v \in DOMAIN a.frames
                         THEN [tbl[v] EXCEPT !.perm = @ \cup {"C"}]
                         ELSE tbl[v]]
    ELSE tbl
CloneCowPt(a, tbl) ==
    IF "W" \in a.perm
    THEN [v \in VPNs |-> IF v \in DOMAIN a.frames
                         THEN [tbl[v] EXCEPT !.perm = (@ \cup {"C"}) \ {"W"}]
                         ELSE tbl[v]]
    ELSE tbl

(* One iteration of from_existed over the parent's i-th area. *)
ForkArea(st, i) ==
    LET a == st.pa[i]
    IN  IF a.kind = "TrapContext"
        THEN \* Err(self.clone()): an area without frames, mapped eagerly in the
             \* child, then every page copied through both page tables.
             LET m == MapArea([a EXCEPT !.frames = NoFrames], st.cpt, st.free)
                 copied == [p \in DOMAIN st.mem |->
                              IF \E v \in DOMAIN a.frames : m.pt[v] # NoPte /\ m.pt[v].ppn = p
                              THEN st.mem[st.ppt[CHOOSE v \in DOMAIN a.frames :
                                                    m.pt[v] # NoPte /\ m.pt[v].ppn = p].ppn]
                              ELSE st.mem[p]]
             IN  [st EXCEPT !.ca = Append(@, m.area), !.cpt = m.pt, !.free = m.free,
                            !.mem = copied, !.ok = m.ok]
        ELSE LET pa2 == [a EXCEPT !.perm = CloneCowPerm(a)]
                 m   == MapArea(pa2, st.cpt, st.free)
             IN  [st EXCEPT !.pa[i] = pa2, !.ppt = CloneCowPt(a, @),
                            !.ca = Append(@, m.area), !.cpt = m.pt, !.ok = m.ok]

RECURSIVE ForkLoop(_, _)
ForkLoop(st, i) ==
    IF i > Len(st.pa) \/ ~st.ok THEN st ELSE ForkLoop(ForkArea(st, i), i + 1)

(* Install the results of a step: new areas, and every frame whose last    *)
(* reference went away is deallocated.                                     *)
Commit(ar2, fr) ==
    /\ areas' = ar2
    /\ free' = fr \cup Released(areas, ar2)

(* fork: UserVmSpace::from_existed(parent) into a fresh space c.  The      *)
(* child is built by from_kernel, so its heap index stays 0.               *)
Fork(p, c) ==
    /\ panicked = "none"
    /\ p \in live
    /\ c \notin used
    /\ LET st == ForkLoop([pa |-> areas[p], ppt |-> pt[p], ca |-> <<>>, cpt |-> EmptyTable,
                           free |-> free, mem |-> mem, ok |-> TRUE], 1)
       IN  IF ~st.ok
           THEN /\ panicked' = "alloc_unwrap"
                /\ UNCHANGED <<live, used, areas, heap, pt, free, mem, segv>>
           ELSE /\ Commit([areas EXCEPT ![p] = st.pa, ![c] = st.ca], st.free)
                /\ pt' = [pt EXCEPT ![p] = st.ppt, ![c] = st.cpt]
                /\ mem' = st.mem
                /\ heap' = [heap EXCEPT ![c] = 0]
                /\ live' = live \cup {c}
                /\ used' = used \cup {c}
                /\ UNCHANGED <<panicked, segv>>
-----------------------------------------------------------------------------
(* The hardware raises a page fault for an access to vpn when the leaf is  *)
(* invalid, lacks U (user mode), or lacks the bit the access needs.        *)
AccessBit(acc) == CASE acc = "READ" -> "R" [] acc = "WRITE" -> "W" [] acc = "EXECUTE" -> "X"
HwFaults(tbl, v, acc) ==
    IF tbl[v] = NoPte THEN TRUE ELSE ~({"U", AccessBit(acc)} \subseteq tbl[v].perm)

(* PageFaultAccessType::can_access: R always, W for a write, X for exec. *)
CanAccess(acc, perm) ==
    /\ "R" \in perm
    /\ acc = "WRITE" => "W" \in perm
    /\ acc = "EXECUTE" => "X" \in perm

Fail == [ok |-> FALSE]

(* UserVmArea::handle_page_fault on area a for page v of a space whose     *)
(* page table is tbl; ar is every space's areas (the owner count of a      *)
(* StrongArc is global).  Returns ok and the area, table, free set and     *)
(* memory after it.  Both fresh-frame paths take the lowest free PPN.      *)
AreaFault(a, tbl, fr, m, v, acc, ar) ==
    IF ~CanAccess(acc, a.perm) THEN Fail
    ELSE IF tbl[v] # NoPte /\ "C" \in tbl[v].perm
    THEN \* Cow
         IF v \notin DOMAIN a.frames THEN Fail
         ELSE LET perm2 == (a.perm \ {"C"}) \cup {"W"}
              IN  IF Owners(ar, a.frames[v]) = 1
                  THEN [ok |-> TRUE, area |-> [a EXCEPT !.perm = perm2],
                        pt |-> [tbl EXCEPT ![v] = NewPte(tbl[v].ppn, perm2)],
                        free |-> fr, mem |-> m]
                  ELSE IF fr = {} THEN Fail
                  ELSE LET n == Min(fr)
                       IN  [ok |-> TRUE,
                            area |-> [a EXCEPT !.perm = perm2, !.frames[v] = n],
                            pt |-> [tbl EXCEPT ![v] = NewPte(n, perm2)],
                            free |-> fr \ {n}, mem |-> [m EXCEPT ![n] = m[a.frames[v]]]]
    ELSE \* Lazy
         IF a.kind \in {"Data", "TrapContext"} \/ fr = {} THEN Fail
         ELSE LET n == Min(fr)
              IN  [ok |-> TRUE,
                   area |-> [a EXCEPT !.frames = [w \in DOMAIN a.frames \cup {v} |->
                                                    IF w = v THEN n ELSE a.frames[w]]],
                   pt |-> [tbl EXCEPT ![v] = NewPte(n, a.perm)],
                   free |-> fr \ {n}, mem |-> [m EXCEPT ![n] = 0]]

(* Dropping a UserVmSpace: its areas (and with them their StrongArcs) and  *)
(* its page table go away.                                                 *)
DropSpace(s) ==
    /\ live' = live \ {s}
    /\ Commit([areas EXCEPT ![s] = <<>>], free)
    /\ pt' = [pt EXCEPT ![s] = EmptyTable]
    /\ heap' = [heap EXCEPT ![s] = 0]

(* A user access to va of the kind acc that the hardware refuses traps     *)
(* into UserVmSpace::handle_page_fault: the first area whose range holds  *)
(* va handles it; no area, or an Err from the area, kills the process     *)
(* (recorded in segv) and its space is dropped.                            *)
PageFault(s, va, acc) ==
    /\ panicked = "none"
    /\ s \in live
    /\ HwFaults(pt[s], Floor(va), acc)
    /\ LET hits == {i \in DOMAIN areas[s] : areas[s][i].start <= va /\ va < areas[s][i].end}
           i    == Min(hits)
           r    == IF hits = {} THEN Fail
                   ELSE AreaFault(areas[s][i], pt[s], free, mem, Floor(va), acc, areas)
       IN  IF r.ok
           THEN /\ Commit([areas EXCEPT ![s][i] = r.area], r.free)
                /\ pt' = [pt EXCEPT ![s] = r.pt]
                /\ mem' = r.mem
                /\ UNCHANGED <<live, used, heap, panicked, segv>>
           ELSE /\ DropSpace(s)
                /\ segv' = segv \cup {[space |-> s, va |-> va, acc |-> acc,
                                       perm |-> IF hits = {} THEN {} ELSE areas[s][i].perm]}
                /\ UNCHANGED <<used, mem, panicked>>

(* A user store the page table allows writes the frame directly. *)
Store(s, va) ==
    /\ panicked = "none"
    /\ s \in live
    /\ ~HwFaults(pt[s], Floor(va), "WRITE")
    /\ mem' = [mem EXCEPT ![pt[s][Floor(va)].ppn] = StoreVal]
    /\ UNCHANGED <<live, used, areas, heap, pt, free, panicked, segv>>

(* Mutant: the left piece ends at the page number, not its address. *)
SplitOffPageEnd(a, k) ==
    [left  |-> [a EXCEPT !.end = k,
                         !.frames = Restrict(a.frames, {v \in DOMAIN a.frames : v < k})],
     right |-> [a EXCEPT !.start = k * PageSize,
                         !.frames = Restrict(a.frames, {v \in DOMAIN a.frames : v >= k})]]

(* UserVmArea::split_off(p): the area keeps [start, p*PAGE_SIZE) and the  *)
(* frames below p; the returned area has [p*PAGE_SIZE, end) and the frames *)
(* at p and above (BTreeMap::split_off).                                   *)
SplitOff(a, k) ==
    [left  |-> [a EXCEPT !.end = k * PageSize,
                         !.frames = Restrict(a.frames, {v \in DOMAIN a.frames : v < k})],
     right |-> [a EXCEPT !.start = k * PageSize,
                         !.frames = Restrict(a.frames, {v \in DOMAIN a.frames : v >= k})]]

(* split_off's debug_assert!: the range holds p's address.  Whether it is  *)
(* compiled in depends on the build profile, which the repository does not *)
(* fix.                                                                    *)
SplitOffAsserts(a, k) == ~(a.start <= k * PageSize /\ k * PageSize < a.end)

(* Mutant: unmap forgets the page-table entries of a lazy area. *)
UnmapKeepPt(a, tbl) ==
    IF a.kind \in {"Data", "TrapContext"}
    THEN [v \in VPNs |-> IF v \in RangeVpn(a) THEN NoPte ELSE tbl[v]]
    ELSE tbl

(* UserVmArea::unmap: an eager area unmaps its whole page range, a lazy    *)
(* one (Heap, Stack) the pages it holds frames for; then the frames are    *)
(* cleared.  Returns the table; the cleared frames are the caller's to     *)
(* drop.                                                                   *)
Unmap(a, tbl) ==
    LET gone == IF a.kind \in {"Data", "TrapContext"} THEN RangeVpn(a) ELSE DOMAIN a.frames
    IN  [v \in VPNs |-> IF v \in gone THEN NoPte ELSE tbl[v]]

(* brk: UserVmSpace::reset_heap_break(new_brk).  The cached index must     *)
(* name the Heap area (assert!); a break at or above the end extends the   *)
(* area lazily, one strictly inside it shrinks it at ceil(new_brk), one at *)
(* or below the start is ignored.  A shrink splits the heap at            *)
(* ceil(new_brk) and unmaps the right piece, whose frames are dropped.     *)
ResetHeapBreak(s, newBrk) ==
    /\ panicked = "none"
    /\ s \in live
    /\ LET i == heap[s] + 1
           a == areas[s][i]
       IN  CASE a.kind # "Heap" ->
                  /\ panicked' = "heap_assert"
                  /\ UNCHANGED <<live, used, areas, heap, pt, free, mem, segv>>
             [] newBrk >= a.end ->
                  /\ areas' = [areas EXCEPT ![s][i].end = newBrk]
                  /\ UNCHANGED <<live, used, heap, pt, free, mem, panicked, segv>>
             [] newBrk > a.start ->
                  LET r == SplitOff(a, Ceil(newBrk))
                  IN  \/ /\ SplitOffAsserts(a, Ceil(newBrk))
                         /\ panicked' = "split_off_debug_assert"
                         /\ UNCHANGED <<live, used, areas, heap, pt, free, mem, segv>>
                      \/ /\ Commit([areas EXCEPT ![s][i] = r.left], free)
                         /\ pt' = [pt EXCEPT ![s] = Unmap(r.right, pt[s])]
                         /\ UNCHANGED <<live, used, heap, mem, panicked, segv>>
             [] OTHER -> UNCHANGED vars

(* exec: a new UserVmSpace is built from the ELF image while the old one  *)
(* still exists, then replaces it (the old one is dropped).                *)
Exec(s) ==
    /\ panicked = "none"
    /\ s \in live
    /\ LET r == FromElf(free, mem)
       IN  IF ~r.ok
           THEN /\ panicked' = "alloc_unwrap"
                /\ UNCHANGED <<live, used, areas, heap, pt, free, mem, segv>>
           ELSE /\ Commit([areas EXCEPT ![s] = r.areas], r.free)
                /\ pt' = [pt EXCEPT ![s] = r.pt]
                /\ heap' = [heap EXCEPT ![s] = r.heap]
                /\ mem' = r.mem
                /\ UNCHANGED <<live, used, panicked, segv>>

(* exit: the process ends and its space is dropped. *)
Exit(s) ==
    /\ panicked = "none"
    /\ s \in live
    /\ DropSpace(s)
    /\ UNCHANGED <<used, mem, panicked, segv>>

(* Boot: from_elf of the initial program on a fresh allocator. *)
Boot == FromElf(PPNs, [p \in PPNs |-> 0])

Init ==
    /\ live = {InitSpace}
    /\ used = {InitSpace}
    /\ areas = [s \in Spaces |-> IF s = InitSpace THEN Boot.areas ELSE <<>>]
    /\ heap = [s \in Spaces |-> IF s = InitSpace THEN Boot.heap ELSE 0]
    /\ pt = [s \in Spaces |-> IF s = InitSpace THEN Boot.pt ELSE EmptyTable]
    /\ free = Boot.free
    /\ mem = Boot.mem
    /\ panicked = IF Boot.ok THEN "none" ELSE "alloc_unwrap"
    /\ segv = {}

Next ==
    \/ \E p, c \in Spaces : Fork(p, c)
    \/ \E s \in Spaces, va \in UserVAs, acc \in Access : PageFault(s, va, acc)
    \/ \E s \in Spaces, va \in UserVAs : Store(s, va)
    \/ \E s \in Spaces, b \in BrkArgs : ResetHeapBreak(s, b)
    \/ \E s \in Spaces : Exec(s)
    \/ \E s \in Spaces : Exit(s)

Spec == Init /\ [][Next]_vars
-----------------------------------------------------------------------------
Pte == [ppn : PPNs, perm : SUBSET Perms]
Area == [start : Nat, end : Nat, kind : Kinds, perm : SUBSET Perms,
         frames : UNION {[D -> PPNs] : D \in SUBSET VPNs}]

TypeOK ==
    /\ live \subseteq used /\ used \subseteq Spaces
    /\ \A s \in Spaces : /\ areas[s] \in Seq(Area)
                         /\ \A i \in DOMAIN areas[s] : areas[s][i].start <= areas[s][i].end
    /\ heap \in [Spaces -> Nat]
    /\ pt \in [Spaces -> [VPNs -> Pte \cup {NoPte}]]
    /\ free \subseteq PPNs
    /\ mem \in [PPNs -> {0, FileByte, StoreVal}]
    /\ panicked \in {"none", "heap_assert", "alloc_unwrap", "split_off_debug_assert"}

(* Spec section 8: every (vpn, frame) an area holds is mapped by a valid   *)
(* leaf of its space's table with that PPN, and every valid leaf maps a    *)
(* frame that an area of the space holds at that vpn (no leaf points at a  *)
(* dropped frame).  At risk from split_off/unmap in reset_heap_break, the  *)
(* frame replacement of the fault handler and clone_cow's PTE rewrite.     *)
PageTableMatchesAreas ==
    \A s \in live :
        /\ \A i \in DOMAIN areas[s] : \A v \in DOMAIN areas[s][i].frames :
              pt[s][v] # NoPte /\ pt[s][v].ppn = areas[s][i].frames[v]
        /\ \A v \in VPNs : pt[s][v] # NoPte =>
              \E i \in DOMAIN areas[s] : /\ v \in DOMAIN areas[s][i].frames
                                         /\ areas[s][i].frames[v] = pt[s][v].ppn

(* Spec section 8, frame conservation: a frame is free in the allocator    *)
(* exactly when no area of any space holds a StrongArc of it -- no leak    *)
(* after exec, exit, a fault kill or a heap shrink, and no frame handed   *)
(* out twice (the eager map of from_elf/fork and the lazy fault path).     *)
FrameConservation ==
    free = PPNs \ Referenced(areas)

(* The user-visible memory of every space evolves as AddressSpaces allows: *)
(* a store changes only the storing space's page, fork gives the child a   *)
(* copy, exec loads the image, a heap shrink discards pages.  This is the  *)
(* isolation copy-on-write sharing (clone_cow, map's C path) must keep.     *)
Visible(s, v) ==
    IF s \in live /\ pt[s][v] # NoPte /\ "U" \in pt[s][v].perm
    THEN mem[pt[s][v].ppn] ELSE 0

Abstract == INSTANCE AddressSpaces WITH
                Image <- [v \in VPNs |-> IF Boot.pt[v] # NoPte /\ "U" \in Boot.pt[v].perm
                                         THEN Boot.mem[Boot.pt[v].ppn] ELSE 0],
                alive <- live,
                amem <- [s \in Spaces |-> [v \in VPNs |-> Visible(s, v)]]

ImplementsAddressSpaces == Abstract!Spec

(* Spec section 4.7: a write fault on an area that carries C (a COW area   *)
(* after fork) passes the permission filter and is served by copy or      *)
(* demote; it never kills the process.                                     *)
WriteFaultOnCowServed ==
    \A k \in segv : ~(k.acc = "WRITE" /\ "C" \in k.perm)

(* reset_heap_break never panics: neither its assert (the cached heap     *)
(* index names the Heap area in every space, forked ones included) nor     *)
(* split_off's debug_assert (the page of the new break starts inside the   *)
(* heap) trips, for any sequence of brk, fork and fault.                   *)
BrkNeverPanics == panicked \notin {"heap_assert", "split_off_debug_assert"}
=============================================================================
