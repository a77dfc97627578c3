------------------------------ MODULE ElfCopy ------------------------------
(***************************************************************************)
(* Loading one ELF LOAD segment, byte by byte: UserVmSpace::from_elf makes *)
(* a Data area over [p_vaddr, p_vaddr + mem_size), push_area maps every    *)
(* page of its range_vpn to a fresh (zeroed) frame, and copy_data copies   *)
(* the file bytes [p_offset, p_offset + file_size) into those pages        *)
(* (src/os/src/mm/vm/loongarch64.rs).  The legacy UserVmArea::copy_data of *)
(* src/os/src/mm/vm_area.rs:128-145 is the same loop.                      *)
(*                                                                         *)
(* Memory is a function from user addresses to byte values; file byte i of *)
(* the segment is the value i + 1, so a zero is never a file byte.         *)
(***************************************************************************)
EXTENDS Naturals

CONSTANTS
    PageSize,      \* Constant::PAGE_SIZE
    MaxOffset      \* p_vaddr ranges over 0 .. MaxOffset

Floor(va) == va \div PageSize
Ceil(va) == (va + PageSize - 1) \div PageSize
MinOf(x, y) == IF x <= y THEN x ELSE y

(* elf.input[ph.offset() ..][i]: the i-th file byte of the segment. *)
FileByte(i) == i + 1

(* UserVmArea::map, Data arm: a fresh frame for every page of              *)
(* floor(start) .. ceil(end); the frames come zeroed.                      *)
Mapped(s, e) == [va \in (Floor(s) * PageSize) .. (Ceil(e) * PageSize - 1) |-> 0]

(* UserVmArea::copy_data's loop: page vpn receives                         *)
(* data[off .. min(len, off + PAGE_SIZE)] at its first byte; off grows by   *)
(* PAGE_SIZE and the loop breaks once off >= len.                          *)
RECURSIVE CopyPages(_, _, _, _, _)
CopyPages(mem, vpn, last, off, len) ==
    IF vpn >= last THEN mem
    ELSE LET n    == MinOf(len, off + PageSize) - off
             base == vpn * PageSize
             mem2 == [va \in DOMAIN mem |->
                        IF base <= va /\ va < base + n
                        THEN FileByte(off + va - base) ELSE mem[va]]
         IN  IF off + PageSize >= len THEN mem2
             ELSE CopyPages(mem2, vpn + 1, last, off + PageSize, len)

(* push_area(map_area, Some(data)) for the area [s, e): map, then          *)
(* copy_data over range_vpn from byte 0 of the data.                       *)
CopyData(s, e, len) == CopyPages(Mapped(s, e), Floor(s), Ceil(e), 0, len)
-----------------------------------------------------------------------------
(* The segment being loaded: p_vaddr, p_memsz and p_filesz. *)
VARIABLES start, memsz, filesz

vars == <<start, memsz, filesz>>

Init ==
    /\ start \in 0 .. MaxOffset
    /\ memsz \in 0 .. 2 * PageSize
    /\ filesz \in 0 .. memsz

Next == UNCHANGED vars
Spec == Init /\ [][Next]_vars

Loaded == CopyData(start, start + memsz, filesz)

(* Spec section 4 (copy_data): the file bytes land from range.start: the   *)
(* byte at p_vaddr + i is file byte i, as the ELF format requires.          *)
PlacedAtStart ==
    \A i \in 0 .. (filesz - 1) : Loaded[start + i] = FileByte(i)
=============================================================================
