------------------------------ MODULE KernAddr ------------------------------
(***************************************************************************)
(* The kernel address types of src/os/src/mm/address/kern.rs: KernAddr    *)
(* (a usize virtual address) and KernPageNum (a usize page number), their  *)
(* conversions and their translation to physical addresses, as operators  *)
(* over a usize of UsizeBits bits, checked against each other.             *)
(*                                                                         *)
(* KERNEL_ADDR_OFFSET = 0xffff_ffc0_0000_0000 is the sign extension of     *)
(* bit VA_WIDTH_SV39 - 1: here 2^UsizeBits - 2^(VaWidth - 1).  A `-`      *)
(* that leaves the usize range panics in a debug build and wraps in a      *)
(* release build; the repository fixes neither, so such an operation has   *)
(* both outcomes.  A shift drops the bits it moves out.                    *)
(***************************************************************************)
EXTENDS Naturals, Integers, Bitwise

CONSTANTS
    UsizeBits,     \* width of usize
    PageSizeBits,  \* PAGE_SIZE_BITS
    VaWidth,       \* VA_WIDTH_SV39
    Panic          \* the outcome of an arithmetic overflow in a debug build

WordMax == 2 ^ UsizeBits
Usize == 0 .. (WordMax - 1)
PageSize == 2 ^ PageSizeBits
KernelAddrOffset == WordMax - 2 ^ (VaWidth - 1)
BitNot(x) == (WordMax - 1) - x

(* The outcomes of an integer result stored in a usize. *)
Outcomes(x) == IF x \in Usize THEN {x} ELSE {x % WordMax, Panic}

(* KernAddr::page_offset, floor. *)
PageOffset(a) == a & (PageSize - 1)

(* Mutant: floor shifts by one bit too few. *)
FloorShiftShort(a) == a \div (PageSize \div 2)

Floor(a) == a \div PageSize

(* From<usize> for KernAddr: keep the low VA_WIDTH_SV39 bits. *)
AddrFromUsize(v) == v & (2 ^ VaWidth - 1)

(* Mutant: the sign extension starts one above bit VA_WIDTH_SV39 - 1. *)
UsizeFromAddrStrict(a) ==
    IF a > 2 ^ (VaWidth - 1) THEN a | BitNot(2 ^ VaWidth - 1) ELSE a

(* From<KernAddr> for usize: sign-extend from bit VA_WIDTH_SV39 - 1. *)
UsizeFromAddr(a) ==
    IF a >= 2 ^ (VaWidth - 1) THEN a | BitNot(2 ^ VaWidth - 1) ELSE a

(* From<KernAddr> for KernPageNum: assert_eq!(page_offset, 0), then floor. *)
KpnFromAddr(a) == IF PageOffset(a) # 0 THEN {Panic} ELSE {Floor(a)}

(* From<KernPageNum> for KernAddr: self.0 << PAGE_SIZE_BITS. *)
AddrFromKpn(k) == (k * PageSize) % WordMax

(* KernAddr::to_phys: self.0 - KERNEL_ADDR_OFFSET. *)
ToPhys(a) == Outcomes(a - KernelAddrOffset)

(* Mutant: the mask of KernPageNum::to_phys (kern.rs line 36), which keeps *)
(* the offset bits instead of clearing them.                               *)
LinearPpnUnnegated(vpn) == vpn & (KernelAddrOffset \div PageSize)

(* MapArea::map_range_to, linear case (vm_area.rs): the physical page of a *)
(* kernel page is vpn & !(KERNEL_ADDR_OFFSET >> PAGE_SIZE_BITS).          *)
LinearPpn(vpn) == vpn & BitNot(KernelAddrOffset \div PageSize)

-----------------------------------------------------------------------------
(* The checked input: an address (or page number) a. *)
VARIABLE a

Init == a \in Usize
Next == UNCHANGED a
Spec == Init /\ [][Next]_a

Canonical(x) == x < 2 ^ (VaWidth - 1) \/ x >= KernelAddrOffset

(* A canonical address survives KernAddr::from(usize) and usize::from: the *)
(* 39-bit mask and the sign extension are inverse on canonical addresses.  *)
CanonicalRoundTrip ==
    Canonical(a) => UsizeFromAddr(AddrFromUsize(a)) = a

(* For a page-aligned address, the page number (KernPageNum::from, which   *)
(* must not trip its assert) and back gives the address; floor is the page *)
(* number and page_offset the rest of any address.                         *)
PageRoundTrip ==
    /\ PageOffset(a) = 0 => KpnFromAddr(a) = {Floor(a)} /\ AddrFromKpn(Floor(a)) = a
    /\ Floor(a) * PageSize + PageOffset(a) = a

(* The linear map and to_phys agree: for every kernel address, the        *)
(* physical page the kernel's linear areas map its page to (the mask of    *)
(* map_range_to) is the page of the physical address KernAddr::to_phys    *)
(* gives, at the same offset, and the subtraction cannot overflow there.   *)
PhysTranslationsAgree ==
    a >= KernelAddrOffset =>
        \E p \in ToPhys(a) :
            /\ ToPhys(a) = {p}
            /\ Floor(p) = LinearPpn(Floor(a))
            /\ PageOffset(p) = PageOffset(a)
=============================================================================
