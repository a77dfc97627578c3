----------------------------- MODULE MCKernAddr -----------------------------
(***************************************************************************)
(* An 8-bit usize with 4-unit pages and a 6-bit virtual address width:     *)
(* the same shape as 64-bit usize, 4 KiB pages and Sv39, so the kernel     *)
(* addresses are 224 .. 255 (KERNEL_ADDR_OFFSET = 224), the canonical user *)
(* addresses 0 .. 31; every one of the 256 addresses is an input.       *)
(***************************************************************************)
EXTENDS KernAddr

=============================================================================
