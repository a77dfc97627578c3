--------------------------- MODULE MCLegacyVmArea ---------------------------
(***************************************************************************)
(* A user area, a kernel stack and a linearly mapped kernel area.  Kernel *)
(* pages carry the bit 8 (standing for the high bits of                    *)
(* KERNEL_ADDR_OFFSET >> 12), so kernel page v is physical page v - 8.     *)
(* The allocator's three frames are fewer than the areas can ask for.      *)
(***************************************************************************)
EXTENDS LegacyVmArea

CONSTANTS u, ks, kt   \* the three areas, as model values

MCKind == (u :> "User" @@ ks :> "KernelStack" @@ kt :> "Linear")
MCRegion == (u :> <<0, 3>> @@ ks :> <<4, 6>> @@ kt :> <<8, 10>>)
MCInitRange == (u :> <<0, 2>> @@ ks :> <<4, 5>> @@ kt :> <<8, 9>>)
MCInitPerm == (u :> {"R", "W", "U"} @@ ks :> {"R", "W"} @@ kt :> {"R", "X"})
MCPermChoices == {{"R", "U"}, {"R", "W", "U"}}
MCPPNs == 16 .. 18
=============================================================================
