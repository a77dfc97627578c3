------------------------------ MODULE MCUserVm ------------------------------
(***************************************************************************)
(* A small user layout for UserVm.  Addresses are in half pages            *)
(* (PageSize = 2) so unaligned segment and break addresses occur:          *)
(*   page 0      text segment  [0, 2)  R X, two file units                 *)
(*   page 1      data segment  [2, 3)  R W, one file unit (unaligned end)  *)
(*   page 2 ..   heap from VA 4 (the page above the last segment)          *)
(*   page 4      stack  [8, 10)                                            *)
(*   page 5      TrapContext [10, 12)                                      *)
(* Five frames: boot takes three, so two forks exhaust the allocator and   *)
(* the lazy heap and stack faults compete with fork for the rest.          *)
(***************************************************************************)
EXTENDS UserVm

MCElfSegs ==
    << [start |-> 0, end |-> 2, filesz |-> 2, perm |-> {"R", "X"}],
       [start |-> 2, end |-> 3, filesz |-> 1, perm |-> {"R", "W"}] >>

MCStackRange == <<8, 10>>
MCTrapRange == <<10, 12>>

\* one address per case the fault handler tells apart: the data page (in
\* the segment, and past its unaligned end), two heap pages, the stack, the
\* TrapContext page
MCUserVAs == {2, 3, 5, 6, 9, 10}

\* break values: below the heap start, unaligned, aligned, up to the stack
MCBrkArgs == {3, 5, 6, 8}
\* as above, and a break that runs the heap over the stack and TrapContext
MCBrkArgsOverTrap == {5, 12}
=============================================================================
