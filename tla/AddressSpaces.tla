--------------------------- MODULE AddressSpaces ---------------------------
(***************************************************************************)
(* What user virtual memory promises the processes (spec sections 4.4,     *)
(* 4.5, 4.8, 8): each live process sees its own page-granular memory.     *)
(* A store changes one page of the storing process only; fork gives the    *)
(* child a copy of the parent's memory; exec replaces a process's memory   *)
(* by the program image; shrinking the heap discards pages (they read as   *)
(* zero afterwards); a process that ends has no memory.                    *)
(***************************************************************************)
CONSTANTS
    Spaces,        \* process identifiers
    InitSpace,     \* the first process
    VPNs,          \* user pages
    Image,         \* Image[v]: content of page v right after exec
    StoreVal       \* what a store writes

VARIABLES
    alive,         \* running processes
    amem           \* amem[s][v]: what process s reads at page v (0 if none)

Zero == [v \in VPNs |-> 0]

Init ==
    /\ alive = {InitSpace}
    /\ amem = [s \in Spaces |-> IF s = InitSpace THEN Image ELSE Zero]

Write(s, v) ==
    /\ s \in alive
    /\ amem' = [amem EXCEPT ![s][v] = StoreVal]
    /\ UNCHANGED alive

Spawn(p, c) ==
    /\ p \in alive /\ c \notin alive
    /\ alive' = alive \cup {c}
    /\ amem' = [amem EXCEPT ![c] = amem[p]]

Load(s) ==
    /\ s \in alive
    /\ amem' = [amem EXCEPT ![s] = Image]
    /\ UNCHANGED alive

Discard(s, gone) ==
    /\ s \in alive
    /\ amem' = [amem EXCEPT ![s] = [v \in VPNs |-> IF v \in gone THEN 0 ELSE @[v]]]
    /\ UNCHANGED alive

End(s) ==
    /\ s \in alive
    /\ alive' = alive \ {s}
    /\ amem' = [amem EXCEPT ![s] = Zero]

Next ==
    \E s, c \in Spaces, v \in VPNs, gone \in SUBSET VPNs :
        Write(s, v) \/ Spawn(s, c) \/ Load(s) \/ Discard(s, gone) \/ End(s)

Spec == Init /\ [][Next]_<<alive, amem>>
=============================================================================
