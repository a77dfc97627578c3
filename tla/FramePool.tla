----------------------------- MODULE FramePool -----------------------------
(***************************************************************************)
(* What the frame allocator promises its callers (spec section 4.1): a     *)
(* request for cnt frames with alignment 2^al is served with cnt           *)
(* contiguous free physical pages whose first PPN is a multiple of 2^al;   *)
(* a returned run becomes free again; a leaked run is never returned.      *)
(* A refused request is a stutter step.                                    *)
(***************************************************************************)
EXTENDS Naturals

CONSTANTS
    PPNs,          \* the physical page numbers the allocator manages
    MaxCnt,        \* largest run a caller asks for
    MaxAlignLog2   \* largest alignment exponent a caller asks for

VARIABLES
    freePPN,       \* pages not owned by anybody
    held           \* runs [start, end) currently owned, with the requested
                   \* alignment exponent

Run(s, n) == s .. (s + n - 1)

Alloc(cnt, al) ==
    \E s \in PPNs :
        /\ s % (2 ^ al) = 0
        /\ Run(s, cnt) \subseteq freePPN
        /\ freePPN' = freePPN \ Run(s, cnt)
        /\ held' = held \cup {[start |-> s, end |-> s + cnt, align |-> al]}

Free(r) ==
    /\ r \in held
    /\ held' = held \ {r}
    /\ freePPN' = freePPN \cup (r.start .. (r.end - 1))

Leak(r) ==
    /\ r \in held
    /\ held' = held \ {r}
    /\ UNCHANGED freePPN

Init ==
    /\ freePPN = PPNs
    /\ held = {}

Next ==
    \/ \E cnt \in 1 .. MaxCnt, al \in 0 .. MaxAlignLog2 : Alloc(cnt, al)
    \/ \E r \in held : Free(r) \/ Leak(r)

Spec == Init /\ [][Next]_<<freePPN, held>>
=============================================================================
