------------------------------ MODULE NetPoll ------------------------------
(***************************************************************************)
(* The locks of the network stack (src/os/src/net/mod.rs) on several CPUs, *)
(* each lock a SpinNoIrqLock (src/os/src/sync/mutex/spin_mutex.rs, mod.rs) *)
(*                                                                         *)
(* InterfaceWrapper holds the device and the smoltcp interface behind one  *)
(* lock each; SOCKET_SET is a third.  A CPU runs one operation at a time:  *)
(* poll (also the NetPollTimer callback, through poll_interfaces),         *)
(* check_poll, or one of the socket-set operations.  An operation is the   *)
(* order in which it takes and drops the three locks; what it does with    *)
(* the protected data (smoltcp) is not in the repository and changes no    *)
(* lock.                                                                   *)
(*                                                                         *)
(* SpinMutex::lock is a test-and-test-and-set loop: wait_unlock spins      *)
(* while the flag is set, before_lock masks interrupts (a SieGuard that    *)
(* remembers the previous state), then compare_exchange(false, true); on a *)
(* failed exchange the guard is dropped and the loop starts again.         *)
(* Dropping a MutexGuard stores false and then drops its SieGuard.         *)
(***************************************************************************)
EXTENDS Naturals, SequencesExt, FiniteSets

CONSTANTS
    CPUs,          \* harts running kernel code
    Ops            \* operations the CPUs run (a subset of OpNames)

Locks == {"dev", "iface", "sockets"}

(* One step of an operation: take or drop a lock, or the match in          *)
(* check_poll that either polls the device again or only sets a timer.     *)
Acq(l) == [act |-> "acquire", lock |-> l]
Rel(l) == [act |-> "release", lock |-> l]
Branch(n) == [act |-> "branch", skip |-> n]

(* InterfaceWrapper::poll: dev, iface, sockets; the guards are locals and  *)
(* are dropped in reverse order at the end of the function.                *)
PollScript ==
    << Acq("dev"), Acq("iface"), Acq("sockets"),
       Rel("sockets"), Rel("iface"), Rel("dev") >>

(* InterfaceWrapper::check_poll: iface, sockets, then by poll_delay either *)
(* iface.poll with a temporary dev guard (Some(ZERO), or a passed         *)
(* deadline) or add_timer without it (a future deadline, or None).         *)
CheckPollScript ==
    << Acq("iface"), Acq("sockets"), Branch(2),
       Acq("dev"), Rel("dev"),
       Rel("sockets"), Rel("iface") >>

(* add_socket, with_socket, with_socket_mut, remove: the set's lock around *)
(* one smoltcp call.                                                       *)
SocketSetScript == << Acq("sockets"), Rel("sockets") >>

OpNames == {"poll_interfaces", "check_poll", "add_socket", "with_socket",
            "with_socket_mut", "remove"}

Script(o) ==
    CASE o = "poll_interfaces" -> PollScript
      [] o = "check_poll"      -> CheckPollScript
      [] OTHER                 -> SocketSetScript

ASSUME Ops \subseteq OpNames

VARIABLES
    lock,          \* lock[l]: the AtomicBool of SpinMutex l
    op,            \* op[c]: the operation CPU c runs, or "idle"
    pc,            \* pc[c]: index of its next step in Script(op[c])
    phase,         \* phase[c]: "wait" (wait_unlock) or "cas" (about to exchange)
    held,          \* held[c]: locks whose MutexGuard CPU c owns
    irq,           \* irq[c]: interrupts enabled on CPU c
    saved          \* saved[c]: the live SieGuards' saved states, innermost last

vars == <<lock, op, pc, phase, held, irq, saved>>

Step(c) == Script(op[c])[pc[c]]
Running(c) == op[c] # "idle" /\ pc[c] <= Len(Script(op[c]))
Returning(c) == op[c] # "idle" /\ pc[c] > Len(Script(op[c]))

(* SieGuard::new: remember the current state and mask interrupts. *)
SieGuardNew(c) ==
    /\ saved' = [saved EXCEPT ![c] = Append(@, irq[c])]
    /\ irq' = [irq EXCEPT ![c] = FALSE]

(* Mutant: dropping a SieGuard enables interrupts whatever it saved. *)
SieGuardDropEnable(c) ==
    /\ saved' = [saved EXCEPT ![c] = Front(@)]
    /\ irq' = [irq EXCEPT ![c] = TRUE]

(* Drop of a SieGuard: restore the state it saved. *)
SieGuardDrop(c) ==
    /\ saved' = [saved EXCEPT ![c] = Front(@)]
    /\ irq' = [irq EXCEPT ![c] = Last(saved[c])]

(* An idle CPU starts an operation. *)
Start(c, o) ==
    /\ op[c] = "idle"
    /\ op' = [op EXCEPT ![c] = o]
    /\ pc' = [pc EXCEPT ![c] = 1]
    /\ UNCHANGED <<lock, phase, held, irq, saved>>

(* wait_unlock sees the flag clear and leaves its loop; before_lock then   *)
(* masks interrupts.                                                       *)
WaitUnlock(c) ==
    /\ Running(c)
    /\ Step(c).act = "acquire"
    /\ phase[c] = "wait"
    /\ ~lock[Step(c).lock]
    /\ phase' = [phase EXCEPT ![c] = "cas"]
    /\ SieGuardNew(c)
    /\ UNCHANGED <<lock, op, pc, held>>

(* One iteration of wait_unlock's loop while the flag is set.  The loop    *)
(* gives up with a panic after 0x1000000 iterations; that count is not     *)
(* modelled, so a CPU that waits for ever spins for ever.                  *)
Spin(c) ==
    /\ Running(c)
    /\ Step(c).act = "acquire"
    /\ phase[c] = "wait"
    /\ lock[Step(c).lock]
    /\ UNCHANGED vars

(* Mutant: a plain store of true instead of compare_exchange. *)
CasLockStore(c) ==
    /\ Running(c)
    /\ Step(c).act = "acquire"
    /\ phase[c] = "cas"
    /\ lock' = [lock EXCEPT ![Step(c).lock] = TRUE]
    /\ held' = [held EXCEPT ![c] = @ \cup {Step(c).lock}]
    /\ pc' = [pc EXCEPT ![c] = @ + 1]
    /\ phase' = [phase EXCEPT ![c] = "wait"]
    /\ UNCHANGED <<op, irq, saved>>

(* Mutant: a failed exchange goes back to wait_unlock keeping its guard. *)
CasLockKeepGuard(c) ==
    /\ Running(c)
    /\ Step(c).act = "acquire"
    /\ phase[c] = "cas"
    /\ phase' = [phase EXCEPT ![c] = "wait"]
    /\ IF ~lock[Step(c).lock]
       THEN /\ lock' = [lock EXCEPT ![Step(c).lock] = TRUE]
            /\ held' = [held EXCEPT ![c] = @ \cup {Step(c).lock}]
            /\ pc' = [pc EXCEPT ![c] = @ + 1]
            /\ UNCHANGED <<op, irq, saved>>
       ELSE UNCHANGED <<lock, op, pc, held, irq, saved>>

(* compare_exchange(false, true): success returns the MutexGuard; failure  *)
(* drops the SieGuard and goes back to wait_unlock.                        *)
CasLock(c) ==
    /\ Running(c)
    /\ Step(c).act = "acquire"
    /\ phase[c] = "cas"
    /\ phase' = [phase EXCEPT ![c] = "wait"]
    /\ IF ~lock[Step(c).lock]
       THEN /\ lock' = [lock EXCEPT ![Step(c).lock] = TRUE]
            /\ held' = [held EXCEPT ![c] = @ \cup {Step(c).lock}]
            /\ pc' = [pc EXCEPT ![c] = @ + 1]
            /\ UNCHANGED <<op, irq, saved>>
       ELSE /\ SieGuardDrop(c)
            /\ UNCHANGED <<lock, op, pc, held>>

(* Mutant: the guard's drop forgets to clear the flag. *)
UnlockNoStore(c) ==
    /\ Running(c)
    /\ Step(c).act = "release"
    /\ held' = [held EXCEPT ![c] = @ \ {Step(c).lock}]
    /\ pc' = [pc EXCEPT ![c] = @ + 1]
    /\ SieGuardDrop(c)
    /\ UNCHANGED <<lock, op, phase>>

(* Drop for MutexGuard: store false, after_unlock (nothing for SpinNoIrq), *)
(* then the guard's SieGuard field is dropped.                             *)
Unlock(c) ==
    /\ Running(c)
    /\ Step(c).act = "release"
    /\ lock' = [lock EXCEPT ![Step(c).lock] = FALSE]
    /\ held' = [held EXCEPT ![c] = @ \ {Step(c).lock}]
    /\ pc' = [pc EXCEPT ![c] = @ + 1]
    /\ SieGuardDrop(c)
    /\ UNCHANGED <<op, phase>>

(* check_poll's match on poll_delay: poll the device again or set a timer. *)
PollDelay(c) ==
    /\ Running(c)
    /\ Step(c).act = "branch"
    /\ \E n \in {1, 1 + Step(c).skip} : pc' = [pc EXCEPT ![c] = @ + n]
    /\ UNCHANGED <<lock, op, phase, held, irq, saved>>

(* The operation returns. *)
Finish(c) ==
    /\ Returning(c)
    /\ op' = [op EXCEPT ![c] = "idle"]
    /\ UNCHANGED <<lock, pc, phase, held, irq, saved>>

Init ==
    /\ lock = [l \in Locks |-> FALSE]
    /\ op = [c \in CPUs |-> "idle"]
    /\ pc = [c \in CPUs |-> 1]
    /\ phase = [c \in CPUs |-> "wait"]
    /\ held = [c \in CPUs |-> {}]
    /\ irq = [c \in CPUs |-> TRUE]
    /\ saved = [c \in CPUs |-> <<>>]

CPUStep(c) ==
    \/ Spin(c) \/ WaitUnlock(c) \/ CasLock(c) \/ Unlock(c) \/ PollDelay(c) \/ Finish(c)

Next ==
    \/ \E c \in CPUs, o \in Ops : Start(c, o)
    \/ \E c \in CPUs : CPUStep(c)

(* Each CPU keeps executing its kernel thread: a CPU holding a SpinNoIrq   *)
(* lock has interrupts masked and is not taken away from it.  Starting an  *)
(* operation is left unfair: a CPU may stay idle.                          *)
Spec == Init /\ [][Next]_vars /\ \A c \in CPUs : WF_vars(CPUStep(c))
-----------------------------------------------------------------------------
TypeOK ==
    /\ lock \in [Locks -> BOOLEAN]
    /\ op \in [CPUs -> Ops \cup {"idle"}]
    /\ pc \in [CPUs -> 1 .. 8]
    /\ phase \in [CPUs -> {"wait", "cas"}]
    /\ held \in [CPUs -> SUBSET Locks]
    /\ irq \in [CPUs -> BOOLEAN]
    \* a live SieGuard per owned lock, and one more in the exchange window
    /\ saved \in [CPUs -> BoundedSeq(BOOLEAN, Cardinality(Locks))]

(* SpinMutex gives mutual exclusion: no two CPUs own a guard of the same   *)
(* lock, across the window between wait_unlock and compare_exchange.       *)
MutualExclusion ==
    \A l \in Locks : Cardinality({c \in CPUs : l \in held[c]}) <= 1

(* A CPU owning any SpinNoIrq guard runs with interrupts masked, however   *)
(* the guards of nested locks (poll's three, check_poll's temporary dev    *)
(* guard) are created and dropped; so the timer interrupt, whose           *)
(* NetPollTimer callback polls the interface, never lands on a CPU that    *)
(* holds one of the locks the callback takes.                              *)
IrqMaskedWhileHolding ==
    \A c \in CPUs : held[c] # {} => ~irq[c]

(* While some operation is under way, some operation eventually reaches   *)
(* its return: the CPUs never all spin in wait_unlock on each other (where *)
(* the code ends in the wait_unlock give-up panic).                        *)
SomeOperationCompletes ==
    (\E c \in CPUs : Running(c)) ~> (\E c \in CPUs : Returning(c))
=============================================================================
