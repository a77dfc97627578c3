----------------------------- MODULE VirtioNet ------------------------------
(***************************************************************************)
(* The VirtIO network driver, VirtIoNetDev of                              *)
(* src/os/src/drivers/net/virtio_net.rs, as the owner of its packet        *)
(* buffers, between the device and the network stack.                      *)
(*                                                                         *)
(* new() takes 2 * NET_QUEUE_SIZE buffers from its NetBufPool: one posted  *)
(* to the receive queue under each token, the rest in free_tx_bufs.  From  *)
(* then on a buffer moves between                                          *)
(*   - the driver: rx_buffers[token], tx_buffers[token], free_tx_bufs;     *)
(*   - the device: the descriptors of its two virtqueues, and the used     *)
(*     rings on which it hands descriptors back;                           *)
(*   - the network stack: buffers it got from receive or alloc_tx_buffer   *)
(*     and has not yet given back through recycle_rx_buffer or transmit.   *)
(* A buffer that leaves all three is dropped (back to the pool).           *)
(*                                                                         *)
(* The virtqueues belong to the virtio-drivers crate (VirtIONetRaw), not   *)
(* to this repository: a queue is its descriptor table (token -> buffer)   *)
(* and its used ring.  add() (receive_begin, transmit_begin) takes some    *)
(* free descriptor or fails with QueueFull; poll_* peeks the head of the   *)
(* used ring; *_complete pops it and frees the descriptor.  The device     *)
(* completes posted descriptors in any order.  The stack (the smoltcp      *)
(* Device wrapper, also not in the repository) may call any method at any  *)
(* time with the buffers it holds; the driver's callers serialise the      *)
(* calls under the device's SpinNoIrqLock, so each method is one step.     *)
(***************************************************************************)
EXTENDS Naturals, SequencesExt, FiniteSets, Functions

CONSTANTS
    QueueSize,     \* NET_QUEUE_SIZE
    HeaderLen,     \* what fill_buffer_header returns: the virtio-net header
    NetBufLen,     \* NET_BUF_LEN, the capacity of a pool buffer
    None           \* Option::None

Tokens == 0 .. (QueueSize - 1)

(* NetBufPool::new(2 * NET_QUEUE_SIZE, NET_BUF_LEN) *)
Bufs == 1 .. (2 * QueueSize)

Slot == Bufs \cup {None}

(* capabilities(): max_transmission_unit = 1514; the stack asks           *)
(* alloc_tx_buffer for at most this many bytes.                            *)
MaxTransmissionUnit == 1514

PacketSizes == {1, MaxTransmissionUnit}

VARIABLES
    rx_buffers,    \* rx_buffers[token]: the buffer the driver keeps for token
    tx_buffers,    \* tx_buffers[token]
    free_tx_bufs,  \* free_tx_bufs, a Vec used as a stack
    rx_desc,       \* the receive queue's descriptors: token -> buffer or None
    tx_desc,       \* the transmit queue's descriptors
    rx_used,       \* tokens the device has filled, oldest first
    tx_used,       \* tokens the device has sent, oldest first
    stack_rx,      \* received buffers the stack holds
    stack_tx       \* allocated tx buffers the stack holds

vars == <<rx_buffers, tx_buffers, free_tx_bufs, rx_desc, tx_desc,
          rx_used, tx_used, stack_rx, stack_tx>>

(* The virtqueue's free descriptors, and those the device still holds. *)
FreeDescs(desc) == {t \in Tokens : desc[t] = None}
Posted(desc, used) == (Tokens \ FreeDescs(desc)) \ ToSet(used)

(* Mutant: the first receive_begin is expected to return token 1. *)
InitRxFromOne ==
    /\ rx_buffers = [t \in 1 .. QueueSize |-> t]
    /\ rx_desc = [t \in 1 .. QueueSize |-> t]
    /\ free_tx_bufs = [i \in 1 .. QueueSize |-> QueueSize + i]
    /\ tx_buffers = [t \in Tokens |-> None]
    /\ tx_desc = [t \in Tokens |-> None]
    /\ rx_used = <<>> /\ tx_used = <<>>
    /\ stack_rx = {} /\ stack_tx = {}

(* VirtIoNetDev::new: every rx buffer posted (receive_begin on a fresh    *)
(* queue returns tokens 0, 1, ..., asserted), then NET_QUEUE_SIZE buffers  *)
(* with their header filled pushed on free_tx_bufs.                        *)
Init ==
    /\ rx_buffers = [t \in Tokens |-> t + 1]
    /\ rx_desc = [t \in Tokens |-> t + 1]
    /\ free_tx_bufs = [i \in 1 .. QueueSize |-> QueueSize + i]
    /\ tx_buffers = [t \in Tokens |-> None]
    /\ tx_desc = [t \in Tokens |-> None]
    /\ rx_used = <<>> /\ tx_used = <<>>
    /\ stack_rx = {} /\ stack_tx = {}

(* Mutant: receive takes the slot but never calls receive_complete, so    *)
(* the descriptor stays with the device.                                   *)
ReceiveWithoutComplete ==
    /\ rx_used # <<>>
    /\ LET token == Head(rx_used) IN
         /\ rx_buffers[token] # None
         /\ rx_buffers' = [rx_buffers EXCEPT ![token] = None]
         /\ stack_rx' = stack_rx \cup {rx_buffers[token]}
    /\ UNCHANGED <<tx_buffers, free_tx_bufs, rx_desc, tx_desc, rx_used, tx_used, stack_tx>>

(* receive: poll_receive peeks the used ring (None: Err(Again), no       *)
(* change); rx_buffers[token].take() (None: Err(BadState), returning with *)
(* the used entry still in place, no change); receive_complete pops the   *)
(* entry and frees the descriptor; the buffer goes to the stack.          *)
Receive ==
    /\ rx_used # <<>>
    /\ LET token == Head(rx_used) IN
         /\ rx_buffers[token] # None
         /\ rx_buffers' = [rx_buffers EXCEPT ![token] = None]
         /\ rx_desc' = [rx_desc EXCEPT ![token] = None]
         /\ rx_used' = Tail(rx_used)
         /\ stack_rx' = stack_rx \cup {rx_buffers[token]}
    /\ UNCHANGED <<tx_buffers, free_tx_bufs, tx_desc, tx_used, stack_tx>>

(* transmit: transmit_begin posts the buffer (QueueFull: `?` returns and  *)
(* the buffer is dropped), then tx_buffers[token] = Some(tx_buf), over     *)
(* whatever the slot held.                                                 *)
Transmit(b) ==
    /\ b \in stack_tx
    /\ stack_tx' = stack_tx \ {b}
    /\ IF FreeDescs(tx_desc) = {}
       THEN UNCHANGED <<tx_desc, tx_buffers>>
       ELSE \E token \in FreeDescs(tx_desc) :
              /\ tx_desc' = [tx_desc EXCEPT ![token] = b]
              /\ tx_buffers' = [tx_buffers EXCEPT ![token] = b]
    /\ UNCHANGED <<rx_buffers, free_tx_bufs, rx_desc, rx_used, tx_used, stack_rx>>

(* Mutant: the capacity check rejects a packet that exactly fills the     *)
(* buffer.                                                                 *)
AllocTxBufferFull(size) ==
    /\ free_tx_bufs # <<>>
    /\ free_tx_bufs' = Front(free_tx_bufs)
    /\ stack_tx' = IF size + HeaderLen >= NetBufLen THEN stack_tx
                   ELSE stack_tx \cup {Last(free_tx_bufs)}
    /\ UNCHANGED <<rx_buffers, tx_buffers, rx_desc, tx_desc, rx_used, tx_used, stack_rx>>

(* alloc_tx_buffer: pop a free buffer (empty: Err(NoMemory), no change);  *)
(* if packet_len + header_len exceeds its capacity return InvalidParam,    *)
(* dropping the popped buffer; else hand it to the stack.                  *)
AllocTxBuffer(size) ==
    /\ free_tx_bufs # <<>>
    /\ free_tx_bufs' = Front(free_tx_bufs)
    /\ stack_tx' = IF size + HeaderLen > NetBufLen THEN stack_tx
                   ELSE stack_tx \cup {Last(free_tx_bufs)}
    /\ UNCHANGED <<rx_buffers, tx_buffers, rx_desc, tx_desc, rx_used, tx_used, stack_rx>>

(* recycle_rx_buffer: receive_begin posts the buffer first (QueueFull:    *)
(* `?` drops it); only then is rx_buffers[new_token] checked: if it is    *)
(* already Some the call returns BadState and drops the buffer the device  *)
(* now holds; else the slot takes it.                                      *)
RecycleRxBuffer(b) ==
    /\ b \in stack_rx
    /\ stack_rx' = stack_rx \ {b}
    /\ IF FreeDescs(rx_desc) = {}
       THEN UNCHANGED <<rx_desc, rx_buffers>>
       ELSE \E token \in FreeDescs(rx_desc) :
              /\ rx_desc' = [rx_desc EXCEPT ![token] = b]
              /\ rx_buffers' = IF rx_buffers[token] # None THEN rx_buffers
                               ELSE [rx_buffers EXCEPT ![token] = b]
    /\ UNCHANGED <<tx_buffers, free_tx_bufs, tx_desc, rx_used, tx_used, stack_tx>>

(* The loop of recycle_tx_buffer over s = [slots, desc, free, used]:      *)
(* while poll_transmit gives a token, take its slot (None: return          *)
(* BadState, leaving the entry), transmit_complete pops the entry and      *)
(* frees the descriptor, and the buffer is pushed on free_tx_bufs.         *)
RECURSIVE DrainTx(_)
DrainTx(s) ==
    IF s.used = <<>> \/ s.slots[Head(s.used)] = None THEN s
    ELSE LET token == Head(s.used) IN
         DrainTx([slots |-> [s.slots EXCEPT ![token] = None],
                  desc  |-> [s.desc EXCEPT ![token] = None],
                  free  |-> Append(s.free, s.slots[token]),
                  used  |-> Tail(s.used)])

(* recycle_tx_buffer, the whole loop in one step (with nothing sent it    *)
(* changes nothing).                                                       *)
RecycleTxBuffer ==
    /\ tx_used # <<>>
    /\ LET s == DrainTx([slots |-> tx_buffers, desc |-> tx_desc,
                         free |-> free_tx_bufs, used |-> tx_used])
       IN /\ tx_buffers' = s.slots
          /\ tx_desc' = s.desc
          /\ free_tx_bufs' = s.free
          /\ tx_used' = s.used
    /\ UNCHANGED <<rx_buffers, rx_desc, rx_used, stack_rx, stack_tx>>

(* The device fills a posted receive buffer with a frame, or sends a      *)
(* posted transmit buffer, and puts its token on the used ring.            *)
DeviceReceive(token) ==
    /\ token \in Posted(rx_desc, rx_used)
    /\ rx_used' = Append(rx_used, token)
    /\ UNCHANGED <<rx_buffers, tx_buffers, free_tx_bufs, rx_desc, tx_desc, tx_used, stack_rx, stack_tx>>

DeviceTransmit(token) ==
    /\ token \in Posted(tx_desc, tx_used)
    /\ tx_used' = Append(tx_used, token)
    /\ UNCHANGED <<rx_buffers, tx_buffers, free_tx_bufs, rx_desc, tx_desc, rx_used, stack_rx, stack_tx>>

Next ==
    \/ Receive
    \/ \E b \in Bufs : Transmit(b) \/ RecycleRxBuffer(b)
    \/ \E size \in PacketSizes : AllocTxBuffer(size)
    \/ RecycleTxBuffer
    \/ \E token \in Tokens : DeviceReceive(token) \/ DeviceTransmit(token)

Spec == Init /\ [][Next]_vars
-----------------------------------------------------------------------------
TypeOK ==
    /\ rx_buffers \in [Tokens -> Slot] /\ tx_buffers \in [Tokens -> Slot]
    /\ rx_desc \in [Tokens -> Slot] /\ tx_desc \in [Tokens -> Slot]
    /\ free_tx_bufs \in BoundedSeq(Bufs, QueueSize)
    /\ rx_used \in BoundedSeq(Tokens, QueueSize)
    /\ tx_used \in BoundedSeq(Tokens, QueueSize)
    /\ stack_rx \subseteq Bufs /\ stack_tx \subseteq Bufs

(* How many of the driver's and the stack's places hold buffer b. *)
Holders(b) ==
    Cardinality({t \in Tokens : rx_buffers[t] = b})
    + Cardinality({t \in Tokens : tx_buffers[t] = b})
    + Cardinality({i \in DOMAIN free_tx_bufs : free_tx_bufs[i] = b})
    + (IF b \in stack_rx THEN 1 ELSE 0) + (IF b \in stack_tx THEN 1 ELSE 0)

(* No buffer of the pool is lost or shared: through any sequence of        *)
(* receive, recycle, alloc, transmit and device completions, each of the   *)
(* 2 * NET_QUEUE_SIZE buffers is held by exactly one of the driver's       *)
(* slots, free_tx_bufs or the stack.  A dropped buffer (an error path that *)
(* returns with a popped or posted buffer in hand) shrinks the rx ring or  *)
(* the tx supply for good.                                                 *)
BuffersConserved == \A b \in Bufs : Holders(b) = 1

(* The driver's slots mirror the device's queues: a descriptor the device  *)
(* holds names the buffer the driver keeps under its token, and a filled   *)
(* slot is a posted descriptor.  So the device only writes into (or sends  *)
(* from) buffers neither the stack nor free_tx_bufs has, receive never     *)
(* meets BadState, and recycle_rx_buffer's late slot check never fires.    *)
SlotsMirrorQueues == rx_buffers = rx_desc /\ tx_buffers = tx_desc
=============================================================================
