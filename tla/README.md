# TLA+ models of Chronix's memory management, kernel locks and network driver

This directory holds TLA+ models of the memory-management core of Chronix:
- the physical frame allocator;
- the frame tracker;
- the LoongArch user address space (`src/os/src/mm/vm/loongarch64.rs`), with the types and the permission filter of `vm/mod.rs`;
- the legacy RISC-V areas of `mm/vm_area.rs` (`VmArea`, `VmAreaFrameExt`);
- the kernel address types of `mm/address/kern.rs` and the LoongArch kernel space's translations, as pure operators;
- the byte placement of an ELF LOAD segment by `from_elf`, `map` and `copy_data`;
- the `SpinNoIrq` spin mutex (`sync/mutex/`) and the order in which the network poll paths (`net/mod.rs`) take their three locks on several CPUs;
- the VirtIO network driver (`drivers/net/virtio_net.rs`) as the owner of its packet buffers, between the device's virtqueues and the network stack.

It also inventories the rest of the repository and says why each part left out is not modelled. Every module is checked with TLC. `PROJECT.json` lists:
- the components, the runs and their properties;
- the mutants that show each property can fail;
- the source lines each definition translates;
- the findings and the hazards.

## 1. The system and its parts

| Part | Source | State it keeps | Operations |
|---|---|---|---|
| Frame allocator | `mm/allocator/frame_allocator.rs` | a bitmap over frame indices; `range` (PPN of index 0 = ceil(ekernel)) | `init`, `alloc_with_align`, `dealloc`, `Allocator::allocate/deallocate`, `frames_alloc(_clean)`, `frames_dealloc` |
| Frame tracker | `hal/src/component/common.rs` | a PPN run and its allocator | `new_in`, `leak`, `Drop` (dealloc) |
| User address space | `mm/vm/loongarch64.rs`, `mm/vm/mod.rs` | `UserVmSpace {page_table, areas, heap}`. Each `UserVmArea` has `{range_va, vma_type, map_perm, frames: vpn -> StrongArc<FrameTracker>}` | `from_elf`, `from_existed` (fork), `push_area`, `reset_heap_break`, `handle_page_fault`, `alloc_mmap_area`, `alloc_anon_area`. Per area: `map`, `unmap`, `copy_data`, `split_off`, `clone_cow`, `handle_page_fault` |
| Kernel address space | `mm/vm/loongarch64.rs:10-42` | none: `enable`, `new` and `push_area` do nothing | `translate_vpn`, `translate_va` (masks of the direct-map window). Not modelled: nothing changes state, and the masks are constants |
| Spin mutex | `sync/mutex/spin_mutex.rs`, `mod.rs` | one `AtomicBool`, interrupts masked while held (`SpinNoIrq`) | `lock` (test-and-test-and-set, gives up with a panic after 0x1000000 spins), guard drop |
| Network polling | `net/mod.rs` | locks `dev`, `iface` and the socket set | `poll`, `check_poll`, `add_socket`, `with_socket(_mut)`, `remove`, the `NetPollTimer` callback |
| VirtIO network driver | `drivers/net/virtio_net.rs` | `rx_buffers`/`tx_buffers` (a buffer per token), `free_tx_bufs`; the virtqueues of `VirtIONetRaw` (virtio-drivers crate) | `new`, `receive`, `transmit`, `alloc_tx_buffer`, `recycle_rx_buffer`, `recycle_tx_buffer`; called by the smoltcp `Device` wrapper, which is not in the repository |
| Task loop | `task/schedule.rs` | task status | `run_tasks` (depends on an executor that is not in the repository) |
| PLIC, clock, file systems, boot | `devices/`, `timer/`, `fs/`, `arch/`, `config.rs`, `hal/src/board` | device registers | I/O only |
| Kernel address arithmetic | `mm/address/kern.rs` | none | conversions between `KernAddr`, `KernPageNum` and `usize`, `page_offset`, `floor`, `ceil`, `to_phys`, `Add(Assign)`, `Sub(Assign)`, `Step`. No caller in the repository |
| Legacy RISC-V areas | `mm/vm_area.rs` | per area `range_va`, `map_perm`, `pages: vpn -> FrameTracker`; one page table | `map`, `unmap`, `shrink_to`, `append_to`, `set_perm(_flush)`, `set_perm_and_flush_allocated_frames`; user and kernel-stack areas own a frame per page, other kernel areas map linearly. No caller in the repository |

How the parts interact:
- Every user page is a frame taken from the frame allocator (`alloc_tracker(1)`). An area holds it through a `StrongArc<FrameTracker>`, and the frame goes back to the allocator when the last arc is dropped.
- Fork shares frames between parent and child and marks both sides copy-on-write (C).
- The fault handler either allocates a page lazily (heap, stack) or resolves a C page (copy, or demote when the faulting space is the only owner).
- `reset_heap_break` grows the heap lazily. It shrinks the heap by splitting off and unmapping the pages above the break.
- The allocator is behind a `SpinNoIrqLock`. Each page table belongs to one task, and no lock protects it (spec section 5).
- The network interface's `dev` lock (modelled in `NetPoll`) serialises the calls into the VirtIO driver; the driver and the device exchange buffers through the virtqueues, and the stack borrows buffers from the driver between `receive`/`alloc_tx_buffer` and `recycle_rx_buffer`/`transmit`.

### What is hard to test

These are listed per line in `PROJECT.json` "hazards":
- Call sequences that no test strings together: fork, then a write; fork, then brk in the child; brk past the stack, then a fault on the TrapContext.
- Running out of frames in the middle of exec or fork.
- Returning frames exactly once on every path (exec, exit, kill, shrink, replaced lazy frame).
- Unaligned breaks, and segment starts and ends, against `ceil`/`floor`.
- Lock order between CPUs in the network poll paths.
- Error returns of the network driver that drop a buffer the device or the driver still needs, and out-of-order completions by the device.

### What makes each part correct

- **Allocator:** a run handed out is free, contiguous and aligned, and dealloc frees exactly it (spec 4.1).
- **Address space:**
  - page table and areas agree both ways (spec 8);
  - a frame is free exactly when no area holds it (spec 8, conservation);
  - the memories of different processes are isolated, fork copies, and a write after fork is served by COW (spec 4.7, 4.8);
  - running out of memory is an error, not a panic (spec 7);
  - an ELF segment's bytes land at its virtual address (spec 4, `copy_data`);
  - areas are pairwise disjoint (spec 3, 8).
- **Network driver:** every pool buffer has exactly one holder, and the driver's token slots mirror the descriptors the device holds.

## 2. Modules

| Module | Models | State (VARIABLES) | Actions |
|---|---|---|---|
| `FramePool` | abstract allocator (spec 4.1) | `freePPN`, `held` | `Alloc`, `Free`, `Leak` |
| `FrameAllocator` | `frame_allocator.rs`, `FrameTracker` | `freeIdx` (set bits), `held` runs with their alignment, `leaked` | `FramesAlloc`, `Allocate`, `Dealloc`, `Leak`. The refused allocation (`None`/`AllocError`) is a stutter disjunct of `AllocWithAlign` |
| `AddressSpaces` | abstract promise of user memory | `alive`, `amem[s][vpn]` | `Write`, `Spawn`, `Load`, `Discard`, `End` |
| `UserVm` | `UserVmSpace`/`UserVmArea` | `live`, `used`, `areas`, `heap`, `pt`, `free`, `mem`, `panicked`, `segv` | `Fork`, `PageFault`, `Store`, `ResetHeapBreak`, `Exec`, `Exit` |
| `NetPoll` | `SpinMutex<_, SpinNoIrq>` and the lock steps of `net/mod.rs` | per lock `lock` (the `AtomicBool`); per CPU `op`, `pc`, `phase`, `held`, `irq`, `saved` | `Start`, `Spin`, `WaitUnlock`, `CasLock`, `Unlock`, `PollDelay`, `Finish` |
| `LegacyVmArea` | `mm/vm_area.rs` | `range`, `perm`, `pages`, `pt`, `free`, `panicked` | `Map`, `Unmap`, `ShrinkTo`, `AppendTo`, `SetPerm`, `SetPermAndFlush` |
| `KernAddr` | `mm/address/kern.rs`, the linear map's mask of `vm_area.rs` | the checked input `a` (never changes) | none: every function is an operator |
| `ElfCopy` | `from_elf` -> `push_area` -> `map` (Data arm) -> `copy_data` for one segment | the segment `start`, `memsz`, `filesz` (never changes) | none: the load is the operator `CopyData` |
| `VirtioNet` | `virtio_net.rs` and the virtqueue contract it relies on | `rx_buffers`, `tx_buffers`, `free_tx_bufs`; device `rx_desc`, `tx_desc`, `rx_used`, `tx_used`; stack `stack_rx`, `stack_tx` | `Receive`, `Transmit`, `AllocTxBuffer`, `RecycleRxBuffer`, `RecycleTxBuffer`; device `DeviceReceive`, `DeviceTransmit` |
| `MCFrameAllocator`, `MCUserVm`, `MCNetPoll`, `MCLegacyVmArea`, `MCKernAddr`, `MCElfCopy`, `MCVirtioNet` | model values and bounds | | |

### How `UserVm` corresponds to the code

- `areas[s]` is `UserVmSpace.areas`, 1-based. Each area is a record `[start, end, kind, perm, frames]`: `range_va`, `vma_type`, `map_perm`, and the `frames` BTreeMap as a function from VPN to PPN.
- `heap[s]` is the cached 0-based `heap` index. `pt[s][vpn]` is the leaf, `[ppn, perm]` or `NoPte`.
- `free` is the allocator's set bits, and `mem[ppn]` is the page content, abstracted to 0, `FileByte` or `StoreVal`.
- A `StrongArc`'s owner count is the number of (space, area, vpn) entries naming the frame (`Owners`). A frame is released when the last such entry disappears (`Released`, applied by `Commit` in every step).
- Helpers translate the methods one to one:
  - `MapArea` is `map`, including its C path and its eager Data/TrapContext path;
  - `CopyData` is `copy_data`;
  - `LoadSegs`/`FromElf` are `from_elf`;
  - `CloneCowPerm`/`CloneCowPt` are `clone_cow`;
  - `ForkArea`/`ForkLoop` are `from_existed`, including the TrapContext copy through both page tables;
  - `SplitOff` is `split_off` and `Unmap` is `unmap`; `ResetHeapBreak` shrinks with both. `split_off`'s `debug_assert!` rejects a split at the area's end (a break inside the last page of a page-aligned heap); the build profile is not fixed by the repository, so the model takes both outcomes, the panic (`split_off_debug_assert`) and the correct shrink;
  - `CanAccess` is `can_access`;
  - `AreaFault` is `UserVmArea::handle_page_fault`, COW and lazy branches.
- Each action is one whole operation: `PageFault` is the whole space-level handler, and `ResetHeapBreak` the whole of `reset_heap_break`.
- Where the code panics (`assert!`, `unwrap()` on allocation), the action sets `panicked` and changes nothing else. Every action requires `panicked = "none"`.
- An `Err` from the fault handler kills the process. The kill is recorded in the history variable `segv` and the space is dropped in the same step.

### How `LegacyVmArea` corresponds to the code

- Ranges are kept in page numbers: `new` rounds the range out to pages, and `shrink_to`/`append_to` set it from page numbers.
- `MapRange` is `map_range` as each area type implements it. User and kernel-stack areas use `MapRangeAndAllocFrames`: per page, `frame_alloc().unwrap()`, map, and insert the tracker, which drops an older tracker at that page. The other kernel areas use `MapRangeTo`, whose i-th page of the given range maps to the area's first physical page plus i.
- `UnmapRange` clears the leaves and, for framed areas, removes the trackers, freeing their frames.
- `PageTable` and `frame_alloc` are not in the repository. `map` is modelled as writing the leaf, `unmap` as clearing it, and `frame_alloc` as taking the lowest free frame.
- `copy_data` only writes memory through the table and is left out.

### How `NetPoll` corresponds to the code

- Each operation is the sequence of lock steps it performs (`PollScript`, `CheckPollScript`, `SocketSetScript`); `pc[c]` is the CPU's position in it. What the operation does under the locks (smoltcp) changes no lock and is left out.
- `lock` is `SpinMutex::lock`, split where another CPU can interleave: `Spin` is one iteration of `wait_unlock` while the flag is set; `WaitUnlock` leaves that loop and runs `before_lock` (`SieGuardNew`: push the interrupt state, mask); `CasLock` is the `compare_exchange`, which on failure drops that `SieGuard` and loops.
- `Unlock` is `MutexGuard::drop`: store false, then the guard's `SieGuard` drops and restores what it saved (`SieGuardDrop`). `saved[c]` is the stack of live `SieGuard`s on the CPU.
- `PollDelay` is `check_poll`'s match: the `Some(ZERO)` and passed-deadline arms take and drop a temporary `dev` guard; the future-deadline and `None` arms only add a timer. The deadline arithmetic is abstracted to a nondeterministic choice.
- `SieGuard` is in the hal crate, which is not in the repository; its restore-on-drop behaviour is modelled from its use in `SpinNoIrq` and marked `spec_modelled`.

### How `KernAddr` corresponds to the code

- Each function of `kern.rs` that computes a value is an operator of the same name. `usize` is `UsizeBits` wide, `PAGE_SIZE_BITS` is `PageSizeBits`, `VA_WIDTH_SV39` is `VaWidth`, and `KERNEL_ADDR_OFFSET` is the sign extension of bit `VaWidth - 1`, as `0xffff_ffc0_0000_0000` is for Sv39.
- A `-` that leaves `usize` panics in a debug build and wraps in a release build. The repository fixes neither, so `Outcomes` gives both. A shift left drops the bits it moves out (`% WordMax`), and `!` is complement within the width (`BitNot`).
- `Add`, `AddAssign`, `SubAssign` and `Step` only forward to `usize`'s own arithmetic, so they are not modelled: a property of them would check the standard library.
- The state is one input, an address (or page number) `a`. `Init` enumerates every value and `Next` never changes it, so an invariant is a check over all inputs. The properties compare the operators with plain integer arithmetic.
- `ToPhys` is `KernAddr::to_phys`. `LinearPpn` is the mask that `MapArea::map_range_to` (`vm_area.rs:332`) gives a linear kernel area: `vpn & !(KERNEL_ADDR_OFFSET >> PAGE_SIZE_BITS)`. `PhysTranslationsAgree` checks, for every kernel address, that the subtraction does not overflow and that it gives the page and offset the linear map gives. Its mutant is the mask of `KernPageNum::to_phys` (`kern.rs:36`), which lacks the `!`; the run rejects it on every kernel page.
- Four functions are recorded in `PROJECT.json` as hazards rather than modelled on their own:
  - `Sub` adds (`kern.rs:162`, `171`);
  - `KernPageNum::to_phys` masks with the offset instead of its complement, so it disagrees with `KernAddr::to_phys` on every kernel page (`kern.rs:36`). `PhysTranslationsAgree` states what it should agree with;
  - `to_phys` subtracts the sign extension that `KernAddr::from(usize)` has dropped (`kern.rs:72`, `103`);
  - `ceil` overflows in the last page (`kern.rs:67`).

  Each is visible at its line, and nothing in the repository calls the module.
- `get_ref`, `get_mut` and `get_slice` are raw-pointer casts.
- `KernVmSpace::translate_va` and `translate_vpn` of `loongarch64.rs` are two literal masks. Whether they agree depends only on the two constants, which a scaled model would have to choose, so they are not modelled.

### How `ElfCopy` corresponds to the code

- `Init` is one LOAD segment: `start` is `p_vaddr`, with `memsz` and `filesz`. File byte `i` is the value `i + 1` (`FileByte`), so it is never confused with the zero of a fresh frame.
- `Mapped` is `map`'s Data arm: a zeroed frame for each page of `floor(start) .. ceil(start + memsz)`.
- `CopyPages` is `copy_data`'s loop, with its early `break` once `start >= len`. It is `RECURSIVE` over the page number. `CopyData` is `push_area`'s map and copy.
- `vm_area.rs:128-145` has the same loop, so the result holds for the legacy areas too.

### How `VirtioNet` corresponds to the code

- A buffer is a number in `Bufs`, the `2 * NET_QUEUE_SIZE` buffers of the driver's `NetBufPool`. `rx_buffers`, `tx_buffers` and `free_tx_bufs` are the driver's fields, with `None` for an empty slot. Packet contents and lengths are not kept, except the length `alloc_tx_buffer` checks.
- The virtqueues of `VirtIONetRaw` are in the virtio-drivers crate. Each is modelled by its contract:
  - `rx_desc`/`tx_desc` is the descriptor table, token to buffer;
  - `rx_used`/`tx_used` is the used ring;
  - `add` (`receive_begin`, `transmit_begin`) takes any free descriptor, or fails with `QueueFull`;
  - `poll_receive`/`poll_transmit` peek the ring's head, and `*_complete` pops it and frees the descriptor;
  - the device (`DeviceReceive`, `DeviceTransmit`) completes posted descriptors in any order.
- `Init` is `new`. It posts every rx buffer (tokens 0, 1, ... as its `assert_eq!` demands) and pushes the tx buffers on `free_tx_bufs`. `new`'s own error returns leave no device and are not modelled.
- Each `NetDevice` method is one action, with all of its error returns:
  - `Receive`'s `Again` and `BadState` returns change nothing;
  - in `Transmit` and `RecycleRxBuffer`, a `QueueFull` from the queue drops the buffer, and `recycle_rx_buffer`'s late `BadState` check drops a buffer that is already posted;
  - `AllocTxBuffer`'s `InvalidParam` drops the buffer it popped;
  - `RecycleTxBuffer` is the whole `while let` loop (`DrainTx`, `RECURSIVE`), stopping early at a `BadState`.
- The caller, the smoltcp `Device` wrapper, is not in the repository. The model lets it call any method at any time with the buffers it holds, and asks `alloc_tx_buffer` for 1 byte or the `capabilities()` MTU of 1514. The calls are serialised by the interface's `dev` lock, so each call is one step.

### The fault environment

User code runs between kernel steps. A user store that the leaf allows writes the frame (`Store`). A read or execute the leaf allows changes nothing and is not an action. The hardware raises a fault (`HwFaults`) only when the leaf is absent, lacks U, or lacks the bit the access needs. So a fault that the code cannot receive is never fed to it.

Under this environment the COW branch of the handler is unreachable:
- `clone_cow` removes W from every writable area.
- A write to a C leaf lacks W in the area, and `can_access` refuses it before the COW branch.
- Reads and executes of a C leaf do not fault.

This is why `PageFault` is one action with the branches inside it rather than one action per branch. Run `user_vm_cow_write` shows the consequence.

### Abstracted, with the reason

- **Page contents:** one value per frame.
- **Addresses:** in units of 1/`PageSize` page, with `PageSize = 2`, so unaligned ends and breaks exist.
- **Intermediate page-table frames** (allocated by `PageTable::new_in` in the hal crate, which is not in the repository): not modelled.
- **The dirty bit:** not kept. Whether a clear D bit traps on LoongArch is decided by the hal's `PageTableEntry`, which is not in the repository.
- **Zero fill of a fresh frame:** `alloc_tracker` is in the hal. Spec sections 4.4 and 8 (scenario 1) say fresh pages read as zero, so `ZeroFill` and the lazy path zero the frame. These definitions are marked `spec_modelled`.
- **The allocator inside `UserVm`:** the bitmap's lowest-fit choice (`Lowest`, `Min(free)`). `FrameAllocator` checks the allocator itself.
- **Exec and exit:** `sys_execve`/`exit` are not in the repository. Exec builds a new space with `from_elf` while the old one still exists, then drops the old one. Exit drops the space.

## 3. Runs

| Run | cfg | Expect | Checks |
|---|---|---|---|
| `frame_allocator` | `FrameAllocator.cfg` | pass | `TypeOK`, `ImplementsFramePool` (refinement of `FramePool`, alignment included) with `BasePPN = 4`, 6 frames, `frames_alloc(1..3)`, layouts of size {0, 1, page, page+1} and align {1, page, 2 pages, 4 pages} |
| `frame_allocator_misaligned` | `FrameAllocatorMisaligned.cfg` | violation | same with `BasePPN = 5`: after a 4 KiB allocation takes PPN 5, an 8 KiB-aligned `allocate` returns PPN 7 |
| `user_vm` | `UserVm.cfg` | pass | `TypeOK`, `PageTableMatchesAreas`, `FrameConservation`, `ImplementsAddressSpaces` |
| `user_vm_cow_write` | `UserVmCowWrite.cfg` | violation | `WriteFaultOnCowServed`: fork, then the parent's write to its data page is refused and kills it |
| `user_vm_fork_brk` | `UserVmForkBrk.cfg` | violation | `BrkNeverPanics` (neither `reset_heap_break`'s assert nor `split_off`'s `debug_assert` trips): fork, then brk in the child asserts on `areas[0]` |
| `net_poll` | `NetPoll.cfg` | pass | `TypeOK` (at most one live `SieGuard` per lock), `MutualExclusion`, `IrqMaskedWhileHolding`, `SomeOperationCompletes` on three CPUs running `check_poll` and socket-set operations |
| `net_poll_lock_order` | `NetPollCheckPoll.cfg` | violation | `SomeOperationCompletes`: with `poll` (the timer callback) on one CPU and `check_poll` on another, each holds the lock the other waits for |
| `legacy_vm_area` | `LegacyVmArea.cfg` | pass | `TypeOK`, `PagesMapped`, `FrameConservation` over every sequence of operations on a user area, a kernel stack and a linear kernel area, with three frames |
| `kern_addr` | `KernAddr.cfg` | pass | `CanonicalRoundTrip`, `PageRoundTrip`, `PhysTranslationsAgree` over every 8-bit address |
| `virtio_net` | `VirtioNet.cfg` | pass | `TypeOK`, `BuffersConserved`, `SlotsMirrorQueues` with three tokens per queue (six buffers), over every order of stack calls and device completions |
| `elf_copy_unaligned` | `ElfCopyUnaligned.cfg` | violation | `PlacedAtStart`: a one-byte segment at VA 1 (4-byte pages) has its byte at VA 0 |
| `user_vm_brk_over_trap` | `UserVmBrkOverTrap.cfg` | violation | `PageTableMatchesAreas`: brk to 12 makes the heap cover the stack and the TrapContext. A fault on the TrapContext is then served by the heap, which replaces the TrapContext's leaf |

`ImplementsAddressSpaces` maps each live space's user-visible memory to `amem`:
- `amem[s][v]` is `mem[pt[s][v].ppn]` when the leaf is valid and has U, and 0 otherwise.

It shows:
- a store changes only the storer's memory (fork's downgrade of the parent's leaves is what keeps this);
- fork gives the child a copy of the parent's user-visible memory. The TrapContext page has no U, so its physical copy is outside `amem` and not checked here;
- exec loads the image;
- a heap shrink only discards pages;
- a lazy fault or a COW copy changes nothing a process can see.

Each property of a passing run has a mutant in `PROJECT.json`:
- `split_off` ending the left piece at a page number instead of an address;
- `unmap` of a lazy area leaving its page-table entries;
- a tracker drop that never deallocates;
- `clone_cow` leaving W on the parent's leaves;
- `dealloc` without subtracting `range.start`;
- an allocator that clears one bit fewer than it hands out;
- `map_range_highly` without the mask;
- `shrink_to` unmapping from one page too late;
- `unmap_range` dropping trackers without freeing their frames;
- a plain store instead of `compare_exchange` in `lock`;
- a failed exchange that keeps its `SieGuard`;
- a `SieGuard` drop that enables interrupts instead of restoring;
- a guard drop that forgets to clear the flag;
- the sign extension starting one bit value too high;
- `floor` shifting one bit too few;
- the linear map's page mask without its `!`, as `KernPageNum::to_phys` has it (`kern.rs:36`);
- `new` expecting the first rx token to be 1;
- `alloc_tx_buffer` rejecting a packet that exactly fills the buffer (`>=`);
- `receive` taking the slot without `receive_complete`.

TLC reports each of these as a violation of its property.

### Bounds

The `MCUserVm` layout has:
- a two-unit text segment (page 0);
- a one-unit data segment with an unaligned end (page 1);
- the heap from VA 4;
- the stack at page 4 and the TrapContext at page 5.

The stack sits directly below the TrapContext, as in `config.rs:21`.

Why these bounds are enough:
- **Spaces:** three, so that a fork of a fork and an exec after a fork happen.
- **Frames:** five, so that boot takes three and the next frames are contended between forks' TrapContext copies and lazy heap and stack pages. Running out is reached.
- **User addresses:** one per case the handler tells apart (`MCUserVAs`):
  - inside and beyond the data segment;
  - two heap pages;
  - the stack;
  - the TrapContext.
- **Break values:** below the heap start, unaligned, aligned, and up to the stack. Together they reach grow, shrink at an unaligned break, and ignore.

The passing `user_vm` run reaches 868,486 distinct states in about two minutes. Every action fires.

`MCLegacyVmArea` has a user area (pages 0-2), a kernel stack (4-5) and a linear kernel area (8-9, physical 0-1), with three frames, so that the areas run out of frames together and every operation meets mapped and unmapped pages. The passing run reaches 569,520 distinct states in about half a minute.

`MCNetPoll` has three CPUs for the passing run, so that two CPUs contend while a third holds an outer lock, and one socket-set operation (all four take the same single lock). The passing run leaves `poll` out because with both `poll` and `check_poll` the lock-order cycle is reachable; the violation run has both on two CPUs. The passing run reaches 3,078 distinct states.

`MCKernAddr` scales `usize` to 8 bits, pages to 4 bytes and the virtual width to 6 bits, so that kernel addresses are 224-255 and canonical user addresses 0-31. That has the same shape as 64-bit Sv39, where the conversions only look at the top bit and the page bits. Every one of the 256 addresses is checked, the 32 kernel addresses among them.

`MCVirtioNet` has `NET_QUEUE_SIZE = 3`, so six buffers. That lets a buffer of each kind be with the device, with the stack and with the driver at once, and lets the device complete three descriptors in every order. `HeaderLen = 12` is the virtio-net header that virtio-drivers fills in. `NetBufLen = 1526` is the `NET_BUF_LEN` of the network device module, which is not in the repository: it is the MTU plus the header, so the largest frame exactly fits. The run reaches 78,310 distinct states in a few seconds. Every action fires.

`MCElfCopy` has 4-byte pages, segment starts at every offset of two pages, and every memory and file size up to two pages. So aligned and unaligned starts, empty segments, BSS tails and segments across a page boundary all occur (360 inputs, all initial states).

### Fairness and deadlock

The memory-management runs check safety only. The code gives no progress guarantee that these models could rely on, so no fairness is assumed.

`NetPoll` assumes weak fairness of each CPU's own steps (`CPUStep(c)`): a CPU that holds a `SpinNoIrq` lock runs with interrupts masked and is not preempted, and a spinning CPU keeps executing its loop. Starting an operation is not fair: a CPU may stay idle. `Spin` is a stutter step, so fairness never forces a CPU through it, and a CPU that waits for ever is a real stop. No CPU-level fairness makes a waiting CPU win a contended lock, so the liveness property is that *some* operation returns, not that each one does. `NetPoll` is checked for deadlock: a CPU waiting on a lock still spins, and an idle CPU can always start.

The `UserVm` configurations say `CHECK_DEADLOCK FALSE`. A kernel panic halts the machine, and when the last process exits nothing is left to run, so both are real stopping states of the system. `VirtioNet` checks safety only. A property that a completed receive is eventually delivered would need weak fairness on `Receive`, and the repository does not give it: `poll_interfaces` runs only from `NetPollTimer`, and that timer is armed only by `check_poll`, which nothing calls (`net/mod.rs:169`, a hazard in `PROJECT.json`). `VirtioNet` is checked for deadlock: the device can always complete a posted descriptor, or the stack can hand back a buffer it holds. `KernAddr` and `ElfCopy` have no actions, and its `Next` is a stutter, so deadlock cannot occur. `FrameAllocator` is checked for deadlock: a refused allocation is a stutter step, so the allocator can always be called.

## 4. Findings

See `PROJECT.json` "findings". In short:
1. Fork breaks writes. After fork, every write to formerly writable memory kills the writer, and COW is never exercised (`mod.rs:317` against spec 4.7).
2. A forked child's cached heap index is 0, so its first brk panics (`loongarch64.rs:178`).
3. `copy_data` writes a segment's file bytes from the start of its first page, not from `p_vaddr` (`loongarch64.rs:297` against spec 4). A segment that is not page-aligned is loaded shifted. `map`'s unwrap of the allocation (a kernel panic on running out of frames, where spec 7 asks for NoMemory) is listed as a hazard.
4. `reset_heap_break` extends the heap without a bound, which lets the heap capture the TrapContext page.
5. The allocator aligns the bitmap index, not the PPN.
6. Legacy `vm_area.rs`: `append_to` on a linear kernel area maps the new pages to the wrong physical pages (`vm_area.rs:326`). `LegacyVmArea` models it, but the run that showed it gave its place to `virtio_net`, so it is now a hazard with a note. `set_perm_and_flush_allocated_frames` only ever adds flags (`vm_area.rs:196`), which is listed as a hazard: nothing states whether it should revoke.
7. `poll` takes `dev` before `iface` and `check_poll` takes `iface` before `dev` (`net/mod.rs:96-97` against `105-110`). A timer-callback `poll` and a `check_poll` on two CPUs spin on each other until the `wait_unlock` panic. No caller of `check_poll` is in the repository yet, so the inversion is latent in the API.

## 5. Not modelled

Left out, and why:
- `alloc_mmap_area` and `alloc_anon_area`. Both reach `todo!()` in `UserVmArea::map` for the `Mmap` and `Shm` types, and their signatures do not match the trait in `mm/vm/mod.rs`, so the code does not build as a whole. There is no behaviour to translate beyond the panic, which is recorded as a hazard (`loongarch64.rs:265`).
- the task loop. `run_tasks` is a loop over status checks, but every status change and wake-up it reacts to comes from `TaskControlBlock`, the signal code and the executor, none of which is in the repository. Its one visible hazard is listed in `PROJECT.json`: after `suspend_now` a stopped task returns to user space without re-reading its status (`schedule.rs:93`).
- the PLIC, clock and file-system fragments, because they are pure I/O;
