# CoolFrost verification project

TLA+ models of the CoolFrost kernel (`src/`), model-checked by TLC on small
instances and, for the scheduler, the kernel heap, the VFS and the VirtIO driver,
proved by TLAPS for every value of the constants.

## The system

CoolFrost is a preemptive x86_64 kernel that runs on one CPU (the other
processors are started and then halt). The boot thread becomes the idle task and
runs the shell; the shell starts ring0 and ring3 tasks; ring3 programs reach the
kernel through `int 0x80`. Code behind an interrupt gate runs with interrupts
disabled, the shell and ring0 tasks run with them enabled, and no subsystem takes
a lock. So correctness rests on which stretches of code an interrupt can split; on
disk, on which writes a crash can separate; and in the drivers, on which of two
parties owns a ring entry. The models make those stretches, writes and hand-overs
their actions.

How the parts meet:

- **Scheduler** (`cpu/sched.c`, stubs in `cpu/interrupt.asm`): a pool of tasks,
  a run queue per priority, time slices, `want_schedule`. Every trap ends in
  `sched_irq_end`, which may switch tasks, TSS.RSP0 and CR3.
- **Processes** (`kernel/elf.c`, `cpu/vmm.c`, `cpu/syscall.c`): the shell loads a
  program into an address space of its own, submits it, and yields until it is
  DONE; then the shell frees the address space. `SYS_SBRK` grows its heap, on
  which `userland/umalloc.h` builds `umalloc` and `ufree`.
- **Kernel heap** (`libc/heap.c`, `libc/mem.c`): stacks, page lists and buffers.
- **VFS** (`fs/vfs.c`) over the drivers `fs/fat32.c`, `ext2.c`, `xfs.c`, `ntfs.c`:
  a mount table, and a descriptor table in every task.
- **Block drivers** (`drivers/ata.c`, `ahci.c`, `nvme.c`, `virtio_blk.c`) behind
  `blk_read` and `blk_write`, which is all the file systems see of a disk.
- **USB** (`drivers/xhci.c`, `usbhid.c`): boot enumerates the ports by waiting on
  the event ring; afterwards the timer interrupt polls the same ring for reports.
- **Network** (`net/*`, `drivers/e1000.c`): nothing runs in the background; the
  waiting loops of the `ping` and `dhcp` commands poll the card.
- **Input** (`drivers/keyboard.c`, `usbhid.c`, `mouse.c`, `ui/event.c`): interrupt
  handlers store one pending scancode for the shell and push events for programs.
- **Window manager** (`user/wm.c`, `user/window.c`): a ring3 task, the one
  consumer of the event queue while it runs.
- **Console and clock** (`drivers/screen.c`, `drivers/clock.c`, `cpu/rtc.c`).

`PROJECT.json` lists every part with its status under `components`, and under
`hazards` what can go wrong in it that a test would hardly reach.

## Modules

| Module | Models | Source |
|---|---|---|
| `Sched` | tasks, run queues, slices, traps, submission | `cpu/sched.c`, `cpu/interrupt.asm`, `cpu/isr.c`, `cpu/timer.c`, part of `cpu/syscall.c` |
| `SchedProofs`, `SwitchProofs` | proofs about `Sched`: invariants, switches | |
| `Process` | exec, address spaces, `SYS_SBRK`, composed with `Sched` | `kernel/elf.c`, `cpu/vmm.c`, `cpu/syscall.c`, `kernel/kernel.c` |
| `Fat32` | the FAT32 driver on a disk that fails and crashes | `fs/fat32.c` |
| `Ext2` | the ext2 driver on a disk that fails and crashes | `fs/ext2.c` |
| `BlockDevice` | what `blk_read` and `blk_write` promise: the abstract specification of a disk | `drivers/ata.c`, `ata.h` |
| `DriverState`, `BlockCalls` | state and interface that the drivers share | `drivers/ata.c` |
| `Nvme`, `Ahci`, `VirtioBlk`, `Ata` | each driver together with its controller | the driver of that name |
| `Storage` | the four behind `blk_read`/`blk_write`, refining `BlockDevice` | `drivers/ata.c` |
| `Usb` | rings, enumeration, HID endpoints, the timer's poll | `drivers/xhci.c`, `usbhid.c` |
| `Devices` | a machine with a disk controller or an xHCI one | |
| `Peers`, `E1000`, `Net` | the other machines, the card, the stack | `net/*.c`, `drivers/e1000.c` |
| `EventQueue`, `Input` | two keyboards, the line editor, key events | `drivers/keyboard.c`, `drivers/usbhid.c`, `ui/event.c` |
| `Heap` | the bitmap allocator, `kmalloc`, `kfree` | `libc/heap.c`, `libc/mem.c` |
| `Umalloc` | `umalloc`, `ufree` | `userland/umalloc.h` |
| `Clock` | reading the CMOS clock, the 1024 Hz interrupt, the calendar | `drivers/clock.c`, `cpu/rtc.c` |
| `Console` | both screens, the UTF-8 decoder, the echo of the line editor | `drivers/screen.c`, `drivers/keyboard.c` |
| `VFS` | mounts, descriptors, path resolution | `fs/vfs.c` |
| `Desktop` | mouse packets, window manager | `drivers/mouse.c`, `user/wm.c`, `user/window.c` |
| `Services` | `Heap`, `Umalloc`, `Console`, `VFS`, `Ext2` and `Desktop`, which share no state, in one specification | |
| `Peripherals` | `Input` or `Clock`: devices that interrupt the code that reads them | |
| `HeapProofs`, `VFSProofs` | proofs about `Heap` and `VFS` | |
| `VirtioProofs` | proof that `VirtioBlk` in `Storage` implements `BlockDevice` | |

`MC*.tla` give the constants their values. Operators placed just before a
definition and used nowhere are wrong versions of it; replacing the definition by
one of them shows that a property notices.

### Sched

`state`, `priority`, `timeslice`, `is_user`, `cr3`, `stack` and `rsp` are the
fields of `task_t`; `rq`, `cur`, `want_schedule`, `task_count`,
`scheduler_active` and `user_stack_next` are the statics of `sched.c`. `cpu` is
the running context: the kernel stack it is on, and its point in the code
(`user`, `poll`, `kernel`, `yield`, `exiting`, `exited`, `dead`). An action is
one stretch no interrupt can split: a handler with the `sched_irq_end` at its end
(`TimerIrq`, `DeviceIrq`, `UserFault`, `SysExit`, `SysYield`), a `cli` section
(the three submissions), or one store of code that runs with interrupts enabled
(`YieldRequest`, `ExitDone`, `ExitWant`, ...). `SYS_EVENT_POLL` takes two actions
because `event_poll` ends in an unconditional `sti`. Kernel stacks are numbered in
the order they are allocated, since they are never freed.

### Process

Extends `Sched`; the shell is the idle task and moves only while `cur = Idle`, so
tasks run between any two of its steps. `spaces` maps a PML4 address to the pages
it owns, its page tables and its mappings; `shell` is the command in progress, its
step, its slot and its page. `elf_exec` is one action per page and per error exit,
and one per store after the submission. `SYS_SBRK` runs behind a gate and is one
action, with the partial mapping of a failed allocation as its own alternative.

### Fat32 and Ext2

A call computes, from the disk (and the FAT cache), the list of writes it will make
(`op`), and the writes are made one action at a time; between any two, power may be
lost (`Crash`) or the write may fail, which takes the code's own error path: in
`Ext2` each write carries how the call goes on when it fails. In `Fat32` a read may
fail too. `fat32_next_cluster` answers "end of chain" when it cannot read the FAT,
so a call goes by one of the `Lookups`: the cache, or the cache with one link
missing. `cut` remembers the files that a call has cut off in this way. What is kept
of a sector or cell is which file wrote it and as which of its cells, so that
reading a file back can be compared with what was written. In `Fat32` the cache may
differ from the table after a write that reached the first copy only. In `Ext2` the
bitmaps, the group counters, the inodes, the pointer blocks and the directory blocks
with their variable-length records are separate parts of the disk; metadata block
writes are taken to be atomic. `torn` marks a volume that a fault has left in a
state the code makes no promise about; `stray` one where a full volume has leaked a
pointer block.

### The disks

Each driver module has the driver's steps and those of its controller, over memory
both can reach (`mem`): `Nvme` has two pairs of rings with doorbells and phase bits,
`Ahci` one command slot polled with a tick count, `VirtioBlk` one descriptor chain
with 16-bit indices that wrap, `Ata` byte registers, programmed I/O, the two command
forms on either side of the 28-bit limit and the flush. Controllers answer, fail a
command after any number of its sectors, or fall silent for good (`DeviceDies`).
`Storage` puts one of them behind `blk_call` and shows with
`BD == INSTANCE BlockDevice` that it implements the abstract device: a read that
returns 0 returns what the disk holds, a write that returns 0 has stored every
sector, a call that returns -1 may have stored any part of its own sectors and no
other. `posted` weakens this for ATA, whose last sector is never acknowledged.

### Usb

The command ring, an EP0 ring per slot, a ring per HID device and the event ring,
with cycle bits and link TRBs as in the code. Boot's `probe_port` and `usbhid_init`
are steps that queue TRBs and wait on the event ring; the timer's `usbhid_poll`
takes events from the same ring once there is a HID device. The controller consumes
TRBs in order, up to `Lag` behind, and commands and transfers may fail.

### Net

`net` is the set of frames sent to the machine; any of them may arrive any number of
times, in any order or never: offers, acknowledgements and refusals of several
servers and attempts, with a mask and a router or without. `net_poll` reads one
frame and runs its handler whole; that of DHCP takes the options a message has,
whatever its type. A handler that must resolve an address starts a loop of its own
inside `net_poll`: `nest` is the stack of those calls. The configuration and the
offer are kept as the server each value came from.

### Input and Desktop

`Input` has `kb_callback` a byte at a time, USB reports, and the readers `getline`
and `get_cur_scancode` in two steps, read and clear, because they run with
interrupts enabled. Events in the queue are only "old" (pushed before the program
started) or "new"; what a program will believe of the keys after polling all of
them is kept in `seen`. `text` is an ideal editor beside the buffer. `Desktop` has
PS/2 packets byte by byte (a byte may be lost), injected USB motion, the edges from
the shared `last_buttons`, and the window manager: pools, z-order with its `next`
and `prev` pointers, drags, close, exit and restart. A click may hit any part of
any window; positions are left out.

### Heap and Umalloc

`bm` is the bitmap, `live` the allocations with their owners' addresses. There is
no length in the bitmap: an allocation is a maximal run of one id. The back pointer
and the alignment padding are arithmetic on byte offsets, as in the code. The scan
loop is specified by `FirstFit`, and `MCServices` has the loop itself. In `Umalloc`,
`blk` holds the headers with their `next` links, and the free list is walked through
them; a header that a merge has swallowed is dropped.

### Clock and Console

`rtc_read_datetime` is one action per port access, so a second may turn, and the
interrupt may come, between any two; the chip's registers are in any of its formats.
`datetime_add_ms` is compared with a count of days. `Console` has a VGA and a
framebuffer screen whose cells hold code points; offsets keep the code's fixed
`MAX_COLS`, also on a wider framebuffer. No other task is assumed to print while
`getline` waits.

### VFS

`mount_table` and `fd_table` as in the code; a node carries a copy of the size and
the root it was found under. Paths are sequences of names; drivers are seen as the
VFS sees them. Tasks start and end in slots, and `SYS_EXIT` closes nothing.

## Runs

`tlc -config <cfg> <module>`; every run ends in a few minutes on two cores.

| Run | Config | Checks | Shows |
|---|---|---|---|
| `sched` | `MCSched` | `TaskPlacement`, `ContextIsCurrent`, `PendingSwitchWindow`, `TimesliceLive`, `SwitchesRight`, `ReadyRuns` | no task is lost, queued twice or resumed after it is done; the CPU runs the current task's own context; switches respect priorities, and a ready task gets the CPU unless a more urgent one holds it back |
| `process` | `MCProcess` | `MemorySound`, `PromptHoldsNothing`, `ShellWaits`, `KeepsItsPages`, `ShellReturns` | no address space is freed while it can be loaded, no error exit leaks, `SYS_SBRK` keeps its promises, the prompt comes back |
| `fat32` | `MCFat32` | `ChainsSound`, `OwnData`, `NothingLost`, `DefragKeepsFiles` | chains survive a crash or a failed read or write anywhere; so do the contents of files no failed FAT read has cut off, and a file being moved once its whole chain has been counted |
| `devices` | `MCDevices` | `DriversKeepPromise`, `CallReturns`, `UsbSound` | each disk driver implements `BlockDevice`, every call returns; the USB rings stay in step with the controller and each device is recorded under its own slot |
| `net` | `MCNet` | `RxInOrder`, `PingAnswered`, `AddressGiven`, `CommandEnds` | frames are read in the order they arrived, a ping succeeds only on a reply to itself, an address in use was given by its server, commands end |
| `peripherals` | `MCPeripherals` | `TakenOnce`, `LineIsText`, `NoStuckKeys`, `ReadTrue`, `TicksExact` | keystrokes are taken at most once, the line is right, keys do not stick; the date read is one the chip showed and every tick adds a millisecond |
| `services` | `MCServices` | `AllocationsApart`, `ScanIsFirstFit`, `HeapTiled`, `DecodesExactly`, `EchoIsLine`, `DescriptorsSound`, `UmountTakesVisible`, `Ext2BlocksOwned`, `Ext2OwnContents`, `Ext2AccountsExact`, `Ext2DirectoriesSound`, `ZOrderSound`, `DragIsLive` | both heaps hold exactly what their owners have; bytes are decoded as UTF-8 says and the echo is the line; no descriptor outlives its mount or passes to another program; on ext2 no block has two owners or is free while owned, files read as written, records tile their blocks and links cover names after a crash or a failed write, and without faults the bitmaps and counters are exact; the window list is sound and drags end |
| `exec_heap_race` | `MCProcessExec` | `ExecdHasHeap` (violated) | finding 1 |
| `fat32_leak` | `MCFat32Leak` | `NothingLeaksOut` (violated) | finding 2 |
| `fat32_defrag_cut` | `MCFat32Defrag` | `LeftAsItWas` (violated) | finding 5 |
| `input_shared_queue` | `MCInputKeys` | `ProgramKeysOnly` (violated) | finding 3 |
| `usb_hid_ring` | `MCUsb` | `LinksKept` (violated) | finding 4 |

### Bounds

- `sched`: three slots, two levels with quanta 1 and 2, four stacks. Three tasks
  are enough for one to run, one to be requeued behind another, and one to be
  DONE; the fourth stack lets a slot be reused. `ReadyRuns` excepts a task with a
  live one above it, because a busy level starves those below it by design.
- `process`: two slots, so a second task runs beside the process; two address
  spaces, one after the other; a window of seven pages over two page tables, with
  a budget of ten owned pages that a large program plus its heap exceeds, so that
  every allocation can fail. `PageSize` is 2 so that a break can lie inside a page.
- `fat32`: six clusters of two sectors, two directories, one name, two files of up
  to three sectors in the life of the volume, one fault. One fault at a time is what
  the properties claim anything about. A file of two clusters is too short for a
  missing link to cut anything off it in a defragmentation: `fat32_defrag_cut` has
  files of three clusters, of one sector each, in seven clusters. The four properties
  of `fat32` hold there as well (12.6 million states, which take ten minutes).
- `devices`: three sectors on both sides of the 28-bit limit (a register has two
  values), transfers of up to three sectors with buffers of two, rings of two
  entries and indices modulo 3, so every ring wraps. No call follows the one that
  found the controller dead. For USB: two ports, a command ring of four and an event
  ring of ten TRBs, which wrap; one failing command or transfer; two reports, and
  four in `usb_hid_ring`, one more than the HID ring of four takes before its link.
  `XferRing` is large enough not to wrap, as 64 TRBs are for one enumeration.
- `net`: a host on the link, one behind the gateway, two DHCP servers, of which one
  has a mask and a router to give; receive ring of three, transmit ring of two, a
  cache of two entries that must evict; four arrivals (a frame the card sends late
  counts as two), two commands, nothing arriving after the last. The start is boot,
  or the prompt after a first lease. `CommandEnds` rests on the bound on arrivals:
  each echo request of a host that does not answer ARP nests one more loop, and an
  endless stream of them would nest the loops, and use up the stack, without end.
- `peripherals`. Input: a queue of two events, a PS/2 keyboard with two extended keys
  and enter, a USB keyboard with shift, a letter and backspace and two keys of
  rollover, a line buffer of four. Four is the least for which an insertion in the
  middle shifts two cells, so the direction of the shift shows. Clock: turns of a
  second that carry into a century, into and past the end of February and across noon,
  four register formats, three interrupts, two "milliseconds" to a second
  (`MsPerSecond`).
- `services`. Heap: eight or nine slots of eight bytes, of which the bitmap takes
  some; sizes 7 and 8 with a one-byte back pointer fall on both sides of a slot
  boundary; ids modulo 6, so they wrap and meet a neighbour's. User heap: forty bytes,
  requests below and above the least growth. Console: three columns (`MAX_COLS`) and
  two rows, a framebuffer of that width and a wider one, lines of two characters,
  three calls, lead bytes of all lengths. VFS: two volumes with different drivers, a
  mount path below another, two mount slots (so the same path can be mounted twice),
  two descriptors, one slot used by two programs after each other, one structure in
  each driver's pool. ext2: two groups of seven blocks and three inodes, one direct
  pointer and a pointer block of two, so a file of five cells reaches the last
  pointer; names of two lengths whose records fill a directory block, three calls, one
  fault. Desktop: three windows (head, middle and tail of the list), three surfaces, a
  queue of two events, one mouse button, the key that ends the WM.

`sched` and `process` are checked for deadlock. The others may stop: files,
faults, calls, commands or interrupts are used up, and an AHCI call made with
interrupts disabled on a dead port hangs, as the code does.

### Fairness

- `Sched!FairSpec`: weak fairness of `TimerIrq`. Every context the code returns to
  has interrupts enabled, so the periodic timer is served again and again.
- `Process!ProcFairSpec`: also strong fairness of the shell's step and of ring0 code
  that has begun a yield, an exit or the end of a poll (a context that gets the CPU
  again and again executes its next instruction), and of the end of each task.
  The last is an assumption about programs, not about the kernel: a program that
  never exits never gives the prompt back.
- `Storage!Fairness`: weak fairness of the driver's step and of a controller that is
  not dead. The driver polls without giving up the processor, and its loops are
  finite; `CallReturns` excepts an AHCI call made with interrupts disabled.
- `Net!Spec`: weak fairness of the stack. The command runs in the shell, its loops
  count ticks, and the ticks keep coming.

`fat32`, `peripherals` and `services` check safety only and assume no fairness.

## Proofs

`SchedProofs` proves, for every number of slots, levels, stacks and address spaces
and every quantum (from `SchedConstants`: at least one slot and level, positive
quanta, levels in range, a shared PML4 that is no private one):

- `TypeCorrect`: `Spec => []TypeOK`
- `NoTaskLost`: `Spec => []TaskPlacement`
- `CurrentContext`: `Spec => []ContextIsCurrent`
- `PendingOnlyInYield`: `Spec => []PendingSwitchWindow`
- `SliceNeverWraps`: `Spec => []TimesliceLive`

All five follow from one inductive invariant, `IInv` (`Invariance`). It is the
conjunction of the five with four facts none of them implies: before `sched_run`
only the idle task runs (`ActiveFirst`); a context in ring3 belongs to a ring3 task
(`RingOK`), without which a trap could not be shown to land on the current task's
stack; stacks are handed out in increasing order (`StackOrder`), so that a new one
is nobody's; slots above `task_count` are FREE (`FreshSlots`), so that
`find_free_slot` never takes a live one.

The argument follows `sched_irq_end`. `QueueHasRoom` is the counting step: a queue
without repetitions that misses a task has fewer than `MAX_TASKS` elements, so
`rq_push` never drops one. `PushOK` and `PopOK` say what the two queue operations
do to placement, `PickNextOK` and `SwitchOK` follow the scan and the switch, and
`IrqEndOK` puts them together once for all handlers. Then there is one lemma per
action, and `NextOK` collects them.

`SwitchProofs` adds `SwitchesAreRight`: `Spec => SwitchesRight`, an action property.
`IInv` alone does not give it: that `sched_exit` never comes to its `hlt` loop needs
`ExitIsFinal` (the task inside `sched_exit` is DONE, and no frame that may be resumed
is inside it). `PickNextTop` shows that the scan takes a most urgent READY task, and
`Handed` is what each handler must pass to `sched_irq_end` for the rest to follow.

`HeapProofs` proves `AllocationsStayApart`: `Heap_Spec => []AllocationsApart`, for
every arena, slot, word and page size, every set of request sizes and every id width
of more than five values (`HeapConstants`). Ids wrap, so two live allocations may
have the same id, and `k_heapBMFree` clears slots for as long as the id is the same.
The invariant (`Holds`) therefore says that the slot after a run never has the run's
id. It is kept because `GetNID` avoids the ids on both sides of the run it is given
(`GetNIDOK`, `NeighbourIds`), and a slot that is freed becomes 0, which is no id. The
arithmetic of the pointers (`AlignUpOK`, `PointerInside`) is proved separately.

`VFSProofs` proves, for every number of mounts, descriptors, tasks and volumes and
every set of paths (`VfsConstants`):

- `DescriptorsStaySound`: `vfs_Spec => []DescriptorsSound`
- `UmountIsOfVisible`: `vfs_Spec => []UmountTakesVisible`
- `OneRootPerMount`: `vfs_Spec => []RootsDistinct`

`DescriptorsSound` is not inductive. `vfs_umount` closes the descriptors under one
root: that this closes nothing of another mount is `RootsDistinct`, and that a new
mount's root is nobody's is `MountsBacked` (the root of an active mount was handed
out by its driver's pool, which never takes one back).

`VirtioProofs` proves `VirtioKeepsPromise`: `vblk_Spec => DriversKeepPromise`, where
`vblk_Spec` is `Storage` with a VirtIO drive, for every set of sectors and words,
every transfer length and every ring index width of at least two values
(`BlockConstants`, `VirtioConstants`). The invariant names the four situations a
request goes through. `Quiet`: all five indices agree. `Waiting`: the chain holds the
call and the available index is one ahead. `Answered`: the device has caught up, and
status 0 means the call was carried out. `GivenUp`: the device is dead and no call
follows. A refused call, a timeout and a status other than 0 are `BD!Fail`, status 0
is `BD!Succeed`, the device's writes are `BD!Store`; every other step stutters. What
the model assumes of the device (it answers in time or is dead; see Observations)
the theorem assumes too.

Only model-checked: the refinement of `BlockDevice` by the other three drivers, and
the properties of `Process`, the file systems, USB, network, input, clock, console
and desktop. Out of the prover's reach and left to TLC: liveness (`ReadyRuns`,
`ShellReturns`, `CallReturns`, `CommandEnds`), `ScanIsFirstFit`, and what the
recursive operators of `Umalloc` and `MCServices` compute.

## Findings

1. **A process can run without its heap** (`exec_heap_race`). `elf_exec` submits the
   task and stores its heap fields afterwards, with interrupts enabled; a tick in
   between gives the process the CPU, and `SYS_SBRK` answers -1. `cpu/sched.h:78`
   says 0 means "no heap (not an exec'd process)".
2. **Old disk contents can show in a file** (`fat32_leak`). The first cluster of an
   empty file is not zeroed, and bytes are counted before the write that stores
   them; when that write fails, the size covers what another file left there.
   `fs/fat32.c:554` says this "must never" happen.
3. **Programs see keys the shell has handled** (`input_shared_queue`). The comment at
   `kernel/kernel.c:877` has the shell read through the event queue; it does not.
4. **The HID rings lose their link** (`usb_hid_ring`). They are `HID_RING_SZ` = 16
   TRBs long, but `ring_enqueue` wraps at `XHCI_RING_SIZE - 1` = 63
   (`drivers/xhci.c:122`): the sixteenth report's TRB overwrites the link.
5. **Defragmentation can cut a file short** (`fat32_defrag_cut`). A link that cannot
   be read while the chain is counted ends it (`fs/fat32.c:96`); the part before it is
   copied and becomes the file. `fs/fat32.c:1062` says that on an I/O error "the file
   is left exactly as it was".

## Observations

Met while modelling; they have no run of their own.

Files and disks:

- A FAT32 move whose second write fails returns -6 and leaves both entries
  (`fs/fat32.c:890`); the comment at line 849 says "never a half state".
- `ext2_defrag` never tests `write_supported` (`fs/ext2.c:1377`), so `defrag` also
  moves files of a volume that `ext2_mount` found unsafe to write (lines 1454-1462).
- `fat32_unlink` frees the chain before it erases the entry: a crash in between
  leaves an entry that points at free clusters. Each lookup of a FAT32 file makes a
  node with its own copies of size and first cluster, so two descriptors of one
  file, or one of a file that is moved, write through stale copies. The model keeps
  a file open once and unremoved while open, as the shell and the programs do.
- `fat32_write` looks for the tail of a chain in the way of finding 5, and links the
  new run over the link it could not read: the rest of the file is gone
  (`fs/fat32.c:588-592`, 626), though the comment at line 541 says "the untouched
  bytes have to survive the round trip". `OwnData` leaves out such files (`cut`).
- `fat32_create` after a lookup that failed to read the directory makes a second
  entry of the name (`fs/vfs.c` calls it on any miss), and a directory whose chain is
  cut off while it grows loses its later entries. On a volume so large that
  "cluster" `FAT32_EOC` has an address on the disk, freeing a chain after a failed
  read (`fs/fat32.c:1128`) would write there; the model's disk ends before it.
- On a full ext2 volume a write may take a pointer block and lose it. A crash inside
  `free_block` leaves a group counter too low, and the subtraction at
  `fs/ext2.c:310` can then wrap. A create writes the entry before the inode.
  `alloc_block_run` says it looks for the longest run over all groups; it returns
  the best run of the first group that has a free block.
- Commands given up after a polling loop are not withdrawn: an answer that comes
  later is taken for the next command's (`nvme.c:147`, `ahci.c:183`,
  `virtio_blk.c:119`). The models exclude this: a controller that is not dead
  answers in time. An AHCI port that met an error is never restarted. The last
  sector of an ATA write is not acknowledged and a busy drive may ignore the flush
  (`ata.c:250`). A 28-bit ATA transfer that straddles the limit is assumed to count
  on or to fail. All VirtIO drives share one static queue; one drive is modelled.

USB and input:

- `control_xfer` asks for an event on both the data and the status stage and waits
  for one (`xhci.c:259-273`): the next transfer returns on the event left over, and
  the recorded vendor and product can be stale. `UsbSound` claims slot and port only.
- The timer's poll can take events boot is waiting for, and `wait_event` a report
  event, whose endpoint is then never armed again.
- After the prefix E0, `keyboard.c:201` tests the pending scancode and not the byte
  received, so another extended key can push an arrow again.
- `mouse.h` says an injected `dy` points down; `mouse_inject_delta` subtracts it.
  `user/wm.c` says the taskbar is in creation order; its buttons follow the reverse
  z-order, which each raise changes.

Network:

- Mask and router are stored only from messages that have them and are never reset
  (`dhcp.c:48-51`, 138-140): the address of one server can be used with the mask or
  the gateway of another, or of an earlier lease. The transaction id is a constant,
  so an acknowledgement of an earlier attempt, read while the next waits for an
  offer, counts for that one (`dhcp.c:82`): an address can be used that was only
  offered. `AddressGiven` claims neither.
- The hardware address in a DHCP message is not compared, and a refusal is not
  noticed: only its server identifier is taken (`dhcp.c:74`), and a request can then
  name one server and the address of another.
- The receiver of an echo reply is a pointer into `eth_rx_frame`, and the reply a
  static buffer; frames polled while the address is being resolved overwrite both
  (`icmp.c:38`). The model reads both when the packet is built, as the code does.
- After a transmit timeout and a late transmission the next tail equals the old one,
  and nothing is sent again (`e1000.c:260`); commands still end.

Clock and console:

- An interrupt between the two port accesses of `cmos_read` leaves register C
  selected, and the value read is C's; only the seconds are compared
  (`clock.c:26-37`), so another field can be wrong. `ReadTrue` and `TicksExact`
  claim nothing after that.
- `getline` takes `base_offset` once: when its line scrolls the screen the echo goes
  to the wrong cells. Offsets assume 80 columns, so on a wider framebuffer the
  columns from 80 on alias those of the next row. `EchoIsLine` is about lines that
  fit. `kprint_backspace` moves two cells.

## What is only assumed

Hosts and DHCP servers follow their protocols; the servers of a link give the same
mask and name themselves in every message. A read that fails leaves the buffer it
was to fill alone. Chips do in one step what their data sheets describe as one: a
turn of the second, a TRB, a block. Stores to a bit field are one step.

## Not modelled

- **NTFS and XFS**: read-only drivers, all decoding of a disk format; what they keep
  between calls, the pools, is part of `VFS`.
- **SMP bring-up**: the processors are started one at a time and halt.
- **Boot, GDT, IDT, paging, PCI, CPUID**: straight-line set-up of tables, done once
  before anything else runs.
- **Drawing, fonts, serial, sound, power**: output through ports and memory that
  nothing in the kernel reads back.
- **libc helpers**: stateless functions of full-width integers and strings, whose
  inputs are far beyond an enumeration.
- Within the modelled parts: reads that fail in ext2's lookups and directory scans
  (they end the call, append a directory block or leave blocks unfreed), the parsing
  of boot sectors and partition tables, extents and double indirect blocks, the
  register contents and names of tasks, positions and sizes of windows, checksums
  and header layouts, several drives on one controller, unplugging of USB devices,
  colours and glyphs.
