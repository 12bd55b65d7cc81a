# TLA+ models of xv6 (RISC-V, pgtbl lab)

Models of the xv6 kernel in `src/kernel`, of the shell, `init` and allocator in `src/user` and of
the image `src/mkfs` makes, checked with TLC on small instances, and TLAPS proofs, for every size,
of the safety of the log, the buffer cache, the disk driver, scheduling, the process table, pipes,
console input and inodes: the log is crash-atomic, no wakeup is lost, counts are exact.
`PROJECT.json` maps every definition to the lines it models and lists runs, mutants, hazards and
theorems.

To check: `tlc -config MCX.cfg MCX` for each module MCX; `tlapm M.tla` for each module
`XProofs` (from nothing, one minute for `ProcProofs`, less than ten for most, half an hour for
`InodeProofs`).

## 1. The system and its parts

xv6 is a small Unix kernel for several CPUs. Kernel code runs in processes and in interrupt
handlers; it synchronises with spinlocks (which disable interrupts on their CPU), sleep-locks,
and `sleep`/`wakeup`. From the bottom up:

| part | state | operations | what is hard about it |
|---|---|---|---|
| scheduling (`proc.c`, `spinlock.c`, `trap.c`) | lock owners, interrupt-enable and nesting per CPU, `p->state`, `p->chan`, `ticks` | `acquire`, `release`, `scheduler`, `sched`, `yield`, `sleep`, `wakeup`, `clockintr` | lost wakeups, two CPUs on one stack, interrupts inside critical sections |
| process table (`proc.c`) | slots, pids, parents, `killed` | `fork`, `exit`, `wait`, `kill`, `reparent` | exit racing wait, orphans, slot reuse |
| memory (`kalloc.c`, `vm.c`, `exec.c`) | free list, page tables, `p->sz` | `mappages`, `uvmalloc`, `uvmcopy`, `growproc`, `exec`, `freeproc` | every allocation may fail half way |
| user memory (`vm.c`, `exec.c`, `sysproc.c`) | page tables, accessed bits | `copyin`, `copyout`, `copyinstr`, `fetchaddr`, `pgaccess`, `loadseg`, `exec`'s stack | page boundaries, missing pages, alignment |
| virtio disk (`virtio_disk.c`) | descriptors, two rings, `disk.info`, `b->disk` | `virtio_disk_rw`, `virtio_disk_intr`, the device | the device works concurrently and out of order; indices wrap |
| buffer cache (`bio.c`, `sleeplock.c`) | buffers, reference counts, LRU list, sleep-locks | `bget`, `bread`, `bwrite`, `brelse`, `bpin`, `bunpin` | recycling, simultaneous misses, exhaustion |
| log (`log.c`) | on-disk header and blocks, in-memory header, `outstanding`, `committing` | `begin_op`, `log_write`, `end_op`, `commit`, recovery | a crash anywhere, recovery included; reservation of space |
| inodes and names (`fs.c`, `sysfile.c`) | inode table, link counts, directory entries | `open`, create, `link`, `unlink`, `close`, `iput` | freeing an inode while others look it up |
| directories and paths (`fs.c`, `sysfile.c`) | tree of directories, working directories, inode locks | `namex`, `create`, `mkdir`, `link`, `unlink`, `chdir` | lock order along a path; a directory removed under its users |
| file contents (`fs.c`, `file.c`, `mkfs.c`) | bitmap, block maps, sizes, offsets | `balloc`, `bmap`, `writei`, `readi`, `itrunc`, `filewrite` | failing copies, transactions of bounded size |
| open files (`file.c`, `sysfile.c`, `pipe.c`) | file table, descriptors, pipe ends | `open`, `pipe`, `dup`, `close`, `fork`, `exit` | reference counts on all failure paths; reuse of a `struct file` |
| pipes (`pipe.c`) | ring, counters, open ends | `pipewrite`, `piperead`, `pipeclose`, `kill` | sleepers on both sides, closing, wrapping counters |
| console output (`uart.c`, `printf.c`) | transmit buffer, device FIFO | `uartputc`, `uartstart`, `uartintr`, `uartputc_sync`, `panic` | two paths to the device, one without lock |
| console input (`console.c`) | edit buffer, `r`, `w`, `e` | `consoleintr`, `consoleread` | editing what a reader consumes; end-of-file; wrapping indices |
| shell and init (`sh.c`, `init.c`) | processes, descriptors, pipes, the line's tree | `parsecmd`, `runcmd`, `fork1`, the two main loops | a descriptor left open keeps a pipeline waiting; forks fail half way |
| user allocator (`umalloc.c`) | circular free list, break | `malloc`, `free`, `morecore` | joining at the ends of the list, chunks that are apart |

Traps and system-call entry, boot, formatting, the RAM disk and the other user programs are
discussed in section 7.

The parts interact as layers: `filewrite` (FileData) runs inside transactions (Log), which
pin buffers (BufferCache), which are filled by the driver (VirtioDisk), whose callers sleep
(Sched). Each model takes the layer below at the granularity which the layer's own model
justifies: BufferCache makes a disk transfer one step, which DiskService allows; Log treats
a buffer as one exclusive copy of a block, which BlockStore states; FileData makes a transaction
one step, which AtomicDisk allows as long as it logs few enough blocks (`TransactionFits`, the
hypothesis of `NeverPanics`); everything above Sched makes `sleep` atomic with the release of
its lock, which `NoLostWakeup` states.

## 2. Modules

For each component X, `X.tla` is the specification (constants, variables, `Init`, an action per
operation or critical section, `Next`, properties). `MCX.tla` and `MCX.cfg` are its instance, or one
module is the instance of two components that share no state: `MCTerminal` of Uart and Console,
`MCResources` of Vm and File, `MCFiles` of FileData and Dir, `MCUser` of Shell and Umalloc. In these
a variable `side` is chosen at the start and a behaviour is one of the one component or of the
other: the properties say which one they are about. `MCDir` is the instance of Dir alone (section
6). The actions bear the names of the C functions; where a function is cut at the points at which it
releases a lock, its parts are named after it and joined in an operator with its name (`iput ==
IputDrop \/ IputLock \/ ...`). Each module begins with what one step is. The "mutated forms" in a
module are plausible slips of the code; replacing a definition by its mutated form makes TLC report
the property named in `PROJECT.json`.

| module | code | abstract specification | state and actions |
|---|---|---|---|
| `Log` | `log.c` | `AtomicDisk`: current and stable contents, groups of whole operations commit, a crash returns to the stable contents | a block write is one step; `Crash` may come before any step; `Recycle` is `bget` taking an unpinned buffer |
| `BufferCache` | `bio.c`, `sleeplock.c` | `BlockStore`: one exclusively held copy per block, which forgets only changes that were released neither written nor pinned | a step per acquisition of `bcache.lock` or of a sleep-lock's spinlock |
| `VirtioDisk` | `virtio_disk.c`, device | `DiskService`: a request is carried out once between call and return | the interrupt handler is cut at every look at the used ring; the device takes in order, completes in any order |
| `Sched` | `proc.c`, `spinlock.c`, `trap.c`, `sysproc.c` | | a step per lock operation or context switch; interrupts wherever they are enabled |
| `Proc` | `proc.c` | | a step per section under `wait_lock` or `p->lock` |
| `Pipe` | `pipe.c` | `ByteStream`: a bounded FIFO with two ends | a byte per step, `pi->lock` held across steps |
| `Uart` | `uart.c`, `printf.c`, `console.c` | | LSR test and THR write are separate steps, with and without the lock |
| `Console` | `console.c` | | a typed character, or a character read, per step |
| `Inode` | `fs.c`, `sysfile.c` | | a step per section under `itable.lock` or between sleep-lock acquisitions |
| `Dir` | `fs.c`, `sysfile.c` | | what runs while a sleep-lock is held, or until the next is taken; the table of inodes is the pointers that exist |
| `FileData` | `fs.c`, `file.c`, `mkfs.c` | `ByteFile`: byte sequences without holes, every byte at the offset it was written to | a transaction per step; `copyin` fails where the caller's memory ends, in the middle of a block too; `Recycle` is `bget` taking a buffer with bytes that were never logged; `Init` is an image of `mkfs` |
| `File` | `file.c`, `sysfile.c`, `pipe.c`, `proc.c` | | a step between two acquisitions of `ftable.lock` or a pipe's lock |
| `Vm` | `kalloc.c`, `vm.c`, `exec.c`, `proc.c` | | a kernel call per step, with any number of successful `kalloc`s before one fails; the copy loops, `exec`'s checks and stack are operators on the page tables |
| `ShellParser` | `sh.c` | the grammar (`LineTrees` and below): the trees a sequence of tokens stands for | operators from `gettoken` to `parsecmd` |
| `Shell` | `sh.c`, `init.c`, the system calls they make | | a system call per step, or those up to the next that another process notices |
| `Umalloc` | `umalloc.c` | | a call per step, addresses in units of a header |

The proofs are in `LogProofs`, `BufferCacheProofs`, `VirtioDiskProofs`, `SchedProofs`, `ProcProofs`,
`PipeProofs`, `ConsoleProofs` and `InodeProofs` (section 5).

Data is abstracted to what the properties tell apart: block contents and bytes are model values,
a descriptor's address is what it points to, a printed character is its writer and ordinal, a byte
of user memory is its address modulo a small number, and `read` and `write` tell such bytes apart.
Whatever wraps in C (`ticks`, the pipe's and console's indices, the ring indices, `sz + n` in
`growproc`, `off + n` in `readi` and `writei`, a `uint64` address plus a length in `exec` and
`fetchaddr`) wraps at a small modulus given as a constant.

## 3. What the runs check

States and times are for two workers.

| run | instance | states | shows |
|---|---|---|---|
| `log` | 2 processes, 2 blocks, 2 values, `MAXOPBLOCKS` 4, `LOGSIZE` = log size 8, operations of at most 2 blocks | 103,516 (50s) | crash atomicity (`AtomicSpec`), no panic, sleepers wake |
| `bio` | 2 processes that hold up to 2 buffers each, 2 buffers, 3 blocks, 2 values, 1 pin | 52,087 (30s) | `StoreSpec`; `BuffersExact`: one buffer per block, exact reference counts, a panic only when every buffer is in use; sleepers wake |
| `virtio` | 3 processes, 1 sector, 2 values, 7 descriptors, rings of 2, indices mod 4 | 245,152 (1m) | `ServiceSpec`; descriptors accounted for; `NoLostSignal`: completions signalled, sleepers lack what they wait for |
| `sched` | 2 CPUs, 2 processes, ticks mod 3 | 359,063 (20s) | one CPU per stack and no panic, no lost wakeup, interrupt state restored, no deadlock |
| `proc` | 3 slots, 5 processes over time, `kill` of pids 0, 2, 3 | 26,640 (45s) | `SlotReuse`: no early free, unique pids, only the named are killed; `FamilySound`: living parents, no lost wakeup in `wait`; zombies reaped, unless init exits and panics |
| `pipe` | 2 processes, one with both ends and the other with either, 2 bytes, pipe of 2, counters mod 4 | 206,768 (1m20) | `StreamSpec`, freed once and only unused, reads and writes return (but for section 6) |
| `terminal` | output: 2 writers, 1 printer, buffer of 2, FIFO of 2, 2 characters each; input: 2 readers, buffer of 2, indices mod 4, reads of at most 2 | 127,346 (1m) | output complete and in order without overrun, all sent; committed input kept; a read that takes an end-of-file returns nothing, and no other read does; `InputDelivered`: no reader asleep on input, a full buffer is readable, a newline ends a read |
| `inode` | 2 processes, 2 names, 2 inodes, 2 table entries | 104,583 (40s) | `CountsExact`: exact links and references, coherent cache, nothing freed in use; `acquiresleep` under a spinlock never blocks, calls return |
| `resources` | memory: 2 processes, 20 pages of 16 bytes, 4 entries per table, three levels, 6 programs, 4 argument lists; files: 2 processes, 3 files, 2 descriptors, 1 pipe | 137,678 (1m40) | every page has one owner, exactly the pages below `sz` are mapped, no failure path panics; copies reach exactly the bytes asked for, `pgaccess` reports and clears exactly the pages asked for and panics exactly at those outside the address space; arguments apart in the stack page; exact references to files, pipe ends and inodes, a failed `open` closes nothing |
| `files` | contents: 2 processes on 1 file of 1 byte, blocks of 2 bytes, 1 direct and 3 indirect blocks, `MAXOPBLOCKS` 8; directories: 2 processes, 1 name, 4 inodes, links up to 3 | 421,912 (1m30) | `ContentSpec`: `read`, `write` and `open` are those of a sequence of bytes, and a failed copy leaves only what may be taken back; blocks accounted for, transactions of at most `MAXOPBLOCKS - 2` blocks; exact link counts, the directories a tree, no cycle of waits for inode locks |
| `user` | shell: 5 processes, 5 descriptors, 4 lines, typed while at most 2 processes are in the background; parser: every line of up to 5 of 8 tokens; allocator: 12 units, requests of 1, 3 and 8 bytes, headers of 2 | 451,155 (1m) | at a prompt the foreground is over, the shell is never kept from its prompt by processes that wait for one another; the parser accepts the lines of the grammar and builds their trees; blocks tile the heap, the list is sorted and merged |
| `dir_panic` | as the directories of `files` | violation (10s) | the finding of section 6 |

**Why the bounds are enough to be interesting.** `log`: 2 + 2 * 4 > 8, so a second operation waits
as soon as the first one has logged anything, and 2 is the largest operation for which this log is
safe; two blocks give absorption, partial installs and partial logs. With two blocks the log never
has so many that the panic "too big a transaction" could be reached: that no operation reaches it is
what theorem `NeverPanics` says, and only it. `bio`: three blocks in two buffers recycle on every
miss; a process that keeps one buffer locked while it takes another, as `bmap` does with an indirect
block and `balloc`'s bitmap, exhausts the cache with a pin or with a second one. `virtio`: seven
descriptors hold two requests and leave one over, so that allocation fails after taking a
descriptor, while the third process waits. `sched`: two CPUs and two processes give migration,
contention and preemption inside `sleep`. `proc`: init, a child and a grandchild; five pids reuse
both slots. `pipe`: the two ways a parent and its child share a pipe, so that either end may have
two holders. `terminal` (output): a buffer of 2 behind a FIFO of 2 has room for an order to get
wrong. `pipe`, `terminal` (input), `virtio` and `sched`: the modulus is the smallest that keeps the
code's tests meaningful (twice the buffer), so counters wrap many times. `files`: 7-byte writes are
cut into chunks of 4 and 3 bytes; at an odd offset a chunk touches three blocks, in the direct and
the indirect part; writes of 3 bytes fail after 2, at odd offsets inside a block; the bytes of
memory repeat with period 3 and blocks have 2, so that a byte at the wrong place is the wrong byte;
reads of 15 overflow the offset. One process makes and removes `/a` and `/a/a` by absolute paths
while the other enters, leaves, links and creates by relative ones, so that every directory is
removed under its user and its inode is used again. `resources`: every count of successful
allocations is tried in every call; pages of 16 bytes have room for two arguments, and one byte more
is too much; a third list has more arguments than `sys_exec` takes; copies start and end on both
sides of every boundary of pages that arise and of the top of the address space, and addresses wrap.
`inode`: as many table entries as inodes, so that entries are recycled; `iget`'s panic "no inodes"
is out of reach by counting alone, and it has to be, for calls would not return from it. (With three
inodes for the two entries, which takes too long with fairness, the panic is reached and the
inductive invariant of `CountsExact` holds, 593,365 states; the theorem `CountsAlwaysExact` covers
it for any sizes.) `user`: with init, the shell, its child and two of the pipeline's processes the
table of five is full, so a pipeline of three never gets its last process, in the foreground either;
the other lines lack processes once something is in the background, so that every `fork1` fails
somewhere; five descriptors are the console's three and one pipe; a heap of 12 units in chunks of 4,
with foreign units between, has free blocks at both ends, neighbours on both sides, and exhaustion.

**Views and symmetry.** `virtio` uses symmetry of processes, sectors and values, and its view
leaves out buffers that will be overwritten before they are read. The view of `resources` forgets
which physical page plays which role while all pages are accounted for, and drops fields of a
`struct file` that only matter for pipes, for other types. The view of `files` drops bytes of free
blocks (zeroed by `balloc`), keeps only how many blocks were logged, and identifies states that
differ by exchanging the two writers. None of these runs checks liveness.

**Deadlock** is checked except in `bio` (a panic stops the kernel), `pipe` (everything is closed
in the end) and `terminal` (the printers stop after a bounded number of characters). In `files`,
`proc` and `user` a panic or the exit of init is a state the model stays in.

## 4. Fairness

Liveness is checked in `log`, `bio`, `proc`, `pipe`, `terminal` (output) and `inode`. Weak fairness
of a process's kernel steps stands for the round-robin scheduler. Strong fairness is used for
acquiring a lock others take repeatedly (spinlocks hand over in bounded time in practice, and
sleep-locks wake all sleepers), and for:

* `end_op` (Log): an operation does not log blocks for ever; every system call bounds its writes.
* `releasesleep` (BufferCache): callers of `bread` release what they hold.
* init's `wait` (Proc): `user/init.c` loops on it.
* a killed process closes its files (Pipe): `usertrap` calls `exit`; one that is asleep is not
  counted on.
* the device sends and its interrupt is taken (Uart): `uart.c` enables it for good.

Users are not assumed to type, to read, to write or to close anything. In `terminal` liveness is
promised until a panic, in `bio` and `proc` too. In `pipe` one case is excepted (section 6, "A
killed writer"). For the shell and for a reader of the console the runs check instead that what they
wait for can still come (`ForegroundMoves`, `InputDelivered`), because programs need not end and
users need not type.

## 5. What is proved

Each theorem is `Spec => []P`, `Spec => [][A]_v` or `Spec => AbstractSpec`, without fairness, for
every value of the constants that the module's assumption admits. The theorems of a component X are
in `XProofs`.

| component | theorem | statement |
|---|---|---|
| `Log` | `DirtyAlwaysPinned` | a cached block that differs from the disk is pinned or being changed |
| | `SleeperAlwaysHasWaker` | a process asleep in `begin_op` waits for an operation or commit under way |
| | `NeverPanics` | no panic of `log.c`, if operations are small enough for the log (below) |
| | `QuiescentAlwaysDurable` | with nothing outstanding, the disk and the log hold all that was written |
| | `CrashAtomicity` | `log.c` implements `AtomicDisk` (`AtomicSpec`) |
| `BufferCache` | `BuffersAlwaysExact` | `BuffersExact`: one buffer per block, exact reference counts, `bget` panics only with every buffer in use |
| | `BcacheImplementsBlockStore` | `bio.c` implements `BlockStore` (`StoreSpec`): a change is lost only if it was released neither written nor pinned |
| `VirtioDisk` | `DescsAlwaysAccounted` | `DescsAccounted`: a descriptor is free or in the chain of one request, and no panic |
| | `SignalsNeverLost` | `NoLostSignal`: a completion that nobody has seen has its interrupt coming; a sleeper lacks what it waits for |
| | `DriverImplementsDiskService` | `virtio_disk.c` implements `DiskService` (`ServiceSpec`) |
| `Sched` | `AlwaysOneStackOneCPU` | `OneStackOneCPU`: one CPU per kernel stack, no panic of `spinlock.c` or `sched` |
| | `NeverLostWakeup` | `NoLostWakeup`: who sleeps past their tick has a wakeup in progress that will visit them |
| | `InterruptsAlwaysRestored` | `InterruptsRestored`: the interrupt enable survives a switch to another CPU |
| `Proc` | `SlotsAlwaysReusable` | `SlotReuse`: no slot freed under its thread, distinct pids, only the named are killed |
| | `FamilyAlwaysSound` | `FamilySound`: live parents; who sleeps in `wait` has a child and none that has exited |
| `Pipe` | `AlwaysFreedUnused` | `FreedUnused`: the page is freed exactly when both ends are closed and no call is under way |
| | `PipeImplementsByteStream` | `pipe.c` implements `ByteStream` (`StreamSpec`), wrapping counters included |
| `Console` | `AlwaysDelivered` | `InputDelivered`: no reader sleeps on committed input, a full buffer is committed, a read ends at a newline |
| | `CommittedAlwaysKept` | `CommittedKept`: a step adds to the committed input or takes its first character; erasing does not reach it |
| | `EofAlwaysReturnsZero` | `EofReturnsZero`: a read that takes an end-of-file takes nothing else and returns 0 bytes; one cut short otherwise ends in a newline or leaves the end-of-file next |
| `Inode` | `CountsAlwaysExact` | `CountsExact`: exact reference and link counts, a coherent cache, nothing freed in use, a panic only with `itable` full |
| | `IputNeverBlocks` | `IputWontBlock`: the comment at `iput`'s `acquiresleep`, "this acquiresleep() won't block" |

Every module also proves `Invariance`, that its inductive invariant `IInv` always holds; `IInv` was
checked with TLC on the instances of section 3 first.

**Assumptions on the constants.** All of them hold of the sizes in the code. Processes (and in
`Inode` names) are finite sets, placeholders such as `None` are not members of the sets they are
placeholders for, and buffers, slots and tables have at least one entry. Beyond these:

* `Log`: `MAXOPBLOCKS <= LOGSIZE`, so that one operation fits (10 and 30 in `param.h`).
* `VirtioDisk`: the indices' modulus is a multiple of `RING` (2^16 and 8), and `NUM < 3 * (RING +
  1)`: a request takes three descriptors, so the requests in flight fit a ring. In the code `NUM` is
  both the number of descriptors and the size of the rings.
* `BufferCache`: a block is not nested in itself (`MayGet`'s order of taking buffers); the image has
  a value for every block.
* `Pipe`: `PIPESIZE` divides the modulus of the counters and is smaller (512 and 2^32), and each end
  is held by somebody at the start, as `pipealloc` leaves it.
* `Console`: `INPUT_BUF` divides the modulus of the indices and is smaller (128 and 2^32).
* `Sched`: `ticks` has at least two values; the CPU that counts them exists.
* `NeverPanics` of `Log` assumes `OpBlocks < MAXOPBLOCKS` and `OpBlocks + LOGSIZE + 1 < MAXOPBLOCKS
  + LogSize`. With the sizes of `param.h` and `mkfs.c` (`LogSize = LOGSIZE`) this is `OpBlocks <=
  MAXOPBLOCKS - 2`; the run `files` checks that `filewrite` and `itrunc` stay within it, in a scaled
  geometry (blocks logged by `create`, `link` and `unlink` are not counted anywhere).

**The arguments.** None of the properties is inductive alone. What each `IInv` adds, and why:

*Log.* `IInv == TypeOK /\ Control /\ Reserved /\ Data /\ Pinned /\ Dirty`. *Control*: `outstanding`
counts the operations; the committer is alone, and so is recovery; the in-memory header is empty
between groups. *Reserved*: the logged blocks and the unused reservations together fit the log — a
set of (operation, slot) pairs, so that its cardinality follows from the library's theorems on
products and subsets. *Data*: at each place of a commit or recovery, how far log blocks, header and
home blocks agree with the cache; the on-disk header is non-empty only between the two header
writes. *Pinned*: pins are on exactly the logged blocks not installed yet. *Dirty*: only logged
blocks and blocks being changed differ from the disk. `LogProofs` shows conjunct by conjunct that
every action keeps them. For the refinement, `stable` is the disk overlaid with the log where the
header names a block (what recovery would produce), `current` is the cache, and `active` the
processes in an operation: `write_head` of a non-empty header is the atomic commit, `Crash` the
crash, `Modify`, `begin_op` and `end_op` themselves, and writing the log, installing, clearing and
recovering leave the abstract state unchanged.

*BufferCache.* That `refcnt` counts the references needs the place of every process: it works on one
buffer that it has not locked yet or no longer, or reads one that it has. That `bget` never recycles
a buffer in use needs `BufferOK`: a locked buffer is among those its holder has, so it is counted,
and a pinned one has its contents in memory. A block's content is its buffer's data where it is
valid, else the disk's; what is saved is the disk's; it is kept while its buffer is pinned. Filling
a buffer changes none of these; recycling one returns its block to what was saved, which
`BlockStore` allows of a block that nobody holds and that is not kept.

*VirtioDisk.* A submitted request has a chain of three descriptors with its own command, buffer and
status, chains are apart, and free descriptors and chains add up to `NUM`. The stretch of a ring
between two wrapping indices is a list, without repetition, of the chains announced and not taken,
or finished and not seen (`Window`, which has the indices before they wrap as witnesses); `NUM < 3 *
(RING + 1)` keeps it shorter than the ring. Without it the driver could not know that the entry it
reads is a chain in use.

*Sched.* What a CPU executes determines the locks it has, and `noff` is their number; interrupts are
on outside locks, handlers and traps only; each `p->state` has its places, on a CPU or off. `WakeOK`
carries the test of `sys_sleep` to the moment the process is asleep: between them it has `tickslock`
or its own lock, so a tick that comes in between is still to visit it.

*Proc.* Places of a slot's thread for each `p->state`; `fork` owns its USED slot alone between its
critical sections; parents are alive; who holds `wait_lock` on the way into `sleep` has a child and
no zombie among its children, so no exit falls between its scan and its sleep.

*Pipe.* Lock owner and places; an end is open while a process has it or the last one is on its way
into `pipeclose`; at most `PIPESIZE` bytes between the counters. The queue is the bytes from `nread`
to `nwrite`; that writing a byte appends to it and reading takes its head is arithmetic modulo the
counters' width and `PIPESIZE`, which divides it.

*Console.* In the circle of indices `w` lies between `r` and `e`, at most `INPUT_BUF` apart
(`Ring`); that ^U stops between `w` and `e` follows from its scan, the nearest newline or `w` being
a least element. A reader that has decided to sleep holds `cons.lock` until it sleeps, and `r = w`
until then; one that may go on reading has met no newline. The committed input is the characters
from `r` to `w`; that storing one at `e` changes none of them is arithmetic modulo the indices'
width and `INPUT_BUF`. For end-of-file, `EofInv` says what a call under way has taken from the
buffer: until it is done, exactly the bytes it gives its caller, without a ^D among them; once it is
done, a ^D alone, or bytes of which a copy failed, or bytes that end in a newline or have a ^D next
in the buffer.

*Inode.* References are counted over files, calls under way and the entry being dropped, links over
the directory and calls that are ahead of it (`Ahead`: `link` counts before it writes the entry,
`unlink` writes before it counts). Freeing is safe because `PlaceOK` at "free" keeps the last
reference the last while the inode lock is held and the table lock is not: with no link left, no
lookup can find the inode. A new inode has no link and no other holder until its name is written.

`TypeOK`, `DirtyIsPinned`, `SleeperHasWaker` and `QuiescentDurable` of `Log` are proved and not
listed in the run `log`; every other property in the table is both proved and checked.

**Only model-checked.** All liveness properties (`SleeperWakes`, `ZombieReaped`, `CallReturns`,
`AllSent`), which need fairness and `ENABLED` and are out of the prover's reach. What is defined by
recursion or folds, which needs induction over data: the page tables of `Vm`, `ShellParser`, `Shell`
and `Umalloc`, and in `FileData` the count of logged blocks and the bytes a loop of copies leaves
(`TransactionFits`, `ContentSpec`). And, for want of a proof rather than of a means:
`DataAccounted`, the directories (`LinksExact`, `TreeIntact`, `NoDeadlock`), the file table
(`TableExact`) and the order of output (`InOrder` of `Uart`).

## 6. Observations

**A finding.** `ilock` asserts that its inode is allocated (`panic("ilock: no type")`,
`fs.c:310-311`). The run `dir_panic` shows a history that gets there: one process makes `/a` and
`/a/a`, another enters `/a/a`, the first removes `/a/a` and then `/a`. The removed `/a/a` lives on
as a working directory and keeps its entry `..`, but `sys_unlink` has taken back the link which
`create` had counted for it (`sysfile.c:222`, `sysfile.c:271`), so `/a` is freed; the next lookup of
`..` panics. The run `files` goes through the same states and checks the other properties in them.

Where else code and comments part ways, the properties state what the code guarantees:

* **Log capacity.** `param.h:10` calls `LOGSIZE` the maximum of data blocks in the log, but
  `mkfs.c` makes the log `LOGSIZE` blocks including its header, and `log_write` (`log.c:220`)
  panics at `log.size - 1` before it looks for an absorbed block. Operations that used the
  `MAXOPBLOCKS` which `begin_op` reserves would panic; `MAXOPBLOCKS - 2` is safe, and enough.
* **`kill(0)`** (`proc.c:602`) matches an unused slot, whose pid is 0, and `allocproc` does not
  clear `killed`: the next process in that slot is killed. `SlotReuse` excepts it.
* **A killed writer** leaves `pipewrite` at `pipe.c:84` without the wakeup at `pipe.c:99`, so a
  reader may sleep on a pipe with bytes until the write end is closed. The killed process exits and
  closes it; but when another process has the write end too, and does not use it, nobody wakes the
  reader. `CallReturns` excepts exactly this. A `kill` that comes between the test of `killed` and
  `sleep` leaves a killed process asleep as well, until the next wakeup.
* **End-of-file for another.** The ^D which `consoleread` saves "for next time, to make sure caller
  gets a 0-byte result" (`console.c:103-104`) is taken by whoever reads next, which need not be the
  caller it was saved for. `EofReturnsZero` is about the call that takes it.
* **`exit` of init** panics ("init exiting", `proc.c:362`); every program that init waits for
  depends on its loop. `ZombieReaped` promises nothing after it.
* **Panic and output.** `panicked` stops `uartputc` and `uartputc_sync` but not the `uartstart`
  of the interrupt handler (`uart.c:192`), so buffered characters still leave after "freeze
  uart output from other CPUs" (`printf.c:124`).
* **`iput`** drops its reference in a second critical section (`fs.c:353`). An inode number that
  was freed at `fs.c:348` and is reallocated, linked and unlinked in between stays allocated with
  no name and no reference: the other `iput` sees `ref == 2`, and the first does not test again.
  `CountsExact` holds nevertheless.
* **`ip->valid`** is cleared only when the inode is freed (`fs.c:349`), not whenever the count
  falls to zero as `fs.c:139-141` says. The cache is coherent nevertheless (`CountsExact`).
* **`growproc`** adds in `uint` (`proc.c:281`): shrinking by more than the size reports success
  and changes nothing. `MemoryAccounted` holds nevertheless.
* **A torn copy.** When `copyin` fails inside a block (`fs.c:500`), what it copied stays in the
  buffer and is not logged: readers see these bytes until `bget` recycles the buffer or the machine
  crashes, and then the old ones again. `ContentSpec` and `StoreSpec` allow this of such bytes, and
  of no others.
* **Entries in removed directories.** `create` and `link` look at neither the link count nor the
  emptiness of the directory they write to, so a process whose working directory was removed can
  still make entries in it; these are lost with it. `LinksExact` and `TreeIntact` hold until that
  happens (`astray`).
* **`pgaccess`** clears the accessed bits before the `copyout` of its mask, which may fail: the
  information is then gone. `fork` copies the bit with the other flags of an entry (`uvmcopy`). The
  address is not compared with `MAXVA` before `walk` gets it (`vm.c:471`), and `walk` panics for
  one beyond it (`vm.c:84-85`). `AccessExact` says of every call which of these happens.
* **`mkfs`** rounds the size of the root directory up to a whole block (`mkfs.c:166`); where it is
  a whole number of blocks already, the last one is never allocated and the file has a hole. The
  image of the run does not have that size.

## 7. What is not modelled, and the plan

Not modelled: boot code (its result is `Init`), register saving and the system-call table,
formatting, the RAM disk (not linked), the user library and the programs other than `sh` and `init`
(sequential clients), the tests. Of the modelled parts: the kernel's own page table and `vmprint`;
the bytes of ELF headers (a program is its segments); slashes and the length of names in a path
(`skipelem`); the meta-data blocks of `mkfs`; `cd` of the shell, which only changes the working
directory; requests to `malloc` so large that their `uint` sizes wrap.

Left out although it is there: `dirlink`'s `iget` and `iput` of an entry that exists already
(`Inode`), a reference taken and dropped while the directory is locked, which keeps the inode named.
`Log` models operations that log what they change; the one that does not, a failed copy in `writei`,
is in `BufferCache` and `FileData`.

Known limits of the models in place: `BufferCache` runs with one nesting of buffers (an indirect
block, then the bitmap); `Sched` has `sys_sleep` as the only sleeper and its starvation-freedom is
not checked; `Proc` has three slots; in `files` all writers share one file, and directories have one
name besides `.` and `..`; where two components are explored side by side in one run, what one does
to the other is only what their own models say of their environment.

Next: proofs for `Uart`, for the tables of open files and for the directories; the
blocks that `create`, `link` and `unlink` log, counted over `Dir` and `FileData` together.
