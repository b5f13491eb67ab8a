# A TLA+ model of PinguOS

PinguOS is a 32-bit x86 kernel in C++: it boots through multiboot, sets up a
heap, a task manager, interrupts and drivers, and reads a FAT32 volume. This
directory holds TLA+ modules that model its parts, TLC configurations that check
them on small instances, and TLAPS proofs that the safety properties hold for every
value of the constants. Paths of source files are relative to the repository's `src/`; the unit tests are in `tests/`.

Parse, check or prove a module with

    tlc -workers 2 -config LinearAllocator.cfg LinearAllocator.tla
    tlapm LinearAllocatorProofs.tla

`PROJECT.json` lists every run, the lines each definition stands for, a mutated
definition that breaks each property, the hazards and the findings.

## 1. The system

### Parts, their state and what makes them correct

| Part | Source | State | Operations | Correct when |
|---|---|---|---|---|
| Heap allocator | `memory_management.cpp` | doubly linked list of `MemoryNode` headers in the heap | constructor, `malloc`, `free`, `operator new/delete` | the list tiles the heap, no two free neighbours, blocks are disjoint, nothing leaks |
| FAT32 | `filesystem/fat.cpp` | on disk the allocation table and the directories, in memory `FileHandle`s | `mount`, `open`, `close`, `read`, `write` (write, append, insert), `seek`, `make_file`, `make_directory`, `delete_file`, `delete_directory`, listing | chains end, are disjoint and hold no free cluster, also after a reset; no operation touches another file's chain; operations return, but for two that section 3 names |
| ATA driver | `drivers/ata.cpp` | status read from the drive, words moved | `identify`, `read_28`, `write_28`, `flush` | a read that succeeds got its sector; calls return |
| Network driver | `drivers/intel_82540em.cpp` | two rings of descriptors in memory shared with the card, registers RDH, RDT, TDH, TDT | `handle_interrupt`/`handle_rx`, `send_packet`, `rx_setup`, `tx_setup` | packets are printed once; sent in order, once, unchanged; the handler returns |
| Interrupt manager | `hardware_communication/interrupts.cpp`, `interruptstubs.s` | the gates, `handlers`, the interrupt number shared by the stubs; lines in service in the two controllers | constructor, `activate`, stub, `handler`, end of interrupt | each handler ends its own line and no other; requests are served |
| Task manager | `multitask.cpp` | `m_tasks`, `m_curr_task`, one saved `CPUState` per task | `add_task`, `scheduler` | a context resumes where it was interrupted; every task gets a turn |
| Console | `kernel.cpp`, `printf` | the cursor, two static variables shared by all contexts | `printf`, `printf_hex` | the cursor is on the screen between characters |
| Keyboard driver | `drivers/keyboard.cpp` | the shift flag | `handle_interrupt`, `emit_event` | shift is set only while a shift key is down |
| Mouse driver | `drivers/mouse.cpp` | the bytes of a packet so far, the buttons; the textual handler's cursor and rest of motion, the colours of the screen's cells | `handle_interrupt`, `on_move`, `on_down`, `on_up` | the cursor stays on the screen and leaves no trail; no motion is lost |
| Desktop | `gui/desktop.cpp`, `window.cpp`, `widget.cpp` | pointer, windows and their `m_dragging` | `on_move`, `on_down`, `on_up`, dispatch to children | a drag ends with the release; a window moves once per motion |
| PCI controller | `hardware_communication/pci.cpp` | none between calls; the BARs it overwrites and puts back | `select_drivers`, `get_base_address_register`, `get_driver` | every register is as the firmware left it; a card is driven through its first memory BAR |
| Driver manager | `drivers/driver.cpp` | `m_drivers` | `add_driver`, `activate_all` | every driver made is activated |
| MS-DOS partitions | `filesystem/msdospart.cpp` | one sector | `read_partitions`: mounts, lists, opens, reads | the kernel comes to its loop |
| Kernel main | `kernel.cpp` | none of its own | the order of set-up, then an endless loop | it gets there |
| VGA | `drivers/vga.cpp` | the mode | register tables, pixels, rectangles | a frame shows what clicks reach |
| Ports, GDT, boot code | `port.cpp`, `gdt.cpp`, `loader.s` | set once | straight-line set-up | not modelled |

### How they interact

* A device raises a line; the controllers pass the highest one; the stub pushes
  the context's state, stores the number in a byte shared by all stubs and calls
  `InterruptManager::handler`, which calls the driver's `handle_interrupt`, on
  the timer the scheduler, and then sends the end of interrupt. Gates are
  interrupt gates, so handlers do not nest; they run between any two
  instructions of the interrupted context.
* `printf` is called from the kernel's own context, from tasks (through
  `int 0x80`) and from handlers (keyboard, network, system call).
* The FAT32 driver calls the ATA driver, which is polled; `read_28` also sends
  end-of-interrupt commands of its own to both controllers.
* The network card reads and writes the rings without asking anyone.
* The textual mouse handler swaps the colours of cells that `printf` reads, changes and writes back.
* The keyboard and mouse share one data port, and the keyboard's handler may read the mouse's bytes; the mouse driver calls a
  `MouseHandler`, which is the textual one or the desktop.
* At boot, in this order: mouse and keyboard are made, the PCI scan makes the network
  drivers, whose constructors set up their rings, all drivers are activated,
  interrupts are enabled, the partitions are read, and the kernel loops (in
  graphics mode it draws a frame each time round).
* `new` and `delete` are the heap's `malloc` and `free`; drivers allocate at
  boot, FAT32 allocates buffers within its operations.

### What is hard

Handlers and device against the context they interrupt (console, rings,
scheduler); a reset between two disk writes of one FAT operation; handles that are
stale because another handle cut the chain; `malloc` failing midway with results
not looked at; end-of-interrupt commands that do not name their line; a drive that
drops commands; lost mouse bytes; boundary arithmetic in the heap, the rings, the
clusters and the clamps. `PROJECT.json` lists each hazard at its line with the
properties that would catch it.

## 2. Modules

| Module | Models | Composed of |
|---|---|---|
| `HeapSpec` | abstract heap: unused bytes are handed out, failure only without a free run | |
| `LinearAllocator` | the heap's list of chunks, refines `HeapSpec` | |
| `Fat32`, `MCFat32` | table, root directory and handles, one action per disk write | |
| `DirectoryIterator`, `MCDirectoryIterator` | an iterator over the root directory, held open while the directory changes | `Fat32` |
| `Ata` | the driver's polling and word loops against an external drive | |
| `PacketQueue` | abstract bounded FIFO | |
| `TransmitRing` | `send_packet` and the card, refines `PacketQueue` | |
| `ReceiveRing` | `handle_rx` and the card | |
| `Network` | the set-up of both rings, and both on one processor | `TransmitRing`, `ReceiveRing` |
| `Multitask` | the scheduler | |
| `Interrupts` | controllers, stubs, `handler`, activation, system call, the EOIs of the disk driver | `Multitask` |
| `Console` | `printf`, one access to the cursor at a time | |
| `Keyboard` | bytes of keys, and of the mouse read for keys, the shift flag | |
| `Terminal` | typing while the kernel and other handlers print | `Console`, `Keyboard` |
| `MouseDriver` | packets to calls | |
| `TextMouse` | the textual mouse cursor, and `printf` on the cells it swaps | `MouseDriver` |
| `Desktop` | pointer and windows, and what a frame shows of them | `MouseDriver` |
| `Mouse`, `MCMouse` | the driver with either of its handlers | `TextMouse`, `Desktop` (as instances) |
| `Pci` | the scan of the bus and the driver manager | |
| `Boot`, `MCBoot` | kernel main: scan, activation, reading of partitions sector by sector | `Pci`, `Ata` |
| `LinearAllocatorProofs` | theorems about the heap | `LinearAllocator` |
| `Fat32Proofs` | about the file system and its iterator | `DirectoryIterator` |
| `NetworkProofs` | about the rings and their set-up | `Network` |
| `InterruptsProofs` | about interrupts and tasks | `Interrupts` |
| `TerminalProofs` | about console and keyboard | `Terminal` |
| `MouseProofs` | about the mouse driver with either handler | `Mouse` |
| `BootProofs` | about the PCI scan and the disk driver at boot | `Boot` |
| `NumberLemmas` | what the proofs need of remainders and of induction | |

Each module begins with what it takes from the code and what is external. A
definition preceded by one with the comment "Mutant" has that variant as a
plausible bug: put in its place it must break a property.

### State and actions against the code

**LinearAllocator.** `node` maps the address of a header to its fields (`next`,
`prev`, `allocated`, `size`, `offset`); the free store between headers is implied.
`live` is what callers hold, `last` the last result. `Malloc` is the first fit
(`FirstFit`), the split (`Carve`, `Split`) and the writing of `allocated` and
`offset` (`Claim`); `MallocFails` the return of 0; `Free` is `Release`,
`MergePrev`, `MergeNext` in the code's order. Addresses, sizes and the 8-bit
padding are numbers as in the code. `free` looks for the offset where a block
without padding has it, so `Free` is enabled for such blocks only; no caller
that asks for an alignment frees.

**Fat32.** `fat` and `dir` are the disk, `handle` the callers' `FileHandle`s, `op` the
locals of the one operation in progress. An operation with several disk writes
takes one action per write (`CutStep`, `FreeStep`, `GrowStep`, `GrowLinkStep`,
`StoreStep`, `EntryStep`, `CreateStep`, ...), so that `Crash` falls between any two.
`PutEntry` is the write of one directory entry with what it does to the rest of
the sector, `MarkAfter` the mark of a deletion where the code puts it. Each
`malloc` yields one of `MallocOutcomes`. Bytes of files and long names are left out.
`Step` is a step of the operation in progress, `Operation` that or the call of one.
`PutsEntry` writes an entry back unless the buffer for it cannot be had, which no caller of `write_cluster`
looks at. An operation that does not come back stays where `pc` is "lost" (`WriteHangs`) or "circling"
(`SelfLinkStep`). A handle whose cluster is outside the table makes `append` store (`fat.cpp:763`) and link
(`fat.cpp:814-819`) in a sector elsewhere on the disk; the models take that sector for one that holds
neither the table nor the root directory (`Append`, `Link`).

**DirectoryIterator.** `iter` is the iterator with its buffer, which holds a copy of the
slots of one cluster; `Seen` takes a slot from there if it is of that cluster, else
from the disk. `NextEntry` is `next`, `Start` the constructor and `reset`; `OtherCall` any
`Operation` of `Fat32`. `times` and `steady` are history.

**Ata.** One action per access to the status port (`ReadStatus`) and to the data port
(`NextWord`); `Work` is the drive getting on. `Polls` gives, for each call, the
statuses its loops go on at, as their conditions are written. `Refuse` is a call
that returns before it touches the drive.

**Pci, Boot.** A register is the bits above the low four and the low four, which a BAR
has hard-wired; `Written` is the hardware's side of a write. `FindFunction` is the two inner
loops of `select_drivers`, `ProbeBar` one turn of the loop over the BARs with all its
writes (`SizedPair` for 64 bits), `GetDriver` what follows. In `Boot` each
sector that `read_partitions`, `mount`, the iterator, `open` and `read` ask for is one call
of `Ata`, polled and moved word by word; what a sector holds is chosen, also when
the call failed, as the code looks at the buffer all the same. `walk` bounds
a directory whose chain ends; `Endless` is one whose chain comes back to itself.

**ReceiveRing, TransmitRing, Network.** One action per access to a descriptor or a
register: `ReadTail`, `CheckDone`, `PrintPacket`, `ClearDone`, `WriteTail`; `Send` (the
test of DD), `Copy`, `Mark`, `MoveTail`. The card is external: `Receive` fills the
descriptor at RDH and sets DD, `Fetch` and `Report` send from TDH.
In `Network`, `RxSetup` and `TxSetup` make one descriptor at a time, and stop for good when
`malloc` fails; only then is the card enabled or not (`Enabled`); `Activate` clears
what it has pending. `send_packet` stands still while the handler runs.

**Multitask, Interrupts.** A `CPUState` is whose context it is and where that context
was. `Tick` saves the state, moves `current` and resumes. `Take` is the controllers
and the stub, `Handle`, `AcknowledgeSecond`, `AcknowledgeFirst`, `Return` the handler;
`DiskEndsSecond` and `DiskEndsFirst` the end of `read_28`. The controllers are
external, nested by priority, with the non-specific command `0x20`.

**Console, Keyboard, Terminal.** The loop of `printf` for the kernel's context with
every load and store of `x` and `y` a step (`x++` is a load and a store without
optimisation); a handler's characters are put in one step, as interrupts are
disabled. `Prints` says how much `emit_event` prints of a byte. `MouseByte` is `handle_interrupt` with a byte
of the mouse in the port, which is taken for a scan code; `stray` is history: such a byte has set the flag.

**MouseDriver, TextMouse, Desktop, Mouse.** `Receive` is `handle_interrupt`: the third byte makes
`CallsOf` the packet; `Handle` applies the handler (`Call`) to these calls one after the
other (`Called`). `Lose` is a
byte that the keyboard's handler read from the shared port. `colour` is what `Swapped` changes: a cell is
plain, inverse or, after a character that is negative as a signed byte, white on white. `PrintReads` and
`PrintWrites` are the load and the store of a cell in the kernel's `printf`, a step each; `HandlerPrints`
is a character from a handler, in one step. `Frame` is the picture that
`draw` leaves if nothing moves meanwhile: children from the last to the first
(`Drawn`), each as `fill_rectangle` fills it (`Filled`), then the cursor. In `Mouse`, `graphics` says
which of the two kernels was built.

## 3. Runs

Each passing run answers one question. No run uses a constraint; every bound is
a CONSTANT. Deadlock is not checked anywhere: callers and devices may stop, and
every system here may come to rest (a full bound on lost bytes or raised lines,
an operation that does not come back).

| Run | Shows | Bounds, and why they are enough |
|---|---|---|
| `heap` | `ListWellFormed`, `Coalesced`, `BlocksDisjoint`, `NoLeak`, `OverrunBelowPadding`, `HeapRefined` under every order of `malloc` and `free` | 124 bytes at 16, headers of 20, requests of 0 and 25, alignments 1 and 16: up to five chunks, so that merges with both neighbours, exact fits, remainders too short to split and padding that runs past a chunk all happen. The proofs cover all other values |
| `fat` | `LinksSound`, `StoreFits` hold in every state, also between the disk writes of an operation and after a reset there; clusters are freed only once detached (`FreesOnlyDetached`); no operation changes another file's chain (`OtherChainsKept`) | four clusters, one of them the root's two slots; two files, two handles (one may be stale), writes of 0 and 3 bytes with 2 to a cluster, so that chains grow from 1 to 2, shrink and grow again, the disk fills and the directory fills |
| `fat_no_memory` | `ChainsSound`, `OperationsReturn`, `PlaceKept`, `MadeIsListed`: the chains stay whole and apart when any `malloc` fails, every operation returns but for a `write` whose entry is gone and a `make` in a full directory, a handle loses its place in four known ways only, what is made is listed unless the directory was full or there was no buffer to search it with | six clusters, a root of two clusters of one slot, files and directories, two names with one 8.3 form; reads of 2 (up to a cluster's end) and 3 bytes (across it), seeks to 1 and 2 (within the first cluster and to the second); one handle |
| `listing` | `ListingComplete`, `EntriesKept` | five clusters, a root of two clusters of two slots in a sector, three names, `malloc` failing: entries before, at and after the iterator, in its cluster and ahead of it, made and deleted meanwhile, and an entry before another in its sector; crashes. The directory does not get full here (it does in `fat`) |
| `network` | `PrintedOnce`, `BuffersBehindPackets`, `HandlerReturns`, `FifoRefined`, `SentOrJammed` | a transmit ring of 2 (full, empty and wrapping), a receive ring of 3, two different packets, `malloc` failing at any descriptor; both rings go round for ever |
| `terminal` | `CursorRecovers`, `StraysOneRow`, `ShiftLetsGo` | a screen of 3 by 2, so that one character can reach each edge; two shift keys, Enter, one key that prints a number (0x29, which no case names), one key with a prefix, Print Screen with its fake shift; of the mouse's bytes one that sets shift (42), one that clears it (182) and one that prints (8) |
| `interrupts` | `StatesTrue`, `HandledLinesEnd`, `EndsItsOwnLine`, `ServedUnlessBlocked`, `EveryTaskRuns` | the timer without bound, line 12 (second controller, with a gate) and line 9 (without) raised once each, two tasks in an array of two (added in any order, one of them perhaps twice), two places per context |
| `mouse` | `TrailsOnlyAtClicks`, `MotionKept` on the text screen; `FirstWindowLetsGo`, `MovesWithPointer`, `ScreenTrue` on the desktop | a text screen of 2 by 2 cells, where each step of the cursor goes to an edge, with and without motion left over (sensitivity 1, of which a row takes 2), one character printed, by the kernel with an interrupt between its load and its store or not, or by a handler, with a byte below 0x80 or not; two windows of 2 by 1 beside each other on a screen of 3 by 1: they can be dragged over and under each other and partly off; motion 0, 1, -2, no button and the first, one byte lost: after it buttons are read as motion and motion as buttons |
| `boot` | `BarsRestored`, `RegistersFound`, `ReadGetsSector`, `CallsReturn`, `KernelReachesLoop` | two devices of two functions (present or not); a card's BARs are each pair of: none, I/O, memory of two sizes, memory not set up, 64 bits below 4 GB, not set up, of all the space, and above 4 GB with a high half that looks like each kind of BAR; every combination of command bits; a bridge. One network card (a second would follow the same path). Sectors of 3 words, two partitions, a root of two clusters whose chain ends or goes round, a drive that is absent, slow or fails, `malloc` failing; then all four calls of the driver in any order |

The other runs each check one statement of the repository that the code does
not keep (section 6).

### What the properties say

* `HeapRefined`: with the blocks callers hold and the last result as the abstract
  state, each `malloc` that returns an address hands out bytes nobody holds,
  and each that returns 0 does so when no free run could hold the request, a
  header and one more byte (aligned blocks may be pushed up by `Slack`).
* `ChainsSound` is what the loops of `fat.cpp` silently rely on: all chains end in
  an end mark, meet no free word, and are pairwise disjoint. `LinksSound` is the same
  link by link, which is what a step of the code preserves. They hold through
  resets because `write` cuts before it frees and marks before it links.
  `OtherChainsKept` needs its exception: `append` links from `handle.cluster`, which another
  handle may have cut off.
* `PlaceKept`: reads trust that `handle.cluster` is the cluster of `handle.position`. The
  property lists the only steps after which it is not: two of them (`seek` and a
  `read` that ends at a cluster's end) are defects of section 6.
* `EntriesKept` says for every step of every operation which entries may go: the one
  that is deleted, and those from a written entry on in its sector. It is
  what the search of `write` (`find_directory_entry`, which has no end) relies on.
* `OperationsReturn` names the two operations that do not: a `write` when no entry names the first
  cluster of its file (section 6), and `make_file` or `make_directory` when the directory has no slot left and
  the cluster that was linked to itself (`fat.cpp:951-966`) happens to hold none either. The other
  loops over a chain end, as `ChainsSound` lets one expect.
* `MadeIsListed`: when `make_file` or `make_directory` returns SUCCESS, the slot that
  `create_directory_entry` picked is before the end that the iterator sees, also in a second cluster. Two
  cases in which the code returns SUCCESS all the same are excepted: no buffer for the search, which leaves the
  directory as it was, and a full directory, where there is no cluster for the entry or the entry goes to a cluster
  that no directory links to.
* `ListingComplete`: an iterator works on a copy of one cluster, so what changes behind it
  is missed; but what was there all along is returned exactly once.
* `BuffersBehindPackets`: the card is enabled only after the last buffer, so that nothing is
  stored to or sent from an address that `malloc` did not give, though the driver is
  activated however the set-up ended.
* `SentOrJammed` has two exceptions of the code's own: the driver fills the last
  descriptor too, and then head and tail agree, which the card reads as
  empty; and it accepts packets when `tx_setup` failed.
* `BarsRestored`: sizing overwrites one register or two, and the high half is probed again
  when its turn comes; after the six turns all are as before. `RegistersFound`: the BAR
  that is taken is the first one that maps memory in reach, by a definition of its
  own (`MemoryBars`), except on a card with a BAR above 4 GB, whose high half is
  taken for a BAR.
* `KernelReachesLoop` has two exceptions, both of the loops over a directory. A chain of clusters that
  comes back to itself (`Endless`), with no entry that ends the directory, is walked for ever by the iterator and
  by `stat` (`fat.cpp:76-93`, `fat.cpp:640`); where no cluster of it holds an entry to return, `next` (`fat.cpp:125`) calls
  itself for ever. And a directory sector that was not read (`misread`) leaves the buffer as it
  was, and the loop may find the same entries again.
* `ScreenTrue` compares two loops over the children that go opposite ways (`draw`, and
  `ChildAt` for clicks) and the signed comparison in `fill_rectangle`.
* `EndsItsOwnLine`: the command to the controllers names no line, and yet a handler
  always ends the line it is for, and the commands in `read_28` never end a
  line that has a gate. `ServedUnlessBlocked` has an exception because
  `ignoreInterruptRequest` sends no command: a line without a gate stays in
  service and blocks lower ones until `read_28` happens to end it.
* `StatesTrue`: `m_curr_task` names the context on the processor and every other
  task's saved state is its own, and the array of tasks is not overrun; tasks may be
  added twice and at any time.
* `CursorRecovers`, `StraysOneRow`: though `x` and `y` are not protected, the `>=` tests bring
  the cursor back, and no character lands more than one row below the screen.
* `TrailsOnlyAtClicks`: the swapped cells are the cursor's and those where buttons
  changed an odd number of times. Excepted (`overwritten`) are the cells that `printf` writes back after a handler
  came between its load and its store (`kernel.cpp:52`, `59`, `69`), as that undoes a swap or puts the colours of one
  cell into another, and those where it prints a character of 0x80 or above, whose sign fills the
  colours. A print into which no handler falls leaves the colours alone.
* `ShiftLetsGo`: what keys do to the flag is undone when they go up. Excepted is a byte of the mouse that
  the keyboard's handler took for a shift key (`stray`); the flag is then set until the next byte that clears it.
* `MovesWithPointer`: the first loop of `on_mouse_move` may move a window under the new position; the
  `first_child` test is what keeps it from moving twice.

### Fairness

Liveness is claimed only under what the code and the machine give:

* `Network`: weak fairness of the handler (the processor executes it with
  interrupts disabled) and of the card's sending; strong fairness of `send_packet`,
  since the processor runs an instruction of the interrupted context after each
  `iret`. No fairness of arriving packets or of calls.
* `Interrupts`: weak fairness of the handler's steps and of activation, which the kernel
  does at boot; strong fairness of taking each line, as the processor looks at
  its controllers after each instruction; the timer ticks for ever, and not
  again before its handler has returned (its period is some 55 ms).
* `Boot`: weak fairness of the kernel with the driver's loops, and of the drive, which
  finishes or fails its command; none of the calls made after boot. `CallsReturn`
  excepts a read whose command the drive dropped.
* `Fat32`: weak fairness of the steps of the operation in progress; none of calls.

## 4. Proofs

Every invariant and every action property of the passing runs, and both
refinements, are proved for every value of the constants that the named
assumptions admit. What a run checks under the specification of a composition is
proved of that composition.

| Module | Theorem | States |
|---|---|---|
| `LinearAllocatorProofs` | `Invariance` | `Spec => []HeapInv` |
| | `TypeCorrect`, `ListCorrect`, `CoalescedCorrect`, `NoLeakCorrect`, `OverrunCorrect`, `DisjointCorrect` | the invariants of run `heap` |
| | `Refinement` | `Spec => HeapRefined` |
| `Fat32Proofs` | `Invariant` | `Spec => []Inv` |
| | `ChainsStaySound`, `StoresFit`, `LinksStaySound` | `[]ChainsSound`, `[]StoreFits`, `[]LinksSound` |
| | `FreedIsDetached`, `OthersUntouched`, `MadeEntersList`, `HandlesStayInPlace` | `FreesOnlyDetached`, `OtherChainsKept`, `MadeIsListed`, `PlaceKept` |
| | `ListingImplements` | `ListSpec => Spec` |
| | `ListedStays`, `EntriesStay` | `EntriesKept`, of `Spec` and of `ListSpec` |
| | `ListingsComplete` | `ListSpec => []ListingComplete` |
| `NetworkProofs` | `RingIsQueue`, `DriverIsQueue` | `FifoRefined`, of `Spec` and of `NetSpec` |
| | `PacketsPrintedOnce`, `BuffersThere` | `[]PrintedOnce`, `[]BuffersBehindPackets` |
| `InterruptsProofs` | `TasksImplemented` | `IntSpec => Spec`, the scheduler's |
| | `TaskStates`, `HandledEnd`, `OwnLineEnds` | `[]StatesTrue`, `[]HandledLinesEnd`, `EndsItsOwnLine` |
| `TerminalProofs` | `ShiftReleased`, `CursorComesBack`, `CharactersStayNear` | `[]ShiftLetsGo`, `[]CursorRecovers`, `[]StraysOneRow` |
| `MouseProofs` | `TrailsAtClicks`, `MotionIsKept` | `[]TrailsOnlyAtClicks`, `MotionKept` |
| | `FirstLetsGo`, `WindowsFollow`, `ScreenIsTrue` | `[]FirstWindowLetsGo`, `MovesWithPointer`, `[]ScreenTrue` |
| `BootProofs` | `SectorsWhole`, `SizingRestores`, `CardsDriven` | `[]ReadGetsSector`, `[]BarsRestored`, `[]RegistersFound` |

### From which assumptions

The assumptions on constants say of which kind each is and that sizes are not 0.
Those that say more:

* `HeapAssumption`: a header has at least 16 bytes (it has 20) and alignments are powers
  of two up to 16.
* `FatAssumption`, `MarksAssumption`: clusters consist of whole sectors; the names of
  files are neither of the two marks that a name's first byte can be.
* `RingAssumption`, `NetworkAssumption`: a ring has two descriptors or more (the driver's
  have 256).
* `KeyboardAssumption`: codes have seven bits, as bit 7 says that a key went up, and no key with the
  prefix 0xE0 has the code of a shift key. The keyboard's fake shifts are bytes of `Keyboard`
  and not keys.
* `PciAssumption`: registers are what the bus prescribes (`WellMade`): a BAR's size divides the
  space and the BAR holds a multiple of it, one that is not there reads as zero, and the first is
  no high half.
* `DesktopAssumption`: there is a window, as the kernel adds two.

One theorem has a hypothesis: `LinksStaySound` assumes that no `malloc` fails
(`MallocOutcomes = {TRUE}`), as run `fat` does. It is needed. When `deallocate_cluster`
cannot have its buffer, the cluster stays as it was, with its link, and the next one is
freed: a link to a free cluster, in what no file holds any more. What files hold is sound
with failing `malloc` too, which is `ChainsStaySound`.

### Along which argument

None of the properties is inductive alone, except where noted. The invariants:

**Heap.** Well-formedness of the list needs the
offsets (free finds its header through one), coalescing needs the list's
links, disjointness needs that each live block belongs to exactly one allocated
chunk and is as long as the chunk allows. `HeapInv` is

    HeapInv == Heaped(node, live) /\ LastOK
    Heaped  == List        headers typed, linked both ways, separate
            /\ Offsets     paddings are 0 .. 15, and 0 if only alignment 1 is used
            /\ Covered     every byte of the heap lies in a chunk
            /\ CoalescedBut(nd, {})   no two free neighbours
            /\ Owned       blocks and allocated chunks correspond one to one

The argument goes by the operators rather than by the actions: `SplitList`,
`AbsorbList`, `FlagsList` show that `Split`, `Absorb` and the change of a flag keep `List`;
`CoalescedBut(nd, E)` lets the state between the two merges of `free` be described (E
is the set of chunks that may still have a free neighbour); `HeaderFound` shows
that `free` finds the header of a block without padding; `MallocHeaped` and `FreeHeaped`
put these together; `MallocUnused` and `FailsHonestly` are the two steps of the refinement
that say something. `PaddingExact` shows that 8 bits are enough for a padding.

**FAT32.** `ChainsSound` speaks of chains of any length, a step changes one link.

    Inv == TypeInv /\ HandleInv /\ EntryInv     entries and handles have a first cluster
        /\ ChainInv     some set R of clusters holds all chains: it has all starts, each link
                        out of R stays in R, no two meet and none leads to a start; the
                        cluster about to be linked is outside R, and what is being freed lies
                        outside R in a set of its own
        /\ LengthInv    how far the chain is from the number of clusters the write needs

`ChainInv` is what each of the six writes to the table keeps (`HoldsElsewhere`,
`HoldsLinked`, `HoldsStart`, `HoldsCut`, `DetachedNext`): it does not ask which file a
cluster belongs to. That chains in such an R end and are disjoint is shown once, for
tables that stand still: `PathsApart` (two walks that meet would have met a step
earlier, back to a start) and `PathEnds` (a walk that does not end visits more clusters
than there are). `LengthInv` gives `StoreFits`: why the loop that stores never
reaches the branch that would link after an end mark. `LinksSound` adds
`LinkInv`, which says the same of all clusters, held or not. `MadeIsListed` adds
`ParentInv`: while a file is being made, no end stands before the directory cluster that
will take its entry, and while the directory is extended it has no vacant slot (`MakeSteps` says by
which steps `make` returns). `ListingComplete` adds `IterInv` (each slot returned at most once, none
ahead of the iterator) and `SteadyInv`, per slot that was there all along: it is listed, the copy the
iterator holds shows no end before it, and the iterator passes it only by returning it.

**Rings.** `TxInv` says which descriptors are not done: those from TDH to TDT, and the one
that `send_packet` has marked and not yet handed over; they hold packets, and
`send_packet` is past its test only with room. That the queue of `PacketQueue` is the
buffers from TDH on is then one lemma per action; only `MoveTail` and `Report` change it. As
`send_packet` fills the last descriptor too, TDH and TDT do not tell a full ring from an empty one;
`Waiting` takes the DD bits for that, and the invariant ties the two together.
`PrintedOnce` needs that a descriptor that is done has not been read (`DoneUnread`). `SetUpInv` ties
the enable bits to the number of buffers.

**Interrupts and tasks.** `StatesTrue` needs only types; it is inductive, and steps of the
composition are steps of `Multitask` (`IntStepsTasks`), so it is proved once for the scheduler and
carried over. The commands name no line, so `IntInv` must say that the line they end
is the handler's: `OwnLineHighest` (in each controller nothing in service has a higher
priority than the line whose handler runs) and `OneHandled` (of the lines with a gate none
but that one is in service), which hold because handlers run only once `activate` was called
and with interrupts disabled (`TakenActive`).

**Console and keyboard.** `CursorInv` has the range of each coordinate and of the register at
each place in `printf`: a coordinate is over the edge only between its increment and its
test. `HandlerKeeps` shows that a handler's characters keep it at each of these places.
`ShiftInv` adds the bytes under way: if the flag is set and no shift key is down, then the
byte that clears it is still to come, or the flag is a byte of the mouse's doing (`stray`).

**Mouse.** `DriverStep` says what an interrupt may call: motion at most first
(`MotionFirst`), and of button 1 nothing that the driver does not then believe itself (`Told`). With this
the handlers are looked at call by call: `TextCalls` and `DesktopCalls` go over the calls. `TextInv`: outside
the overwritten cells the swapped ones are the cursor's and the clicked ones', and what a print in progress has loaded is
what its cell still shows unless a handler has come in between; `TextMouseStep` and `TextPrintStep` keep it. `DesktopInv`: the topmost window is dragged
only while the driver holds button 1 down and the pointer is on it (`Over`); for that
the window must move with the pointer, which is `MovesWithPointer`. `FrameShows` compares the two
loops over the children.

**Boot.** `ReadInv` relates the words moved with those the drive has left, and what the
driver last saw with what the drive is in. `ScanInv`: between two turns of the loop over
the BARs the function is as the firmware left it, and the descriptor is the first memory BAR
among those looked at (`FirstOf`). `SizedRestores` is the turn itself.

**Induction over data.** The library's induction theorems cannot be instantiated with these
provers. What the proofs need of it is derived in `NumberLemmas` from the well-foundedness
of the numbers: `LeastNumber` (a set of numbers that is not empty has a least one), `UpTo` (a set that
has 0 and with i - 1 also i has all up to N), and for recursive functions over
0 .. N that they exist and satisfy their equation (`IterateExists`, `ComposeExists`). Through these
`Walk`, `SeekReach` (`Fat32`), `Called` (mouse), `children` (`Frame`) and `After` (`Console`) can be reasoned about.

### Model-checked only

The liveness properties: `HandlerReturns`, `SentOrJammed`, `OperationsReturn`, `CallsReturn`,
`KernelReachesLoop`, `ServedUnlessBlocked`, `EveryTaskRuns`. The proof system does not handle
ENABLED, and with it fairness. What they rest on, where it is safety, is proved: that chains end
(`ChainsStaySound`, for the loops of `OperationsReturn`), that entries stay (`ListedStays`, for
the search of `write`).

## 5. Not modelled

* Ports, the GDT, `loader.s`, the size of the heap (`kernel.cpp:117` computes it from the
  boot information without a test): straight-line set-up; the models take the heap's
  size as given.
* VGA: the register tables of `set_mode`, colours, where the frame buffer is. Frames
  torn by an interrupt that moves something while `draw` runs: `Frame` is a frame of a
  quiet moment.
* Partition table: the constructor and `get_partition_offset`, which nothing calls.
* In FAT32: subdirectories as places of their own (the code cannot create in them, and
  never clears the first cluster of one), `detect` and the fields of the boot
  sector, long names, the contents of files, the sector elsewhere on the disk that an `append` through a handle
  with a cluster outside the table writes to, the end of the table, the leak of
  `allocate_cluster`'s buffer (its consequence, a failing `malloc`, is).
* In the drivers: the commands of the keyboard's and the mouse's `activate`; the network
  card's `reset`, PHY and EEPROM, whose results decide nothing; `send_packet` on a
  descriptor that a failed set-up did not come to, whose contents are undefined.
* In `printf`: which characters it puts, and the cells below the screen that it may reach.
* The desktop's keyboard focus: no window ever asks for it.
* Exceptions, `deactivate`, handlers being removed: nothing calls them.
* Interrupt handlers that allocate: no handler does, so `malloc` and `free` are atomic.
  No handler calls `printf_hex` either, so that the string it writes its digits into is
  not at stake.

## 6. Where code and documentation differ

Checked, each by a run that finds the violation:

* `fat_delete_marks_entry`: `delete_dir_entry` marks `entries[m_entry_index]`, the slot after the one
  the iterator returned, while `tests/unit/filesystem/test_fat32.cpp:488` lists "ensure
  dir entry is marked as deleted".
* `fat_appends_at_end`: `append` stores at `handle.size` modulo the cluster size in
  whatever cluster the handle is at, while `fat.cpp:249` says "Append to the end of
  the file = handle.size."
* `receive_packets_are_read`: `handle_rx` skips the first descriptor of each batch but the first,
  while its comment (`intel_82540em.cpp:94-96`) says it reads each that is done.

Met while modelling, part of the models, and without a run of their own:

* Writing a file's directory entry zeroes the entries after it in the sector
  (`PutEntry`).
* `seek` counts from the current cluster, and `read` that ends at a cluster boundary
  leaves the cluster behind the position (`Seek`, `ReadStep`).
* `find_directory_entry` does not end when the entry is gone (`WriteHangs`); when a directory is
  full, the cluster that should extend it is linked to itself, and the entry is lost or the search goes round for
  ever (`SelfLinkStep`).
* `make_file` and `make_directory` succeed without an entry when `create_directory_entry` has no buffer or no
  cluster (`CreateStep`, `ExtendStep`); a write of an entry for which there is no buffer is not noticed (`PutsEntry`).
* Nothing bounds the walk along the chain of a directory (`NextCluster`, `Endless`).
* `printf` writes back colours that the mouse's handler has swapped meanwhile, and turns a cell white on white
  for a character of 0x80 or above (`PrintWrites`).
* The keyboard's handler takes bytes of the mouse for scan codes (`MouseByte`).
* A name longer than 8.3 can be made twice (`Matches`, `Shown`).
* RDT takes the value of RDH, after which the card has no descriptor (`WriteTail`).
* `identify` does not wait for DRQ, `write_28` waits for nothing, `flush` does not wait
  (`Polls`, `NextWord`).
* Keys with the prefix 0xE0 print the keypad's digits (`Prints`).
* Sizing a 64-bit BAR leaves its high half to be looked at as a BAR of its own; if that
  lies above 4 GB, it may become the card's registers (`ProbeBar`, `BeyondReach`). I/O BARs
  and BARs of 4 GB or more get size 0 and are never taken.
* A card without a memory BAR is driven through address 0, and one whose firmware set only
  bus mastering is left without memory decoding (`RegistersFound`, `CommandAfter`).
* A network card on a line that has a handler replaces it (`GetDriver`).
* `read_partitions` looks at no further partition once one fails, and no read's result is
  looked at in `msdospart.cpp` (`Mounted`, `Entries`, `ReadFile`).
* `send_packet` accepts packets when `tx_setup` failed (`SendPacket`); packets that arrive
  between `rx_setup` and `activate` raise no interrupt (`Activate`).
* A window dragged beyond the top or left edge is not drawn at all, though clicks reach it
  (`Filled`).
* `seek`'s comment "Should never get here" (`fat.cpp:443`) is on a path that a seek from a later
  cluster takes (`Seek`).
* The kernel's own context is not a task and does not come back after the first
  tick once a task was added (`Scheduler`).

Met and outside the models:

* `intel_82540em.h:27` has RDLEN at 0x2806, between RDBAH at 0x2804 and RDH at 0x2810, where the
  transmit ring's TLEN is at 0x3808.
* `get_device_descriptor` reads dwords at even offsets only, so that the class read from
  0x0B is the subclass and the interface read from 0x09 the revision
  (`pci.h:31-33`).
* The constructor of `MSDOSPartitionTable` reads into a local `m_mbr` that hides the member
  (`msdospart.cpp:74`).
* `make_directory` under a path that does not exist does not stop: `stat`'s error is not looked at
  (`fat.cpp:530-531`) and `parent_cluster` stays unset, so that the entry goes wherever that leads.
* A write to the PHY sets bits of MDIC and clears none.

## 7. Plan

Done: the heap with its refinement; the FAT table, handles and the iterator; the
rings and their set-up; interrupts and scheduler; console and keyboard; mouse and
desktop; the disk driver; the PCI scan and the boot; and a theorem for every
safety property of theirs.

Left, proofs: an abstract file system that `Fat32` implements (files as sequences of
clusters), which `ChainsStaySound` and `OthersUntouched` come close to saying; that the
composition `Boot` implements `Ata` and `Pci` as wholes, as `TasksImplemented` says of the
interrupts (the steps are shown, in `BootStepsAta` and `BootStepsPci`).

Left, models: `Fat32` on top of `Ata`, where a write that the drive drops is seen by the file
system; frames torn by a move; subdirectories.
