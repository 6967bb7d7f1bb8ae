# A formal model of libctr9

libctr9 is a C library for programs that run on the ARM9 processor of the
3DS, without an operating system.  This directory holds TLA+ modules that model
its parts, configurations with which TLC checks them on small instances, and
theorems that TLAPS checks for every value of the constants.

    tlc -config MCIrq.cfg MCIrq          # check one run
    tlapm IrqProofs.tla                  # check a module's proofs

Paths below are relative to `src/`.

## 1. The system

There is one processor and one thread.  Concurrency comes from interrupts, which
may arrive between any two instructions, and from hardware that runs by itself:
timers, the interrupt controller, the SD/MMC controller and the AES engine.
Everything else is calls: layers of I/O interfaces stacked over each other.

| part | state | operations | who calls it, what it calls |
|---|---|---|---|
| Interrupts, `src/ctr_irq.c` | registers IE and IF, handler table, `critical_count`, `saved_status` | critical enter/exit, master enable/disable, register, enable, disable, acknowledge, dispatch | called by everything that shares data with handlers; entered from the veneer |
| Veneer and vectors, `src/ctr_interrupt_asm.s`, `src/ctr_interrupt.c` | one exception stack, handler and data table | set, prepare, entry and return of an exception | calls the dispatcher |
| System clock, `src/ctr_system_clock.c` | `active_clocks`, `clocks[]`, a 64-bit count for each clock | initialize, get_ms, get_time, overflow handler | timers, interrupts |
| Timers, `src/ctr_timer.c` | value and control registers of four timers | set, get, start, stop | hardware |
| Byte access, `include/ctr9/io/ctr_io_implementation.c`, `ctr_sdmmc_implementation.c` | none between calls | read and write of a byte range | sector reads and writes of an interface |
| Interfaces: NAND, SD, memory, file, `src/ctr_*_interface.c` | a table of functions, and the device | read, write, their sector versions, sizes | byte access, driver |
| Encryption layer, `src/ctr_crypto_interface.c` | mode, key slot, counter, lower interface; the write window during a call | sector reads and writes | lower interface, AES engine |
| NAND encryption, `src/ctr_nand_crypto_interface.c` | once-only key set-up flags | initialize; transfers as above | encryption layer |
| SD/MMC driver, `src/sdmmc/sdmmc.c` | a record for each of two devices, the selected device, the controller's registers | init, read, write, get_cid, get_csd | controller |
| Disks, `src/ctr_disks.c`, `src/ctr_fatfs.c`, `src/fatfs/diskio.c` | table of disks with interface, size and status | initialize, status, read, write, ioctl | interfaces; called by fatfs |
| Drives, `src/ctr_drives.c` | one file system object for each drive; in every open file its drive and name | the C library's file and directory calls, check_ready, chdrive | fatfs |
| fatfs, `src/fatfs/ff.c` | for each volume a window of one sector, the count of free clusters, the last cluster taken, a mount ID, a current directory; the current drive; in every open file a sector buffer and flags | mount, open, read, write, seek, cut, sync, close, remove, rename, directories | disks |
| AES, `src/aes.c` | key slots, counter, two FIFOs | set key, encrypt, decrypt | hardware |
| Cart, `src/ctr_cart_interface.c`, `src/gamecart/` | headers, unit size | sector reads | cart bus |
| ELF loader, start-up, memory, caches, RTC, screen, console, input, PXI, I2C | | | |

The behaviours that are hard here:

* **interrupts between two instructions**: the statics of the critical sections,
  read-modify-write of IE, a 64-bit count read in two halves;
* **hardware that does not wait**: a timer wraps while interrupts are masked,
  and one pending bit remembers one overflow;
* **three different geometries**: bytes, sectors and cipher blocks, with ranges
  that start and end anywhere;
* **errors in the middle**: each sector call can fail, after some of its sectors;
* **initialisation that half succeeds**, and layers above that look only at what
  it left behind;
* **power that goes between two sector writes** of a file system that writes its
  table, its directory and its data one after the other, through caches;
* **handles and current directories that outlive** what they were opened on.

What makes each part correct:

* sections exclude handlers, nest, and restore the mask they found; an enabled
  line is served; an update of IE sets the line asked for and takes back no other update;
* a clock counts each overflow of its own timer once, and a reading is not torn
  and does not go back;
* a byte write changes the bytes of its range and no other, and reports failure;
  a read returns the range;
* what is written through encryption decrypts to what was given, at every
  alignment, and nothing else changes;
* a command reports its errors, loses none between two polls of the controller,
  moves all its data and ends; a device that was initialised can be reached whatever
  was done with the other one since; an initialisation that returns 0 went through on every
  device it was asked for, and the disk of a card has the size of that card;
* the AES queues neither overflow nor stall, and each block is combined with its
  own counter or the block before it;
* whatever is on a disk when power goes, no entry names a free cluster or
  another file's; what a sync or close promised is there; reads return what was
  written; the count of free clusters is right;
* a call acts on its own drive, a handle on the mount it was opened in, and
  directories stay a tree.

PROJECT.json lists the hazards at their lines, those not covered yet too.

## 2. Modules

| module | models | composed with |
|---|---|---|
| `CriticalSection` | what a critical section promises: an abstract specification with atomic open, close, interrupt and return | extended by `SystemClock`, implemented by `Irq` |
| `Irq` | `ctr_irq.c` and the veneer, instruction by instruction | instantiates `CriticalSection` |
| `IrqProofs` | theorems about `Irq` | |
| `SystemClock` | `ctr_system_clock.c`, its use of `ctr_timer.c` and of the dispatcher | extends `CriticalSection` |
| `SystemClockProofs` | theorems about `SystemClock` | |
| `Buffers` | buffers as functions, `memcpy` | |
| `ByteIo` | both copies of byte access over sectors | |
| `ByteIoProofs` | theorems about `ByteIo` | |
| `Crypto` | the encryption layer in counter mode | |
| `SdmmcCommand` | `sdmmc_send_command`, polling, and the controller that runs beside it | |
| `Sdmmc` | the rest of `sdmmc.c`, one command a step, both devices, and the cards | takes the end of a command from what `SdmmcCommand` shows |
| `Disks` | initialisation of the interfaces and disks, and their use by fatfs: `ctr_disks.c`, `ctr_fatfs.c`, `fatfs/ctr_fatfs_disk.c`, `fatfs/diskio.c` and the `initialize` of the NAND, SD and NAND encryption interfaces | extends `Sdmmc` |
| `Aes` | the moving of blocks in `aes.c`, the counter, and the engine that runs beside it | |
| `CryptoProofs` | theorems about `Crypto` and `Aes` | |
| `FatVolume` | one FAT volume below its files: window, table, chains, root directory, with disk errors and power cuts | extended by `FatFs` |
| `FatFs` | the file functions of `ff.c` on it, as the C library's calls of `ctr_drives.c` use them | |
| `FatFsProofs` | theorems about `FatVolume` and `FatFs`: whose each cluster is | |
| `FatBytesProofs` | lemmas: what each function of `FatFs` leaves alone, and what it does to the bytes of its file | extends `FatFsProofs` |
| `FatTextProofs` | theorems about the bytes of files | extends `FatBytesProofs` |
| `Drives` | the same calls on several drives: which volume they reach, mounts, directories, handles | a volume is a tree of directories here, and the bytes of its files are in `FatFs` |
| `DisksProofs` | theorems about `SdmmcCommand`, `Sdmmc`, `Disks` and `Drives` | |
| `MC*` | the instances TLC checks | |

The specifications of `Aes`, `ByteIo`, `Drives`, `SdmmcCommand` and `SystemClock` are `AesSpec`,
`ByteIoSpec`, `DrivesSpec`, `CommandSpec` and `ClockSpec`, and their variables have names of their
own, so that a module of proofs or of an instance can extend them along with another.

### Irq and CriticalSection

`pc[c]` says where context `c` stands, `"main"` or `"irq"`: one action is one
instruction that touches what both share.  `critical_enter` is EnterRead (`mrs`),
EnterMask (`msr`), EnterLoad and EnterStore (`critical_count++`) and EnterSave;
`critical_exit` is ExitLoad, ExitStore and ExitRestore.  `IeLoad` and `IeStore` are the
two halves of `IRQ_IE_REG |= ...`.  `Interrupt` is the processor's entry (it masks
and saves the mode), `Snapshot` and `CallHandler` the loop of `ctr_irq_handler`,
`HandlerReturn` and `Return` the way back.  A handler runs any calls of the library, sections included,
and acknowledges its line.  `open`, `outer`, `asked` and `overtaken` are history variables: the
sections a context has open, the mask at the outermost enter, the update of IE a context is in
the middle of, and the lines handlers have updated while main is in the middle of one.  The loop
goes over the lines of the table; that of the code goes one further than its table does (`i < 30`).

Rules for clients, which all code in the library follows: enter and exit are
balanced, the master switches are used outside sections, handlers do not unmask
(the single exception stack would not survive it), and a line is enabled once it
has a handler.  Nothing guards an update of IE: the program may make it outside a section, as
`ctr_system_clock_initialize` does, and then takes back what handlers change in between.
`NoLostUpdate` says that this is all that is ever taken back.

`CriticalSection` has three variables: who runs, how deep the program's sections
are, and whether it accepts interrupts outside them.  The refinement mapping
computes the depth and the mask from the program counters: a section is open
from `msr` of its enter to the store of the count, or the restore for the
outermost one, of its exit.

### SystemClock

It takes open, close and interrupt from `CriticalSection`, so each section is one
step, and keeps every access to what handlers or hardware share a step: nine
of `ctr_system_clock_initialize`, and two for the words of the 64-bit count.  The updates of IE in it
(`InitIrqOff`, `InitIrqOn`) are one step each, since no handler here changes IE.  A word has
two values and a period three counts.  `Tick` is the timer and runs at any time.  `DataOf`
is what a handler gets as `data`: NULL, that is timer 0, as `ctr_irq_register`
never stores it.  `get_ms` is the read of the count without the timer's value.  Readings
stay in timer counts; the conversion to seconds is left out.

### ByteIo

One action for each call of the sector driver, with the code up to the next one.  A driver call
either does what it is asked or fails, a write after any number of its
sectors; the driver drops the end of a buffer that does not fill a sector.
Bytes are named by their origin (write n, byte i), which loses nothing since
the code never looks at them.  `before` and `tail_lost` are history.

### Crypto

A byte of the device is its origin with the set of keystream bytes that are on
it.  Counter mode XORs, so encrypting and decrypting is adding or removing a
member.  The window of a write has the code's size and fields (`block` is always
the block of `current_sector` and is computed from it).  `Checked` says whether the
lower interface refuses what lies past its end and can fail (a disk), or not
(memory).  Sector sizes are multiples of the block size, or one, as in the library.
A read is given a number of sectors and the size of its buffer (`buffer_size`), and either may be
the larger.  The bytes copied from the first block are limited by the buffer and not by the bytes
asked for; when they are more, `bytes_left` of the code wraps and the loop goes on through
memory: the call stays `astray` and never returns (`short_read`).  `MCDevices` has one of two geometries, a disk or memory.

### SdmmcCommand

One action is one access of a register and the code up to the next: ReadStatus1,
MoveData (a block between buffer and FIFO, then Examine: an error ends the loop,
busy goes round), ReadStatus0, ReadRespend, Leave.  Between any two the
controller may respond, fill or drain its FIFO, end its data, fail, or drop its
busy bit.  `Issue` is everything up to the write of the command, with the block
count that the transfers put in a register of `CountLimit` values.  What
the program does to its `ctl32` bits and the bytes within a block is left out.

The source holds no description of the controller; what is assumed of it is
what the driver relies on: the data ends once the FIFO is empty, a new command
empties the FIFO, a command in error ends.  The choice `busyCovers` leaves open
whether busy lasts to the end of the data or only to the response: data is complete
in both cases; that no error is missed needs the first (`ErrorsReported`).

### Sdmmc and Disks

`call` is the driver's function in progress and the next of its `Commands`; a command ends
with an error or without, before or after the card has obeyed.  A card has the
states of the standard (idle, ready, identification, standby, transfer), a
width and a kind of address, and the SD card may be taken out or put in
at any time.  `InitTarget` selects a port with the clock and width of a handle.
The registers that `InitSD` resets are set again by the `inittarget` that follows it
in both initialisations.  The loops of `op_cond` are one step, enabled when the
card is ready.  `get_csd` is called by nobody and left out, and `calcSDSize` gives the size of the
card (`SizeOf`), without the bits it takes it from.  `sound` and `disturbed` are history: the devices
whose last initialisation went through and which are still there, and those that were
taken out, or whose identification could not be read, since their initialisation began.

`op` in `Disks` is the initialisation or access in progress: the steps of
`ctr_disks_initialize` and `ctr_fatfs_default_setup` still to come, and the result
so far.  A step begins a function of the driver (`Begins`) and takes its result (`Ends`).
fatfs mounts a disk, which reads its first sector, before it uses it, and again
when `disk_status_` says it is not initialised.

### Aes

A call hands blocks to the engine in chunks (a counter of 16 bits holds a chunk),
a chunk in batches of four blocks, a block in words.  `Push` and `Pop` move one
block into or out of a FIFO and `Poll` is the program's look at the count;
`Engine`, at any time, takes a block from one FIFO and puts one into the other.
`StartBatch` is the only check for room.  The counter is added to in words with
carries (`AddCtr`), a word being a number below `Word`.  What is encrypted is left out: a block
is what it is combined with.

### FatVolume and FatFs

An operator takes the state of a volume and gives the state a function of `ff.c`
leaves: the disk, the window with its dirty flag, the counts, the file, the result,
and `media`, every content the disk had on the way.  So one call is one step, and a
crash (`Crash`) picks any content of `media`: power may go between any two
sector writes.  A disk access may fail, `MaxFaults` times, and the functions
go on as their error paths do.  `book` is what the callers know of each name: its
bytes, or that it is absent, and whether this was promised to be stored.  `last.stray` says
that some `f_truncate` has freed the sector its file's buffer was yet to be stored in (history): what
files hold after that is anyone's guess, and no property of bytes speaks of it.

A loop of the code is `Loop`: a turn takes the state of the driver and the variable
of the loop to those it may leave, and says whether there is a next one.  The bound
on turns is one no loop of the code passes: `remove_chain` frees a cluster in each turn but
the last, `create_chain` and `f_getfree` look at each cluster once, reads, writes and seeks move
by a byte at least (theorem `NoLoopIsCutShort`).

A volume is of type FAT16, with a root directory of one sector, one sector a cluster,
and one table; sectors hold two table entries or two bytes.  Left out of
`ff.c`: FAT12, FAT32 and exFAT, long names, subdirectories, the second table (written
behind the first, never read), attributes and times, formatting, and files of 4 GiB.
Seeks give a position from the start.  A file is not removed or renamed while it
is open and is opened once at a time for writing, which `_FS_LOCK` 0 in `ffconf.h` leaves to the program.

### Drives

The C library picks a device (`FindDevice`), and the path goes on with its drive, or without
one if it had none.  Each operator of fatfs gives the states it can leave its volume
in, failures included; `find_volume` mounts it first if it must.  `era` counts how often a volume was mounted or
its disk set up; a handle keeps the era it was opened in, and `last` what the
call asked for and what it reached (history, all three).  `steady` says of an open file that its name still
leads where it did: not once the volume's current directory is changed and the name is
relative (`Relative`), a directory of the volume is moved, or its volume is mounted anew.

Rules for clients: what is open is not removed or moved, a directory is not
moved below itself (`f_rename` does not refuse it), both names of a
rename have the same drive (the second one is not looked at), and a card is not
changed without its disk being set up again.  An error leaves the tree as it was: what an error leaves on the disk is `FatFs`.
The mount ID is a number that does not wrap.

## 3. Runs

Four runs pass.  `devices` and `storage` each hold several systems that share no state: `over`
says in the initial state which one runs, and the others rest in one of their initial states (one
is enough, since nothing of them is looked at).  So each system is checked as if it were alone.

| run | system, instance | shows |
|---|---|---|
| `irq` | `Irq`: 2 lines, depth 2 | `MutualExclusion`, `BooksBalance` (count and saved status agree with the open sections at every instruction), `NoNesting`, `NoLostUpdate`, `EveryLineServed`, and that `Irq` implements `CriticalSection` |
| `devices` | `"clock"`: `SystemClock`, 1 clock, another device, period 3, words of 2 values, 4 overflows | `OverflowsAccountedFor`: overflows = count + lost + pending; `NoNullClock`; `ReadingBound`: never ahead, behind only by what is pending or lost; `OverflowServed` |
| | `"disk"`, `"memory"`: `Crypto`, 11 sectors of 4, blocks of 2; 18 sectors of 1, blocks of 3; any length and buffer | `RangeOldOrNew`, `NoDamageBeyondLastBlock`, `FullSectorsStored`, `ReadsPlaintext`, in either geometry (`OldOrNewBoth`, `NoDamageBoth`, `StoredBoth`, `PlaintextBoth`) |
| | `"sd"`: `SdmmcCommand`, 1, 2 or 4 blocks, a counter of 3 values | `ErrorsReported`, `TransferComplete`, `ResponseArrived`, `CommandEnds` |
| | `"aes"`: `Aes`, FIFOs of 16 words, batches of 4 blocks, chunks of 5, words of 8 values, up to 11 blocks | `FifosBounded`; `BlocksChained`: block i is combined with counter + i, or with the block before it; `CallEnds` |
| `storage` | `"disks"`: `Disks`, 2 initialisations, disks CTRNAND and SD, cards of 2 sizes | `TransfersReachCard`: the port, clock, width and address unit a transfer uses are the card's; `SuccessMeansReady`; `NullOnlyAfterFailure`; `SdSize` |
| | `"drives"`: `Drives`, 2 drives, one file and one directory open, 3 entries, 5 calls | `RightPlace`, `OwnMount`, `TreeSound` |
| | `"bytes"`: `ByteIo`, 4 sectors of 3 bytes, all ranges | `OnlyAPrefixWritten`, `WrittenButForTail`, `ReadsTheRange` |
| `fatfs` | `FatFs`: 3 clusters of 2 bytes, names a and b, 6 calls, 1 disk error | `CrashSound`: whatever is on the disk at any moment, chains do not end in free clusters or cross; `SettledStored`: what was promised is on it; `ReadsBack`; `FreeCountKept` |

Eight runs show where the code does not do what a header of the repository says; each checks one
property, which is **violated**, and is a finding of PROJECT.json:

| run | property | what happens |
|---|---|---|
| `two_clocks` | `CountsOwnTimer` | the dropped `data` makes clock 0 count for all clocks |
| `crypto_tail` | `NothingPastTheBuffer` | up to a block less one byte after the buffer is encrypted twice |
| `short_read` | `ReadsReturn` | an encrypted read of less than a block, from inside one, into a larger buffer goes on past the buffer |
| `write_tail` | `ZeroMeansWritten` | a byte write whose last sector could not be written returns 0 |
| `cid_lost` | `ZeroMeansNoProblem` | the NAND's identification cannot be read, and the initialisation returns 0 |
| `null_drive` | `NoNullCall` | a failed initialisation leaves disks that look ready, and making one ready calls a NULL function |
| `other_drive` | `DefaultDriveUsed` | a directory named without a drive is opened on the drive of the call before |
| `fsync_lost` | `SyncStores` | after an f_sync that failed, the next one does nothing and succeeds |

Why the bounds are enough:

* two lines give a line that waits behind another; depth two tells the outermost
  section from the others, which is all the code does;
* four overflows carry the count over its low word twice, and a timer whose line
  stays pending loses some; the second word, wrap of the period and a restart
  with a pending line all occur;
* a call has at most three sections, and what it does depends on whether each is
  empty and on the offset; four sectors of three bytes have all combinations,
  with two whole sectors in the middle.  Calls keep no state, so one write,
  with reads before and after, is enough.  So it is for `Crypto`, where `MCDevices` ends a
  behaviour after a read: that leaves the device as it was, and what follows it
  can follow the call before it;
* the window is five sectors, so a disk of eleven has writes of two and three
  windows and their failures; on a disk every write that would read past the
  end is refused, which is what the code does.  With memory the window is five
  blocks and the device six;
* a transfer of two blocks has one that is moved while another comes and one
  that is last; the FIFO holds one;
* eleven blocks are two full chunks and one of a single block; five blocks are a batch of four and one of
  one, and FIFO size and batch are those of the code;
* three clusters hold a file of two, so that chains grow, are cut and cross if
  they can, and the volume can be full; a write of three bytes begins or
  ends inside a sector; six calls are open, write, sync or cut, close and two
  more on what is left, with an error in any of them and the power gone at any moment;
* five calls open a handle or change a directory, disturb it (remount, another card,
  removal, a call on the other drive), and use it.  There are relative names of a file, a directory
  and the current directory, paths through a directory on the card, and the root of the NAND,
  whose disk is in order at first;
* two initialisations are a failed or good one and the next, which finds what it
  left, of any of the three entries; the disks of the TWL partitions differ
  from CTRNAND by their interface, which `Disks` has, and their numbers.

Every property has a mutant, an operator beside the one it changes, that breaks it: a forgotten
mask, a line left disabled, a stale buffer, a keystream not advanced.

What the passing properties leave out, and why:

* the clock on timer 0 is the only one, since others are counted there (`two_clocks`);
* `ReadingBound` allows a reading to be behind by an overflow not yet counted;
* `NoLostUpdate` lets main, outside a section, take back updates of handlers: the code does,
  and no doc says otherwise;
* `TransferComplete` is stated for counts that the register holds;
* `WrittenButForTail` allows the last sector to be missing (`write_tail`);
* those of `Crypto` allow for damage in the block a write ends in (`crypto_tail`), and `ReadsPlaintext`
  speaks of calls that return (`short_read`);
* `SuccessMeansReady` allows for a device taken out since, and a failed get_cid (`cid_lost`);
  `NullOnlyAfterFailure` for what follows a failed initialisation (`null_drive`);
* `RightPlace` allows diropen to use the drive of the call before (`other_drive`), and fstat to find another
  file when the name is relative and the current directory changed, a directory was moved, or the
  volume was mounted anew;
* `CrashSound` leaves out a chain that `f_truncate` has cut and not stored (`cut`); `SettledStored` and `ReadsBack` say nothing
  of what was promised by an f_sync that stored nothing (`book.lost`, `fsync_lost`) nor after an f_truncate that left a stray buffer (`last.stray`);
* `FreeCountKept` holds until a call fails or a cluster is taken from a volume that was all free.

## 4. Fairness

`Irq`: the processor executes the next instruction of the context that runs
(weak fairness of calls in progress and of the dispatcher), and takes an
interrupt it is offered again and again (strong fairness, since the program may
mask in between).  No fairness on the program's decision to call anything, nor
on devices.  Liveness is stated for programs that keep accepting interrupts.
`SystemClock`: the same, with no fairness on timers.  `SdmmcCommand`: a call in
progress goes on (one thread, which polls), and the controller ends or fails
every command (its time-outs bound each phase: `TMIO_STAT1_CMDTIMEOUT` and
`TMIO_STAT1_DATATIMEOUT` are among the errors the driver looks for).  No fairness on
new commands.  `Disks` has safety only, since its loops can hang with a silent card,
and the byte and encryption layers wait for nothing.

`Aes`: the program goes on and the engine takes a block it can take (weak fairness of
each).  `FatFs` and `Drives` wait for nothing.

In `devices` each system has its own fairness while it is the one that runs (`FairDevices`); `storage` has none.

Deadlock is checked in every run but `fatfs`, `fsync_lost` and `other_drive`, whose bound
on calls ends them; in `storage` drives that have made their calls stutter.

## 5. Proofs

`IrqProofs` proves, for every set of lines and every nesting depth:

| theorem | property |
|---|---|
| `Invariant` | the inductive invariant `IInv` |
| `TypeCorrect` | `TypeOK` |
| `SectionsExclude` | `MutualExclusion` |
| `StaticsBalance` | `BooksBalance` |
| `HandlersStayMasked` | `NoNesting` |
| `UpdatesReachOneLine` | `NoLostUpdate` |
| `Refinement` | `ImplementsCriticalSection` |

Assumptions: `IrqsAssumption` and `DepthAssumption` of `Irq`.

`MutualExclusion` is not inductive: it says nothing of the halfway points.  `IInv`
adds where each context can stand (`Places`), which sections are open there
(`Sections`), when the mask is set (`Masking`), what the shared count and the
local copy of it are (`Counting`), whose status is saved (`SavedForMain`,
`SavedForIrq`), and that an update in flight has the line asked for as asked and differs from IE
only in it and in lines handlers have updated since, of which there are none in a section
(`OneLine`).  Each action gets a step that proves `IInv'`; the properties and the
refinement follow from `IInv` and the action.  TLC has checked `IInv` too.

`SystemClockProofs` proves, for one clock on timer 0, any period, word size, bound on
overflows and nesting depth:

| theorem | property |
|---|---|
| `Invariant` | the inductive invariant `IInv` |
| `TypeCorrect` | `ClockTypeOK` |
| `EveryOverflow` | `OverflowsAccountedFor` |
| `ClockIsThere` | `NoNullClock` |
| `ReadingsNotTorn` | `ReadingBound` |

Assumptions: `Timers = {0}` (with more, the first finding applies), `ClockAssumption` and
`MaxDepthAssumption`.  The account of overflows needs more than itself: that between its stop
and its start a timer raises nothing and that the count is zeroed after the last
pending overflow is acknowledged (`Silent`), that a handler is attached only over a stored clock
(`Attached`), and that what is in the snapshot of the dispatcher stays pending until its
own handler takes it (`Snapshots`).  A reading is not torn since a section is open in its course
(`Places`), so both words are of one count (`Reads`).

`ByteIoProofs` proves, for sectors and devices of any size and ranges anywhere:

| theorem | property |
|---|---|
| `Invariant` | the inductive invariant `IInv` |
| `PrefixWritten` | `OnlyAPrefixWritten` |
| `WrittenOnSuccess` | `WrittenButForTail` |
| `RangeRead` | `ReadsTheRange` |

Assumption: `ByteIoAssumption`.  The invariant says where each section begins: the next sector
starts exactly where the bytes that are left do (`Progress`), what is stored is a prefix
(`Stored`), and a first or last sector about to be written is the device's with the source
in it (`SectorReady`).  The arithmetic of `/` and `%` it takes is in lemmas of its own.

`CryptoProofs` proves, for blocks, sectors and devices of any size the layer takes (sectors of
whole blocks, or of one byte), failing calls included:

| theorem | property |
|---|---|
| `Invariant` | the inductive invariant `CryptoInv` |
| `PlaintextRead` | `ReadsPlaintext` |
| `OldOrNew` | `RangeOldOrNew` |
| `NoDamage` | `NoDamageBeyondLastBlock` |
| `SectorsStored` | `FullSectorsStored` |

Assumption: `CryptoAssumption`.  The run checks the same four over two geometries, under
the names of `MCDevices`.  For reads the invariant is that the three parts meet
(`Sections`: the whole blocks begin where the first block ends), for any size of the buffer and any
number of bytes asked for; where the code goes past them (`astray`) the call does not return, and the property is of calls that do.  For writes it is that the
window lies in its place (`Windowed`): it begins with a block, so `block_offset` is always 0, the next
new bytes go where the next bytes of the call belong, and `current_sector` is ahead
of the window by as much as the first sector is into its block.  The window is a
multiple of the block and of the sector (`WindowSizes`), so a window that is not the last is
written whole and nothing remains; and what precedes the new bytes is decrypted and encrypted
back to what it was (`XorTwice`).

It also proves of the engine and the calls that feed it, for every capacity, batch, chunk, word and number of blocks:

| theorem | property |
|---|---|
| `AddCtrAdds` | `AddCtr` is addition modulo the size of the counter, for any word size |
| `FifoInvariant` | how far the program, the engine and both FIFOs are apart |
| `AesTypeCorrect` | `AesTypeOK` |
| `FifosStayBounded` | `FifosBounded` |
| `ChainInvariant` | what the engine and the program hold for the next block |
| `BlocksAreChained` | `BlocksChained` |

Assumptions: those of `Aes`; that a batch fits a FIFO (`SizesAssumption`) is all the bound needs.  A count in a FIFO alone is not inductive:
the invariant ties it to how many blocks of the batch each side has passed.

`DisksProofs` proves, for cards of any size and any disks:

| theorem | property |
|---|---|
| `Invariant` | the inductive invariant of `Sdmmc` and `Disks` |
| `TransfersReach` | `TransfersReachCard` |
| `ReadyOnSuccess` | `SuccessMeansReady` |
| `NoNullInterface` | `NullOnlyAfterFailure` |
| `SizeOfCard` | `SdSize` |

Assumptions: `SizesAssumption` and `DisksAssumption`.  `TransfersReachCard` speaks of a device that was
initialised; the invariant (`Progress`) says of an initialisation under way that it has
learned what it has asked for, unless the card was changed: then no later command is
answered, and it fails.  `SoundDevices` keeps it from then on, also while the other device is
set up (`Selected`).  `DiskInv` adds what the initialisation of the disks has come to
(`SoFar`), the size of what it has set up (`Sized`), and the table (`Registered`).  That a
result of 0 means that the devices are there and set up needs one thing more (`ReadyInv`): a step that is behind
left its device sound, unless it was disturbed since, and no step after it undoes that.

It also proves of a polled command, for every set of block counts and every size of the
counter register:

| theorem | property |
|---|---|
| `CommandInvariant` | the inductive invariant `CommandInv` |
| `TypeCorrect` | `TypeOK` |
| `ErrorsAreReported` | `ErrorsReported` |
| `ResponseIsThere` | `ResponseArrived` |
| `TransfersComplete` | `TransferComplete` |

Assumptions: `CountsAssumption` and `LimitAssumption` of `SdmmcCommand`.  The properties speak
of a call that is over; `CommandInv` says what holds at each access before: the bits
are those raised since the command was written (`BitsKept`), the controller has
failed or been answered before it ends or drops busy (`JobBooks`), what the
program read still holds when it acts on it (`Seen`), what it says of it
(`Reported`), which blocks are in the buffer, the FIFO and the card (`Moved`), and
what DATAEND means (`Ended`).  That no error falls between the reads of status1
and status0 is the second conjunct of `Seen`: once busy has fallen, with no
error, no error can follow.  TLC has checked `CommandInv` too.

And of the drives, for any drives, media, number of calls, and paths of any length:

| theorem | property |
|---|---|
| `MountInvariant` | the inductive invariant `MountInv` |
| `HandlesOfTheirMount` | `OwnMount` |
| `TreesStaySound` | `TreeSound` |
| `CallsActWhereAsked` | `RightPlace` |

Assumptions: `DrivesAssumption`, and that the trees found on media are well formed (`TreesAssumption`).
`OwnMount` speaks of a call that was made; `MountInv` says
of every open handle that if its ID is the volume's, and the volume is in use, it is of
the present mount.  That holds since IDs are given out in order (`VolOK`), a mount takes a new one
(`Sound`), and the functions of fatfs change nothing of the mount (`SameMount`).

`RightPlace` says that a call acts on the drive asked for (but diropen without a drive), and
that `fstat_r`, which goes by the name the file was opened with, finds the very file while that name
leads where it did (`steady`).  `WayInv` says why (`WayOK`): as long as the mount and the current
directory are those of its opening, each step of its path is still
the entry it was, since what is open is not removed, a directory that holds an entry is not removed
either, and a name is given once.  A path is followed name by name, by induction over its
length.  `TreeSound` is kept by what `f_unlink` and `f_rename` refuse.

`FatFsProofs` proves, for volumes, sectors, files, writes and positions of any size, and any
number of calls and of disk accesses that fail:

| theorem | property |
|---|---|
| `FatTypes` | `FatTypeOK` |
| `CrashFindsSound` | `CrashSound` |
| `CountIsRight` | `FreeCountKept` |

Assumptions: `VolumeAssumption`, that the volume as found is healthy (`FirstDiskAssumption`: chains do
not meet, each has one owner and room for its size), and `CallsAssumption`.  `CrashSound`
speaks of the disk alone, and a call that goes on with the window, an open file and a table
it has changed half could break it later.  The invariant (`Inv`) says it of three volumes at once (`Well`): as the
driver sees it, with the window laid over the disk and the open files; the disk as it is; and
every content it had in the last call.  Each is `Sound`: no two clusters lead to the same one
and none to a free one (`Proper`), the first cluster of an entry or an open file is one
nothing leads to, and no other file's (`Claims`, `Starts`), the chain has room for the size
(`Room`), and the current cluster of an open file is the one of its position (`At`).  In the middle of
a call a file may be worse off (`Torn`: its clusters are its own, and that is all), and a
chain may have no owner, which harms nobody.  So the order of the code is what counts: a new cluster is marked before
it is linked, an entry let go of before its chain is freed, and the window written before
another sector is read.  Each function is shown to keep this from any state it may be called in, and
whichever of its accesses fails.  A file that was cut is left out of the names
relied on (`Uncut`) until its entry is stored.
`CountIsRight` needs `FreeOK`: a count that is sure is the number of free clusters in the
table as seen, whatever is changed there.

What a loop leaves is found by induction over its turns (`RunIn`, `KeptByTurns`): what
holds at the start and is kept by each turn holds at the end.  `NoLoopIsCutShort` says that the
bound of a loop takes no outcome away: something becomes less in every turn (`Shrinks`), and there was
no more of it than the bound (`RunEnds`).  Chains are walked by induction over their length
(`WalksMeet`, `ChainGrown`).  The induction theorems of the library cannot be used, as
they take an operator; that every set of numbers that is not empty has a least one can,
and it is all these proofs need.

`FatTextProofs` proves, for the same volumes, files and calls, of what is in the files:

| theorem | property |
|---|---|
| `PromisesKept` | `SettledStored` |
| `ReadsAreRight` | `ReadsBack` |

Assumptions: those of `FatFsProofs`.  It relies on `Inv` for whose each cluster is and adds what is in it
(`TextInv`).  `Holding` says of each name how what its callers know is borne out: `Known`, of the
volume as the driver sees it, that an open file reads its text (`Reads`: each sector of its chain, or
its buffer if that is of the sector) and that a closed one has it on its chain (`Good`); and, if the
mark of the file is off (`Solid`), that the text is on every content the disk had in the last call,
on the same chain (`AllFirm`).  Both properties need it: what is on the disk between two calls
says nothing of the bytes that wait in the window or a buffer, and what a read will find says nothing of the disk.

The argument has two halves.  First (`FatBytesProofs`), what a function leaves alone: `Calm` says that from
one state to another the links of some clusters, the content of others and some entries stay, on the
volume as seen and on every content of the disk in between; `Gentle` is the same for steps that
write none of a file's own text.  Each function of the driver is shown to be calm outside the
clusters of its file (`Rest`) and its entry, in whatever order it marks,
links, frees and writes, whichever access fails.  So `Holding` is kept for all names but the one called
(`OthersHold` and its kin).  Second, for that name each call remakes it: a write lays its bytes over
the text sector by sector (`Overlay`), a seek past the end lengthens it by bytes nobody knows (`Gapped`),
`f_truncate` keeps its beginning (`Cutoff`), and `f_sync` writes the buffer and
then the entry, so that after it the text is on the disk (`Noted`).

`PromisesKept` is not of every f_sync that returned 0: one that had nothing to do since an earlier one failed
unseen promises nothing (`book.lost`, the run `fsync_lost`).  The history `last.stray` marks the other way out: an `f_truncate` that has freed the sector its
dirty buffer is of.  Under it both theorems say nothing, since the code really may write that
buffer over another file (see the facts below).  Two changes of the model went with these
proofs, and neither changes a behaviour: the conditions of a `CASE` exclude
each other, so that the prover can follow it, and the bytes taken of a sector are a
function (`Bytes`).

Only model-checked: liveness (the prover does not do fairness); and the four properties of `MCDevices`,
which say of two geometries together what the theorems of `CryptoProofs` say of each.

## 6. Not modelled

* conversion of clock readings to seconds, prescalers, count-up timers;
* exceptions other than IRQ; the vector table;
* sector access of the encryption layer in CBC and ECB, the choice of a mode, AES key slots, `subtract_ctr`;
* `sdmmc_get_csd` (never called) and the bits of `calcSDSize`; disks DISK0 to DISK5 and the queries
  of `disk_ioctl_`;
* of fatfs what is listed under `FatVolume`; the tables of code pages in
  `fatfs/option/`, about two thirds of the lines of the repository, are data;
* the parts of PROJECT.json with status `not_modelled`: the cart's mapping of sectors and
  the loader are small and sequential; caches, memory map, start-up, screen,
  console, input, RTC, PXI and I2C are device I/O or wrappers over a library not
  in this repository.

Facts found while reading that no run shows:

* a write within the last sectors of an encrypted disk is refused, since the whole window is read (the
  FIXME at `ctr_crypto_interface.c:477`); a failed read of a window's first
  bytes is ignored (`:545`), which no interface of the library can cause;
* a byte write through the encryption layer hands its middle section to
  `write_sector` with the tail still attached, which damages the block behind
  it, and the last section reads the damaged bytes back as its background;
* a time read with interrupts masked can be earlier than the one before
  (`ctr_system_clock.c:61`); `ctr_timer_get_state` reads the next timer's counter (`ctr_timer.c:60`);
* a transfer of more than 2^16 - 1 blocks moves the remainder and returns 0 (`sdmmc.c:234`);
  the loops at `:398` and `:464` have no limit;
* a line that is enabled without a handler interrupts for ever (`ctr_irq.c:124`);
* CBC encryption of more than 0xFFFF blocks goes wrong at the second chunk, as the last input
  block is kept and not the last output (`aes.c:166`); `cbc_encrypt` is declared and not defined;
* after its first window a write takes `current_sector` too far by what the first sector is into
  its block (`ctr_crypto_interface.c`, update_window), harmless for the range: only the rest of the
  last block is read from the wrong place;
* cart: a read with no cart returns 0 and fills nothing (`ctr_cart_interface.c:57`); 0xFF is given from
  0x1200 to 0x4000 (`:146`), where `ctr_cart_interface.h:61` says to 0x2000; with media units
  larger than 0x200 the NCCH header is never given, as `0x200/unit_size` is 0 (`:253`), and the command takes
  sectors of 0x200 all the same (`command_ctr.c`);
* fatfs: when every cluster is free and counted, taking one does not change the count (`ff.c:1360`); a failed
  `f_getfree` keeps a partial count (`:4335`); `f_truncate` frees clusters before the entry lets go of
  them (`:4350-4391`), and before it stores the file's buffer, which may be that of one of them
  (dirty after an `f_sync` that failed unseen): if that fails too, the next `f_sync` or `f_close` of the
  file writes the stale buffer over whoever has taken the cluster and returns 0; `CTRL_SYNC` always succeeds (`diskio.c:165`);
* drives: a seek from the end subtracts (`ctr_drives.c:194`); `O_APPEND` counts only at
  open; `ftruncate` ignores its length and cuts at the position; `diropen` copies the path through a pointer
  that is still NULL and then allocates (`:319-320`); `dirnext` returns 0 with an empty name at the end of a directory, so a loop until it
  fails does not end (`:331-355`); `fstat` finds the file by name, another one after a change of directory;
  `example3.c:25` takes the result of `check_ready` for a truth value, which is 0 for a drive that is ready.

## 7. Plan

1. `Cart`: mapping of logical sectors against a reference definition.
2. `CryptoByteIo`: `ByteIo` over `Crypto`; the byte writes of the NAND and of
   encrypted memory as one system.
3. `Drives` over `FatFs`: subdirectories and several volumes with their bytes.
4. `SdmmcCommand` shown to implement the one-step command of `Sdmmc`; `calcSDSize`.
5. Timers' own module with prescalers and conversion; the ELF loader.
