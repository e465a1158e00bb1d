# A verification project for emuk86

emuk86 is a small kernel for the i386 with a MINIX 3 file system.  At this
commit it is two programs.  The *kernel* (`kmain.c`, `drivers/`, `mm/`, `x86/`)
sets up segments, interrupts, the console and paging, and stops.  The *file
system* (`fs/`, `proc/`) is the kernel's code too, but is built as a user-space
program, `fs/main.c`, over an image file.  Both are single-threaded; the kernel
has interrupts.

This directory has TLA+ modules that model parts of it, TLC configurations that
check them on small instances, and proofs for TLAPS.  All paths below are
relative to `src/`.  `tlc -config X.cfg M` in this directory repeats a run,
`tlapm M.tla` a proof.

## The system

| part | state it keeps | operations | modules |
|---|---|---|---|
| linked list, `include/list.h` | previous and next of every node | init, insert, remove, first, is-empty | `List`, `ListProofs` |
| buffer cache, `fs/blkpool.c` | array of buffers (number, valid, locked, contents), free list | `blkpool_getblk`, `_putblk`, `_get_any` | `BlkPool`, `BlockStore`, `BlkPoolProofs` |
| disk image, `fs/hdd.c` | the image | read and write a block | in `BlkPool` |
| inode pool, `fs/ipool.c` | array of inodes (number, count, locked, valid, contents), free list | `ipool_geti`, `ipool_puti`, lock, unlock | `IPool` |
| file table, `fs/file_table.c` | entries (inode, count, offset, mode), free list | allocate, release | `FileTable`, `FsProofs`; the offset in `FileData` |
| descriptors, `fs/fd_table.c` | descriptor to entry | allocate, duplicate, release | `FileTable` |
| calls, `fs/fs.c` | none of its own | `fs_open`, `fs_creat`, `fs_close`; `fs_read`, `fs_write` | `Fs`, `OpenFiles`, `FsProofs`; `FileData`, `ByteFile`, `FileDataProofs` |
| path walk, allocation, `fs/minix3.c` | none of its own | `minix3_namei`, `minix3_alloci`, `minix3_readi`; `minix3_bmap` | `Path`, `Layout`, `Fs`, `FsProofs`; `Bmap`, `FileData`, `FileDataProofs` |
| bitmaps, `fs/minix3_imap.c`, `_zmap.c`, `blkbit.h` | blocks of the image | look for a free bit, set, clear | `Layout`, `Fs` (inode bitmap) |
| superblock, `fs/superblock.c` | the superblock, its lock | read, get, put | constants of `Layout`; its locked block in `FileData` |
| process table, `proc/` | the one process: root directory, descriptors | init | `Fs` (initial state) |
| keyboard, `drivers/keyboard.c` | modifiers that are down | `keyboard_init`, `keyboard_isr`, enable, disable | `Keyboard`, `Console`, `Kernel` |
| console, `drivers/console.c` | input buffer, flags, cursor | `console_put_ibuf`, `console_get_line`, `console_put_char`, `console_clear` | `Console`, `ConsoleProofs`; its use of interrupts in `Kernel` |
| interrupt controllers, `drivers/pic.c` | masks, requests, lines in service | initialise, enable, disable, end of interrupt | `Pic`, `Kernel`, `KernelProofs` |
| segments, interrupts, `x86/` | both descriptor tables, the interrupt flag | set up, register, the handlers of `isr.S` | `Descriptors`, `Kernel`, `KernelProofs` |
| kernel entry, `kmain.c` | none | the order of the set-up, the page fault | `Kernel` |
| frames, `mm/frame.c` | bitmap | `frame_alloc`, `frame_dealloc` | `Frame`, `MCFrame`, `FrameProofs` |
| paging, `mm/paging.c`, `page_dir.c`, `page_tables.c` | directory, two tables | `paging_init`, `_map`, `_unmap`, `_vaddr2paddr` | `Paging`, `PagingProofs` |
| screen, `drivers/vga.c` | video memory | write, scroll, clear, cursor | what `Console` needs of it |
| library, `lib/` | none | `printf`, `memcpy`, `bzero` | none |

How they interact.  `fs.c` calls the path walk, which gets and gives back inodes
of the pool; a miss in the pool reads the inode, and a walk reads directories,
through the buffer cache; descriptors refer to file table entries, and these
hold a reference to an inode.  `fs_read` and `fs_write` find the block of an
offset through the tables of the inode, each of which they take out of the
buffer cache, and copy from or to it there.  In the kernel the keyboard
interrupt calls `console_put_ibuf`, which shares the input buffer, the flags
`line_completed` and `cleared`, the cursor and the screen with
`console_get_line`, and is kept out only by masking the keyboard's line in the
interrupt controller; an interrupt gets to its handler only if controller,
vector, gate and segment descriptors fit.  Paging reads the tables that the
processor is using through the directory's entry for itself.

What is hard:

* *Reference counts and locks over failures.*  A walk of a path has ten ways out
  and its callers several more; on each, every inode must be unlocked and given
  back exactly once.  A pool of eight inodes and a `while (1)` on a locked one
  make every mistake fatal, but not at once.
* *What a pool keeps after a failure.*  A buffer or an inode that could not be
  read stays under the number that was asked for and is found again.
* *Replacement against use.*  A buffer may be taken only from the free list, the
  list must have exactly those not locked, and a free one must equal the disk.
* *Transfers in pieces*, with block boundaries, levels of tables, the end of the
  file and holes, any of which may be where a block cannot be read.
* *The interrupt against the program.*  Between any two steps of
  `console_get_line` a key may be handled, and between the read and the write of
  the cursor's position too.
* *Lines masked, requested and in service* in two controllers at once, while the
  program changes the masks.
* *Switching directories while running*, with translations in the processor's
  cache, and tables that can only be reached through the mapping they define.
* *Boundaries*: exhausted pools and tables, the last frame, wrapping addresses,
  the first and the last bit of a bitmap.

`PROJECT.json` lists each as a hazard, at its line, with the properties that
would catch it going wrong; those without a property have a note that says why.

## The modules

**List** is `list.h`: a function from nodes to links, and its operations as
operators on it.  `IsList` says that links form the circular list of a given
sequence.  **ListProofs** has the lemmas: what insertion at the end, removal and
the end of the list do to that sequence.

**BlkPool** is the buffer cache.  `buf` is the array, `link` the list nodes,
`disk` the image.  A call is one step, since the program is one thread and
nothing comes in between; the callers' side is `held`, which buffers they have
for which block, and `StoreInto`.  A call that meets `while (1)` sets
`spinning`, and nothing happens afterwards.  Reads and writes of `BadBlocks` may
fail in every way: a failing read leaves anything in the buffer, a failing write
stores the block or not.  **BlockStore** says what callers rely on: one copy of
a block at a time, starting as the disk has it, stored when it is given back.

**IPool** and **FileTable** are the operations on inodes, entries and
descriptors as operators; the several outcomes of `ipool_geti` (hit, miss,
failed read, none free, spinning) are operators too, and **Fs** chooses among
those that are enabled.  `Fs` runs `fs_open` and `fs_creat` step by step:
`call` has the pointers that the C functions have in local variables, and
`call.pc` the place, each step making at most one change to a count.  The
contents of an inode in memory are the number of the inode they were read from
(`dinode`): this tells an inode whose contents are not its own.  `lost` is
history: the references that `fs_creat` forgets.

**Path** is how `minix3_namei` splits a path, which is a sequence of names and
separators: `_component_set` looks at the character after the current one and
after that, so where the separators are matters and what is in a name does not.
**Layout** is where inodes and their bits are: block, index, byte and bit are
calculated as in the code, the bitmap is a set of such bits, and the table is
where mkfs puts it.  A bit in a block that cannot be read is, as in
`minix3_imap_get_free`, an uninitialized variable: it may be used and it may be
free.  The tree of directories does not change.  **OpenFiles** says what the
calls promise: a descriptor refers to the file that its path names, where
`Resolve` goes from directory to directory by the tokens of the path, without
the walk, its components and its shortcuts, and a new file has a number that
nothing else has.  **MCFs** has a disk with two directories and
two files.

**Bmap** has the levels and the indexes of a logical block; **FileData** has
`fs_read` and `fs_write`, one block to a step, and `minix3_bmap` over them.
`store` is the store of blocks that `BlockStore` describes: a step takes the
tables and the block out and puts them back.  What may be taken out of a bad
block, of the boot block, or of a number beyond the disk is anything in
`Garbage`, and such a copy is not `good` and not stored; the superblock's buffer
is never given back at all, so whoever comes to its number waits for ever.
A read of a hole calls `blkpool_get_any`, which takes a buffer off the free list
and drops it (`dropped` counts them).  From `TooMany` of them on, whoever asks for a buffer may wait
for ever, or get the dummy node of the free list in place of a buffer (`Break`);
which blocks are then still found in the pool is not modelled, so a call may get
them all the same.
`damaged` becomes true when a write goes to a number that was taken from a table
not read well, or to memory that is no buffer; nothing is said of what follows.
**ByteFile** is a file for its
callers: an array of bytes, an offset for every descriptor, and calls that move
bytes.  `ImplementsByteFile` maps blocks to bytes by `Flat`, the blocks of the
file one after the other as mkfs lays them out, which has none of the level and
index arithmetic of the code.  `ByteFile` names what the code does not promise,
by place: holes, bad blocks, and bytes behind a bad table; and it counts the
reads of holes, with `TooMany` of which its promises end.  **MCFileData** has a
long file, with holes, a bad block and a bad table, and a short one.

**Keyboard** and **Console** are the line input.  An interrupt is one step and
possible whenever the line is not masked; the program prints a prompt, calls
`console_get_line`, and starts again.  `pc` is its place; each access to shared
state is a step of its own where an interrupt can come before or after it.
`_display_ibuf` is a loop, with `i`.  The program's moves of the cursor are
split further: `moving` says which part of `_next_pos` is next and `reg` holds
what has been read and not yet stored, for the interrupt moves the cursor too.
Positions are `uint8_t`.  A character displayed beyond the page that
`paging.c:108` keeps for the screen is a page fault (`fault`), after which
nothing runs.  While the line is masked nothing can come in between, and the
copy and `_reset_ibuf` are one step each.  Of the contents of the screen there
is the prompt and the characters of the input after it.  `console_get_line` has
no caller at this commit, and `kmain` has `intr_enable()` commented out: the
model is of the code as `console.c` means it to be used.  A tab, which the
console treats specially, is on no key.

**Pic** is `pic.c` over a model of the two 8259A, which is external and has what
the code relies on: initialisation words, mask, requests and lines in service
with their priorities, the slave behind line 2.  A byte is the set of its bits.
**Descriptors** has the entries of both tables, with what `gdt.c` and `idt.c` put
there.  **Kernel** puts them together, from whatever BIOS and boot loader leave:
the steps of `kmain` up to the page fault that is written there, or, instead of
it, the `intr_enable()` that is commented out; then the loop of
`console_get_line`, in as much detail as its masking needs.  Keys and devices
request interrupts at any time, the program enables lines and may call
`console_init` again.  Handlers are by the name that the gate has, so that a
wrong gate leads to a wrong handler; a gate that is empty leads to a page fault.

**Frame** is the bitmap of frames.  It has no caller either; the model's caller
allocates, and frees any address from `Freed`.  Addresses wrap as `uint32_t` do.

**Paging** goes from the boot loader's mapping through `_keep_config`,
`page_dir_automap` and `page_dir_load` to later calls.  `mem` has the frames
that serve as directories and tables, and frame 0, low memory of which nothing
is known, because a directory entry may come to point there.  The code's
accesses go through the directory in `cr3`, as they do in the machine: `At` is
where an address leads, and `paging_vaddr2paddr` reads through the last entry.
`Access` is the processor, which caches translations.  The boot loader is
external: it maps the kernel's pages in a row, each writable or not or not at
all, and its directory into itself (`_is_page_writable` needs that).

Operators whose comment begins "Faulty variant of" are not part of a model.
Each is a plausible mistake; put in the place of the operator that follows it, it
breaks the property that `PROJECT.json` names under `mutants`, which shows that
the property depends on the code.

## The runs

Bounds are the constants of the configurations; `MaxHeld`, `MaxCount`,
`MaxOffset` and `MaxInits` are the only bounds in guards.  `TooMany` bounds a
count too, but is a number of the code (below).

| run | question | result |
|---|---|---|
| `BlkPool` | Do locks, list, contents and disk agree after any calls, is a call stuck only because of what callers hold, and is the cache a store of blocks? | holds |
| `BlkPoolFreeList` | Is a buffer not locked on the free list, if holes of files are read? | **no**, `blkpool.c:155` |
| `FsOpen` | `fs_open`, `fs_close` with failing reads and inodes, entries and descriptors running out: counts, lists, locks, the contents of an inode in use; does every call return? | holds |
| `FsFiles` | Without failures, does a descriptor refer to what its path names, do calls fail only for want of a file or of room, and is a new file's number nobody's? | holds |
| `FsFaults` | All calls, with failing reads and descriptors that share an entry: is a reference lost or given back twice, but for those that `fs_creat` forgets? | never |
| `FileData` | Do `fs_read` and `fs_write` move exactly the bytes of an array, touch no other block, and return? | holds, but for what `ByteFile` lists, and until `TooMany` reads have met a hole |
| `FileBoot` | Does a write leave the boot block alone? | **no**, `fs.c:250` |
| `Console` | Is a completed line kept, returned and never lost, does the program get control back when the screen is cleared while it waits, is the cursor on the screen? | holds |
| `ConsoleScreen` | Does the waiting program's screen have prompt and input? | **no**, `console.c:251` |
| `Kernel` | Is everything set up before an interrupt can come, which lines stay in service, and is every key read? | holds |
| `Frame` | Do bitmap and frames in use agree, whatever page is freed? | holds |
| `Paging` | Does the kernel survive the switch, is the TLB right, does a call change only its page, what do the tables point at? | holds |

The bounds are small but no smaller than the interesting cases:

* `BlkPool`: two buffers for four blocks, so that replacement happens with one
  held, and three wishes, so that the free list runs empty; block 0, whose number
  the unused buffers have; a bad block; two values, so that a stale copy differs.
  Lists of every length are covered by the proofs.
* `Fs`: three inodes for a tree of depth two plus the process's own, so that a
  walk can run out.  `FsFiles` has four: the root, a directory whose reference
  `fs_creat` lost, and two files; `Capacity` says that two descriptors can be
  open in any case, and a call may then not fail.  The paths take every branch
  of the walk: root, found at both depths, `.` and `..`, missing, through a
  file, separators at both ends and doubled. `FsFaults` has a smaller tree, and
  as many descriptors as entries, so that the former run out first if two share
  one. Counts are modulo 16, so that a count given back once too often wraps.
  Blocks have two bytes of two bits and four inodes, so that the inodes and
  their bits are in more than one of each.
* `fs_creat` really loses references (`fs.c:40`, below): `MaxCount` stops it
  when an inode has more than that many, which leaves room for the leak to happen
  and be followed by other calls.
* `FileData`: blocks of two bytes and two addresses, one direct zone, so that a
  file of seven blocks has all levels that are implemented and calls of three
  bytes always cross a boundary, often one of levels.  The long file ends in the
  middle of its last block; the short one fills its only one.  `MaxOffset` ends
  at the last position below level 3.  `Garbage` has the superblock's number.
  `TooMany` is 2, one less than in the code, for the size of the run: a read of
  a hole after which all is as before, one after which the pool may fail, and
  more.  The theorems are for every value of it.
* `Console`: a buffer of two characters for a line of any number, a caller's
  buffer of one, keys for printing, erasing, killing (with control), clearing
  and completing, and a screen of two by two, which scrolls after two lines.
  Keys that the handler treats alike are in it once.  Positions are modulo 5, so
  that -1 is beyond the screen as 255 is.
* `Kernel`: line 0, of higher priority than the keyboard, and of the slave
  lines 9 (whose gate has the handler of 10), 10 (which has none) and 12 (never
  enabled); line 2, which must be enabled for the slave; both console
  initialisations, with the keyboard idle and at work.
* `Frame`: three words of three bits, two pages below the first frame, some
  above the last, and an address space that wraps.
* `Paging`: five entries to a table, so that there are a low table, two that are
  not implemented, the kernel's and the last; the kernel's four pages and one
  after them, each mapped by the boot loader in every allowed way; an address
  that the check of alignment lets through, and a physical one whose sum wraps.

*Fairness.*  `FsOpen` and `FileData` assume weak fairness of the steps of a call:
the processor runs it, and there is one thread.  `Console` assumes weak fairness
of the program and strong fairness of the interrupt: whoever is at the keyboard
presses or releases some key now and then.  The latter is really needed: a key
handled between `keyboard_enable_irq()` and `halt()` is noticed only with the
next interrupt.  For Enter that is at the latest the release of the key, and
nothing is assumed about which key it is.  Strong fairness, not weak, because the
program masks the line again and again.  `Kernel` assumes weak fairness of the
program at work, of the handlers, and of taking an interrupt that is possible;
none of keys or devices.

*Deadlock* is checked in every run but `Kernel`, where `kmain` ends in `while (1)`
with interrupts off and `exception_handler` does not return.  In the others
`while (1)`, a failed assertion and a fault are states with a step to themselves.

## What does not hold

`PROJECT.json` has the details of the three that have a run.  `blkpool_get_any`
drops the buffer it took, because of an inverted test (`BlkPoolFreeList`; what
this does to `fs_read` is below).  A
write beyond the last block of a file or into a hole goes to the boot block
(`FileBoot`).  `console_get_line` forgets that the screen was cleared while it
displayed the input, and may show a character twice that is typed meanwhile
(`ConsoleScreen`).

The following are part of the models too, and a property says exactly what is
left of the promise:

* `ValidIsActual`: an inode that could not be read stays in the pool under the
  number asked for, with the contents of another, and is found there later;
  `valid` says so, and nobody looks at it (`ipool.c:124`).
* `RefCount`: `fs_creat` of a file that exists does not give back the directory
  (`fs.c:40`), and leaves it locked if it was just read.  `fs_write` leaves the
  inode locked if `minix3_bmap` fails (`fs.c:236`).  `UnlockedWhenIdle` and
  `EveryCallReturns` are therefore checked without these two calls.  With
  descriptors that share entries, the way back of `fs_open` at `fs.c:115` gives
  back an inode twice; the model stops there (`twice`).  No call duplicates a
  descriptor yet, and without that entries run out before descriptors.
* `AssertHolds`: if a block of the bitmap cannot be read, a used number may be
  offered and the assertion in `minix3_alloci` fail; it is checked without
  failing reads.  It also needs as many inodes as a block has bytes, because the
  number of bitmap blocks is calculated from bytes (`minix3_imap.c:26`); and the
  last inode is never offered.
* `ImplementsOpenFiles`: whether a name with a separator after it is a directory
  is asked of the directory it was found in (`minix3.c:380`), so that `g/` names
  a file; `OpenFiles` has it so.  (Also, the test for a directory looks at one
  bit of the mode, which block devices and sockets have too; the tree has none.)
* `ImplementsByteFile`: reads of holes fail; -1 says nothing of the bytes that
  were moved before, and the offset stays behind them; a write to a bad block is
  reported as done; a table that does not exist is read from the boot block.
  From level 3 on a block is taken for one of level 2 (`minix3.c:111`).
* `ImplementsByteFile`, `CallsReturn`: every read of a hole drops the head of the
  free list (`fs.c:182`, `blkpool.c:155`).  One might expect seven of them to be
  harmless, since there are eight buffers and the superblock has one.  But a
  dropped buffer is not locked, a search may find it again by its number, and
  `node_remove` then follows pointers that it has from before and cuts others
  off the list.  `DropsAssumption` in `MCBlkPool` computes the lists of small
  pools after any uses by callers that hold one buffer at a time, as these
  calls do: two drops never leave a list empty or with the dummy node as its
  head, the third may do either.  Then a call waits for ever at `blkpool.c:70`, or
  uses the dummy node as a buffer.  Both properties make an exception for what
  comes after `TooMany` reads of holes, and only for that.  The other calls take
  their buffers from the same pool; `EveryCallReturns` is for runs without
  `fs_read`.
* `CallsReturn`: a number of a table that could not be read well may be the
  superblock's, whose buffer is locked for good.
* `ClearReturns` is for clears that come while the program waits.  One that comes
  between the prompt and `console.c:251` is forgotten, as `ConsoleScreen` shows.
* `CursorOnScreen`, `LineReturned`: erasing in the upper left corner takes the
  cursor to row 255, and the next character is a page fault (`console.c:65`).
* `SoundEntries`: `paging_map` of a page without a table fails after it has set
  the directory entry, which points at frame 0 (`paging.c:240`); the range check
  wraps for addresses inside the last frame of all, as its TODO says.
* `ReadyForInterrupts`: gate 41 is set twice and gate 42 never (`idt.c:202`).
* `InServiceUnhandled`: the handlers of `isr.S` do not end the service, so that
  after one interrupt their line and all of lower priority are dead.
* `KeyRead` is for keys pressed after the set-up: a key before `pic_remap` loses
  its request, and the keyboard does not request again until it is read
  (`keyboard.c:46`); no property covers that.

Two more are kept out by the inputs.  `frame_dealloc` takes any multiple of
1024 for the address of a page, so a frame can be freed by an address inside it;
`Frame` is run with addresses of pages.  `pic_enable_irq` of a line of the slave
does not enable line 2, so the model's program does.

## What is proved

Each module `XProofs` proves the properties of `X` for every value of its
constants that its assumptions allow.  In each there is an inductive invariant
`Inv`, a lemma for every action that says that it keeps `Inv`, and in it a step
for every conjunct that the action can disturb.  `ListProofs` has the lemmas that
the two users of lists share.

| properties | theorems | hypotheses besides the modules' assumptions |
|---|---|---|
| the invariants of run `BlkPool` | `PoolTypeOK`, `PoolFreeIffUnlocked`, `PoolHandlesExclusive`, `PoolOneBufferPerBlock`, `PoolCacheCoherent`, `PoolWaitsOnlyForHolders` | none |
| the cache is a `BlockStore` | `PoolImplementsBlockStore` | none |
| counts, lists, types, contents of `Fs` | `FsTypeOK`, `FsRefCount`, `FsFreeIffCountZero`, `FsEntryCount`, `FsValidIsActual`, `FsOpenIsReferenced` | none |
| locks of `Fs` | `FsUnlockedWhenIdle` | no `fs_creat`; with `fs_write`, no failing reads |
| the assertion in `minix3_alloci` | `FsAssertHolds` | no failing reads; at least as many inodes as a block has bytes |
| descriptors refer to files | `FsImplementsOpenFiles` | no failing reads, no `dup`; `CapacityFits`; at least as many inodes as a block has bytes |
| the safety properties of run `FileData` | `FileDataTypeOK`, `FileDataOnlyOwnData` | none |
| files are arrays of bytes | `FileDataImplementsByteFile` | none |
| a call has ever fewer steps to go | `FsEveryStepCounts`, `FileDataEveryStepCounts` | none |
| the safety properties of run `Console` | `ConsoleTypeOK`, `ConsoleCursorOnScreen`, `ConsoleNothingLost`, `ConsoleLineKept` | none |
| the properties of run `Frame` | `FrameUsedIffOwned`, `FrameAllocFresh`, `FrameDeallocOwned` | `PagesFreed` |
| the invariants of run `Kernel` | `KernelReadyForInterrupts`, `KernelInServiceUnhandled` | none |
| the properties of run `Paging` | `PagingTypeOK`, `PagingTlbFresh`, `PagingVaddr2PaddrAgrees`, `PagingSoundEntries`, `PagingKernelKept`, `PagingChangesOnlyItsPage` | none |

The hypotheses are the limits of the code, not of the proofs: `fs_creat` of an
existing file leaves its directory locked, and `fs_write` the file if
`minix3_bmap` fails; with failing reads or few inodes the assertion does fail, and
an inode that could not be read is found again with the contents of another;
with `dup` an inode may be given back twice; and `frame_dealloc` takes addresses
inside a page.  `CapacityFits` is what `OpenFiles` can promise at all: a call may
fail for want of room only if `Capacity` files are open, and that is no more
than there are entries, nor than the inodes that are left if every directory is
in the pool, since `fs_creat` may have lost a reference to each.  The section before this one
has the lines.

*Assumptions on the constants.*  `PathAssumption`: a path is as `Path` has it,
not empty and without two names side by side, and mkfs makes the root its own
parent.  `UIntAssumption`: an `unsigned` has room for the
references there can be, which are bounded by the entries, what one call holds,
and `MaxCount`.  `BmapAssumption`: block numbers of a block are a power of two,
as the code's masks need.  `DiskAssumption`: what mkfs makes, that tables and data
are blocks of the disk other than the superblock, that no block of data is a
table or used twice, and that files end before level 3; and that an index into a
table is an index into a block.  `ConsoleAssumption`: the screen's columns and rows fit in
`uint8_t` with two to spare (80 and 25).  `FrameAssumption`: frames begin at a
page and end below the top of memory.  `PagingAssumption`: what `kernel.ld` and
the attributes of the arrays give, that the kernel is in one table's 4 MiB
(0xc0000000) with directory and tables in different, aligned pages, and the
video memory (0xb8000) in another; that the boot loader's two frames are not
among the kernel's; and that later callers leave the pages of directory and
tables alone, for nothing in the code keeps them from it.

*`BlkPool`.*  The properties are not inductive: that a hit takes a buffer that is
on the list needs that list and locks agree; that they agree after a call needs
that a locked buffer is held by someone (`LockedIsHeld`), since `blkpool_putblk`
frees it only then; that a block is not handed out twice needs that a held buffer
is the first that a search finds (`HeldIsMatch`), which the buffers that still
have number 0 make less than obvious; and that putting a buffer back writes to a
block of the disk needs `ValidNumber`.  The free list is existentially quantified
(`\E s`); `Take` and `Release` turn one sequence into the next with the lemmas of
`ListProofs`.  For the refinement each action is a step of `BlockStore` or leaves
its variables alone (`HitStore`, `MissStore`, ...), where `HandOut` and
`SameCopies` say what happens to the copies.

*`Fs`.*  `CallOK` says which pointers of the call are set at every place of
`fs_open` and `fs_creat`; without it no step can be shown to give back what was
got.  `CountsRefs` is `RefCount` with the references of the call as a sum, which
changes by one where a count does; `CountsFds` likewise has the entry that is not
given to a descriptor yet (`Pending`).  `EntryOK` ties the entry of a call to its
inode, which is how the reference passes from the one to the other.  That a count
does not wrap needs a bound on the references that are lost (`LostOK`).
`ValidIsActual` is inductive only for the inodes on the free list too
(`AllActual`), since they are found again.  The lists are there as the sets of
their members (`ListOf`), so that a step needs no sequence.  `FsUnlockedWhenIdle`
adds `LockInv` (only the inodes of the walk in progress are locked),
`FsAssertHolds` adds `BitInv` (an inode that is referenced has its bit set,
except between `minix3_imap_get_free` and the set of the bit).

That `Fs` implements `OpenFiles` needs what the variables of a call mean for its
path, at every place (`OnItsWay`).  `Reached` is for the walk: what is left of
the path, and the working inode, are those of some prefix of it.  Since `Resolve`
is a recursive function, that function is shown to exist (`PrefixExists`) and
the lemmas speak of its steps; `ComponentIs` and `StepReached` say that one
component of `_component_set` is one name and the separator after it.  `Numbered`
has that a number is in the pool at most once, and `Pinned` that what is lost are
directories, from which `FullCrowded` has that a walk finds no free inode only if
enough files are open: every inode is then a directory's or an open file's.  In
`fs_creat` a walk that ends for want of an inode looks like one that found no
such file, and goes on to make a new one.  That this never makes a second file
of one name is because there is no inode for the new one either (`GivenOut`).

That calls end is half proved: `EveryStepCounts` says that every step of a call
leaves fewer steps to go (`StepsLeft`, at most 12 and two for each token of the
path: `RestInv` has that there is a token left whenever one is about to be
taken), so no call goes on for ever.  Since liveness is out of reach, that it
does take its steps stays with TLC.  A call that waits for a lock for ever has no
steps left: it ends there in `spin`.  `FileData` has the same, with the bytes left
to move as the measure: `ReadSize` and `WriteSize` have that a block always moves
at least one, also at the end of a file and at the end of a block.

*`FileData`.*  `Inv` is short: a call has moved no more than it was asked for and
than lies behind the offset (`CallInv`), and the tables are as mkfs made them
(`TablesKept`), without which the way to a block would not lead there any more.
Most of the proof is that `minix3_bmap` finds the right block.  On the side of
mkfs, `FlatIs` says what is at each index of `Flat`, from `FlattenIs` about
sequences of pieces of one length; on the side of the code, `Levels` has the
level and the indexes of a logical block, with no arithmetic left, and
`BmapUnfolds` the recursion, which is at most two deep.  `BmapIs` puts them
together: the result is the leaf of that index, or comes from a table that was
not read well and is not `sure`, or there is none because the pool is exhausted
(`NoAnswer`).  `ReadCases` and `WriteCases` then list what one
block of a call can do, and each is a step of `ByteFile` (`ReadBytes`,
`WriteBytes`, with `Written` for the bytes that a write changes and those that
it does not).  The proof found a fault of the model that TLC had not: the
positions in holes did not include those behind a bad table, but a bad table may
still be read well and lead to a hole, and then what is written is lost and
nothing is damaged.  `Hole` has them now, and so has the disk of `MCFileData`.

*`Console`.*  `CursorInv` has what the program has loaded and not yet stored:
`CursorOnScreen` alone says nothing of a move that the interrupt cuts in two.
`LineInv` has the masked line from the test to the reset, and at the reset that
the caller has what is taken out.  `_kill` is a loop that depends on what is in
the buffer; what it leaves is found by its first failing index (`Least`).

*`Kernel`.*  The invariant has what `kmain` has set up at every place
(`GdtInv`, `IdtInv`), by the entries as `gdt.c` and `idt.c` calculate them, and
of the controllers that only devices' lines are requested and only enabled lines
are not masked (`Bounded`).  The command that ends an interrupt does not say
which: it ends that of the highest priority in service.  That this is the
keyboard's needs `ServedInv`: while `_keyboard_isr` runs, line 1 is in service
and line 0 is not, since it would have kept line 1 from being served, and the
processor takes no other interrupt meanwhile.

*`Frame`.*  `UsedIffOwned` with the type of the bitmap is inductive.  The work is
in the arithmetic: that word and bit of a page and the address of a bit are
inverse to each other (`FrameNumber`, `OneAddress`).

*`Paging`.*  The code reads and writes its tables through the tables in use, so
first of all the invariant must say where that leads: `BootSound` for the boot
loader's, `Linked` and `Kept` for the code's own at every place of
`paging_init`, from which `InvReady` has that the last entry maps the directory
in use, and that directory and tables are mapped.  `EmptyIfAbsent` is needed for
`ChangesOnlyItsPage`: a table that is not linked yet must be empty, or linking it
would map more than one page.  `Cached` says of the TLB that it has only what is
present, for the entry that a failed `paging_map` leaves behind would change the
others.

Only model-checked:

* liveness (`EveryCallReturns`, `LineReturned`, `ClearReturns`, `KeyRead`,
  `CallsReturn`), which this prover cannot do; for the calls of `Fs` and
  `FileData` the measure is proved (`EveryStepCounts`, which no run checks);
* `SpecAny` of `BlkPool` (with `blkpool_get_any`), as `Inv` is false there: the
  dropped buffer keeps its old pointers, and being found again it puts its old
  neighbours back on the free list, even one that is locked.

## What is not modelled

* *The zone bitmap* (`minix3_zmap.c`) and the functions that clear a bit: nothing
  calls them.  A write beyond the end of a file allocates nothing.
* *The blocks of a directory*: a directory is a function from names to numbers,
  and reading it fails as a whole.  The entry for a new file is not written by
  the code either.
* *The checks of the superblock* at startup, and `superblock_put`, which has no
  caller.
* *Opening the image* and the partition offset of `hdd.c`.
* *Level 3 of indirection*, which the code does not implement.
* *dirty inodes*: nothing sets `dirty`, so nothing is written back.
* *Contents of the cells of the screen*, colours, tabs, the hardware cursor.
* *Spurious interrupts*, which depend on the machine; trap and task gates and
  software interrupts, which have no caller.
* *paging without a boot loader that enables it* (`_setup_identity`): it fails at
  4 MiB, where there is no table, and the kernel is linked for 0xc0000000.
* *Alignment of the page tables*, which the linker decides: `PagingAssumption`.
* *Regions* (a type without functions), *`fs/main.c`* and the tests (drivers of
  the calls), `startup.S` and the boot sector, *`printf`, strings and memory
  functions*: no state over time.

## Plan

Done: all modules above, and the proofs that the section on proofs lists; every
invariant, every action property and every refinement of the passing runs has a
theorem, and so has the measure by which a call of `Fs` or `FileData` comes to
its end.  What is left, most important first:

1. `FsImplementsOpenFiles` with descriptors that share entries: `OpenFiles` has
   no step for `dup`, and the model stops at a reference given back twice.
