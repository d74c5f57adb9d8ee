# LXTOS in TLA+

LXTOS is a small x86-64 operating system: a C kernel booted by Limine, an
in-memory root filesystem, procfs, ext2 over ATA PIO, and a handful of user
programs. This directory holds TLA+ models of its kernel, the TLC configurations
that check them and TLAPS proofs. Line numbers are
those of the C files; docs.typ is `docs/docs.typ`.

## How the system runs

One CPU, no scheduler and no threads. `_start` (main.c) initialises, unpacks the
initramfs into a tmpfs and starts `/bin/init`; from then on the kernel runs only
inside `int 0x80`, whose gate turns interrupts off, so a system call runs to its
end before anything else does. `SYS_EXEC` replaces the running program and
`SYS_EXIT` starts the shell again. What can go wrong is therefore seldom an
interleaving inside a call. It is

* the sequence of calls that several programs make on state nobody resets: one
  tree, one mount table, one procfs list, one descriptor table, one heap;
* walks over structures earlier calls built (the heap's list, directories);
* a call that fails half way and leaves what it did;
* on ext2, the power failing between two block writes of a call, writes whose
  result nobody looks at, and vnodes that hold a copy of an inode that has
  changed on the disk;
* the drives, which do run beside the CPU: a poll sees the status of a moment;
* state that outlives the call it was meant for: the decoder and the modifiers of
  the console, the statics of getopt, the shell's line buffer.

## Inventory

| Component | State it keeps | Operations | Correct when | Module |
|---|---|---|---|---|
| Heap, `kmalloc.c` | list of block headers laid over 1 MiB | kmalloc, kzalloc, kfree, free_size | blocks tile the region, no block handed out twice, free neighbours folded, refusal only when nothing fits, walks end | Kmalloc |
| Frames, `pmm.c` | bitmap of frames, counter | pmm_init, alloc, alloc_n, free | bit set = not memory or owned, counter = set bits | Pmm |
| VFS, `vfs.c` | root, mount table, the vnodes' mount pointers and flags | resolve, mount, mkdir, mkfile, unlink, read, write | the path after a call leads where the call put things | Vfs |
| tmpfs, `tmpfs.c` | children arrays, file buffers | read, write, finddir, readdir, mkdir, mkfile, unlink | tree stays a tree, bytes written are bytes read | Vfs |
| procfs, `procfs.c` | one root pointer and one list for all mounts | create, register, read, finddir, readdir | the list names each file once | Vfs |
| Descriptors, `fd.c` | table of node and offset | alloc, get, free | a used slot names a file, offsets inside it | Syscalls |
| System calls, `syscall.c` | current directory | one case per call | composition of the above | Syscalls (FS half) |
| ext2, `ext2.c` | the disk; a copied inode per vnode | mkfile, mkdir, read, write, finddir, readdir, mount | names lead to written, allocated, unshared inodes, also after a power failure | Ext2 |
| Page tables, `vmm.c` | page-table tree | map, unmap, switch, new_space | the kernel half is every space's, no frame serves twice, a page has the rights asked for | Vmm |
| ELF, `elf.c` | none of its own | load, exec | a program finds its image, zeroed rest and arguments; a failed exec leaves its caller alone; exec ends | Exec |
| ATA, `ata.c` | the bus's registers, `ata_disks`; the drives their status, buffer and sectors | init, read, write sector | a read gives the sector named, a write touches only it, no call leaves a drive at work, polling ends | Ata |
| Keyboard, `keyboard.c` | shift and ctrl | kb_getchar | the key pressed, whatever is held | Console |
| Screen, `framebuffer.c` | cursor, scale, colour, escape and UTF-8 state | putchar, newline, scroll, clear, zoom | cursor on the screen, text drawn as meant after anything | Console |
| Console calls, `syscall.c` | the caller's buffer | PUTS, PUTCHAR, CLEAR, GETCHAR, GETS | line within its buffer and as it stands on the screen | Console |
| initramfs, `initramfs.c` | none | unpack | the directories above a member's own are made once each, no member takes from an earlier one | Initramfs |
| Shell and getopt, `shell/main.c`, `args.h` | line buffer; getopt's statics | parse, dispatch, try_exec, getopt | words and options as typed, the prompt comes back | Shell |
| init, tools, `path.h` | current directory | search for a disk, paths | | partly (init's search: Ata) |
| GDT/IDT/TSS/PIC, kprint, font, kstring, kitoa, kapi, libc | tables, pure functions | | | not modelled |

Interactions: system calls use descriptors and the VFS; the VFS calls tmpfs,
procfs or ext2 through `ops`; all three take memory from the heap, the heap's
region, page tables, the TSS stack and process images take frames from the PMM;
ext2 reads and writes through ATA; exec reads a vnode, takes frames and maps
them. The shell reads its line with `SYS_GETS` and starts programs with
`SYS_EXEC`; the programs take their options from the argv exec gave them.

`PROJECT.json` lists, under "hazards", the places where this code can go wrong
in ways a test hardly reaches, each with the properties below that watch it.

## Modules

| Module | What it is |
|---|---|
| Allocator | what a heap promises: each request is met with an aligned region nobody holds, or refused, but not by a heap that got everything back and is large enough |
| Kmalloc | kmalloc.c, one iteration of a list walk per step; implements Allocator |
| KmallocProofs | proofs for every heap size and every set of request sizes |
| FramePool | what a frame manager promises: each call gets a run of the length it asked for that nobody owns; refusal only when there is none |
| Pmm | pmm.c, boot loop page by page, then calls; implements FramePool |
| PmmProofs | proofs for every memory map, bitmap size and set of run lengths |
| Vfs | vnodes, tmpfs, procfs, mounts, path resolution |
| Syscalls | extends Vfs: descriptors and the filesystem calls, with the properties of both |
| SyscallsProofs | proofs for every tree, mount table and descriptor table and paths of any length |
| Ext2 | ext2.c, one disk write per step, with power failures and lost writes |
| Ext2Proofs | proofs for every disk and any number of power failures and lost writes |
| Vmm | vmm.c, one level of the page tables per step |
| Exec | extends Vmm: vmm_init, then elf.c page by page for every exec and exit |
| ExecProofs | proofs for page tables of any depth and width, any images, arguments and amount of memory |
| Initramfs | extends Vfs: initramfs.c member by member, one level of mkpath per step |
| InitramfsProofs | proofs for every archive, boot tree and limit on vnodes, at any depth |
| Disk | what a driver of sector disks promises ext2: one request at a time, a read of the sector named or a refusal, a write of that sector as a whole |
| Ata | ata.c poll by poll and word by word, the drives as processes; implements Disk |
| AtaProofs | proofs for any number of buses, words and registers and any drives |
| Console | framebuffer.c, keyboard.c and the calls that print and read |
| Shell | parse, dispatch and try_exec of the shell; getopt and the loop that calls it |
| TerminalProofs | proofs of both: Console's cursor, line and text for every screen, font, scale, character and buffer, Shell's argv and options for every line and option string |
| MCKmalloc, MCPmm, MCSyscalls, MCExt2, MCExec, MCInitramfs, MCAta, MCConsole, MCShell | constants for TLC |

A definition named `...Bug` (also `WrittenTruncates`, `WrittenForgets`,
`WriteStepsBlind`, `SharedLate`, `MakeLost`) is a mistake of the kind the properties
catch. No action uses it; "mutants" in `PROJECT.json` says which definition it
replaces and which property then fails, one for every property of a passing run.

### Kmalloc

`blk` maps the address of each header to size, free and next; addresses are
offsets from `heap_base`. A call is a run of steps: `KmallocCall`, then
`FindNext` per block passed, then `FindFail`, `TakeSplit` or `TakeWhole`;
`KfreeCall`, then `CoalesceMerge` and `CoalesceNext`, then `CoalesceDone`. `live`
is a ghost: the pointers callers hold and what they asked for. Callers free what
they hold, once; freeing anything else is outside the contract.

### Pmm

Frame numbers stand for addresses; `bits` is the set of frames whose bit is 1.
`InitPage`, `InitEntryDone` and `InitDone` are the loops of `pmm_init`; a missing
memory map is the empty one. `Alloc` covers pmm_alloc (a run of 1) and
pmm_alloc_n. `Free` is given owned frames, free ones and one past the bitmap; a
frame that was never memory is not freed by any caller. Frame 0 is assumed
unusable, because 0 is also how the allocators refuse; the firmware's map
reserves it.

### Vfs and Syscalls

A path is a sequence of components, a final `""` a trailing slash. `nodes` is the
list of all vnodes ever made; nothing frees one, so indices are stable, as
pointers are in the code. `dir` and `fs` stand for flags and `ops`. `Resolve`,
`Finddir`, `Parts`, `Follow` and `UmountTarget` are the code's lookups, including
their differences: resolution follows one mount per component, umount follows
none for the last. A system call is one step, because nothing runs during it. A
call that fails and changes nothing is a stuttering step; those that fail and do
change something are modelled (`SysWriteNew` that leaves an empty file, a proc
mount that fails after the list was emptied, `MountProcRefused`). The heap
refusing memory is the bounds `MaxNodes` and `MaxFile`.

Left out: mounts of type ext2 (their directories have no place in `nodes`),
paths `"//"` and `""`, names longer than 255 characters, READDIR, READ, FSIZE
(no state), chdir/getcwd, console calls and exec.

### Ext2

The disk is the two bitmaps, the two counts of the group descriptor, the inode
table and the blocks. `MkfileSteps`, `MkdirSteps` and `WriteSteps` give the order
in which each call writes blocks, and `call.todo` is what is left of it: one
action per kind of block (`AllocInode`, `CountInode`, `AllocBlock`, `CountBlock`,
`WriteInode`, `WriteDirBlock`, `WriteData`, `AddEntry`). Any write may be lost
(`Out`): the drive reports an error, and the code goes on. `Refused` is a kmalloc
that ends the call. Only a call's first buffers can be refused (`Fresh`): all of them
are of one size, no more than two are held at once, and nothing else runs, so what was
granted and freed at the first step is there at every later one, and for the vnode
that a mkfile or mkdir ends with, which is smaller. `Crash` is a power
failure at any step followed by a boot and a mount; the code has no recovery.
`vnode` is what the kernel holds: an inode number and the copy `ext2_make_vnode`
took. Blocks and inodes are never freed; there is no unlink.

Abstracted: bytes, sizes and offsets of a file (its block is written or not),
the length of names (an entry takes one slot), `.` and `..`, block groups after
the first (allocation uses the first only), what a failed *read* leaves in an
uninitialised buffer.

### Vmm and Exec

`table` maps the frame of every page table to its entries, `page` the frame of
every page to its words; `used` is the bitmap of Pmm, from which nothing is ever
given back here. `vmm_map` is a run of steps on `map`: `Descend` or `Create` per
level, then `SetEntry`; `NoTable` is the machine stopping in `alloc_table`. Boot
maps the kernel's pages with them (`BootMap`, `BootPage`, `BootDone`). An exec is
`Start` (the heap buffer and vmm_new_space), `PageCall` and `PageDone` for each page
of the stack and of each segment, `NextSegment`, and `Fail` or `Jump`. `Translate`
and `Allowed` are what the processor makes of the tables. `Holds` is a word as a
program sees it, through its own tables, while exec writes it by frame number.

Abstracted: the checks of the ELF header are one bit, 8 bytes are a word, strings
of arguments take whole words (so the alignment of rsp is no step), the entry point
and the contents of kernel pages are left out, the HHDM is that exec may write any
frame. Environment: segments lie below the stack, the argument block fits the top
page (`ArgsFit`; the shell reads lines of 256 bytes and passes 15 arguments).

### Initramfs

A member of the archive is taken (`Take`) and mkpath walks `rest` from `at`:
`Descend`, `MakeParent`, `LastMissing`; then `PlaceFile` or `DirDone`. `NoParent` and
`NoFile` are the refusals, after which the next member is taken. The archive is any
sequence of members. `Along` is what mkpath is given: a file's directory, unless its
text does not fit `dir_path` (initramfs.c:185), when the file goes to the root.
Characters are not modelled, so `LongDirs` names the paths that do not fit.
Headers, numbers and `.` are left out; `PlainPaths` says what cpio's paths look like.

### Ata

`pc` and `call` are the driver: `Probe`, `NothingThere`, `SomethingThere` and
`Identified` the loop of ata_init; `Issue` a call's registers and command;
`WaitBusy`, `WaitDrq` and `WaitErr` the ways out of the polling loops, in which a
poll that changes nothing is no step; `MoveIn` and `MoveOut` one word; `Flush` and
`Settle` the end of a write. `drive` and `medium` are the other side of the ports,
which is not in the repository: what the code takes for granted of the ATA
protocol. A drive asks for data, gives up, stores or flushes when it likes, and
drops commands while it is busy or asks for data. It shows BSY by the time its status is first
read after a command. A packet device refuses the commands, an empty slot reads as
0, a bus without drives as all ones. The two drives of a bus share `port`.

### Console

`term` is the screen and the decoder, one byte to a step; `drawn` is the picture at
each cell drawn since SYS_GETS began (or by the last step). A
picture stands for the pixels of a glyph and its colour; the background never
changes. `call` is the call that waits for keys, one scan code to a step. A call
that prints cannot run while one reads, but the decoder keeps its state from each
to the next, and the keyboard its modifiers. `handle_ansi` multiplies an int
that overflows after ten digits: taken to wrap (`IntSize`), as the build does.

### Shell

`typed` is the line, `input` the buffer in which `ParseWord` writes its NULs and
which holds the end of a longer line behind it. `TryExec` builds child_argv;
`Getopt` is one call of getopt, whose `optind`, `optcursor` and `nextchar` are the
statics of args.h; the program is a loop like that of ls. Left out: what a program
does then, which is text, and an option string with a `:` of its own in the
wrong place. What the run compares with is `Words`, the words of the line as typed, and
`Options`, the options of an argv: two recursive functions on positions that know
neither the buffer nor the statics. Names like `ShellNext` and `lineVars` carry a
prefix because TerminalProofs extends Console as well.

## Runs

| Run | Expect | Shows |
|---|---|---|
| kmalloc | pass | TypeOK, Tiled, HeldBlocks, NoAdjacentFree; CallsReturn (liveness); AbsSpec (refinement) |
| pmm | pass | CounterExact, BitmapExact; AbsSpec (refinement) |
| syscalls | pass | OffsetInFile; WriteReadBack (action property): descriptors and writes by path |
| mounts | pass | TreeSound, MountFlagExact, ProcNamesDistinct; NothingHidden (action property): the tree and its mounts |
| ext2 | pass | EntriesNameInodes, OneOwner, NoStaleBlock, CountsFollowBitmaps, CacheNeverForeign |
| exec | pass | OneUse, KernelShared, ImageSeen, ArgsSeen, PermissionsKept; CallerUntouched (action property); ExecEnds (liveness) |
| initramfs | pass | AllPlaced, DirsDistinct; KeepsEarlier, ParentsMade (action properties) |
| ata | pass | QuietBetweenCalls; CallReturns (liveness); AbsSpec (refinement) |
| console | pass | CursorOnScreen, LineShown, TextShown |
| shell | pass | ArgvIsWords, OptionsAsTyped (against reference definitions over the whole line); PromptAgain (liveness) |
| ext2_mkdir | violation | mkdir in a full ext2 directory returns 0 and makes nothing (ext2.c:406; docs.typ:771) |
| ata_scan | violation | reading a slot without a disk, as init's search for one does, never returns (ata.c:43; init/main.c:66) |

The type invariant of a module is a conjunct of one of its properties: of TypeOK
itself in Kmalloc, and of OffsetInFile, OneOwner, OneUse, AllPlaced,
QuietBetweenCalls, LineShown and ArgvIsWords; Pmm's is a conjunct of the invariant
proved in PmmProofs.

### Bounds

* kmalloc: 128 bytes hold up to five headers. Requests of 0, 5, 24, 72, 104 and
  105 bytes give: an empty block, rounding, an exact header, the smallest
  remainder that is split off, the whole heap, a refusal. Blocks taken whole
  arise from remainders too small to split. Three to five blocks are enough for
  any pattern of used and free neighbours a merge looks at.
* pmm: nine frames, a map whose entries overlap, one not usable, one that runs
  past the bitmap, runs of 1 to 3.
* syscalls: four vnodes, so that two directories of one name, a mounted root and
  a file, or a proc root and its file, fit; two children to a directory, three
  mounts (two beside the root), two descriptors, files of up to two bytes. Paths
  are `/`, `/a`, `/a/a` and `/a/`. `MaxParts` is 2, which no path exceeds.
* mounts: the same calls and paths with a fifth vnode, so that a directory can
  carry proc with its file and proc be mounted again, which empties the list the
  first mount shares; no bytes and no descriptors, which the tree does not depend
  on, so that the run stays small.
* ext2: two inodes and two blocks beside the root's, two entries to a directory
  block, two vnodes beside the root's, two names, one power failure, one lost
  write. Inodes, blocks and entries each run out. In ext2_mkdir a directory block
  holds one entry, no write is lost and the power does not fail: the second mkdir finds
  the root full.
* exec: three levels of tables with four entries each (the tree's depth matters,
  its width does not), pages of seven words, two stack pages, 27 frames: boot
  takes five, two programs fit, and the next exec runs out of memory at a page, at
  a table or at its root, depending on the images before it. The images: one
  writable segment with a zeroed tail over two pages, as the repository's
  link.ld makes it; a read-only segment, an empty one and a writable one that
  starts inside a page; two segments on one page; a file that is no executable.
* initramfs: the root, a directory boot made and three vnodes, three children to a
  directory; paths of one to three components over the name of that directory
  and one other; one directory that does not fit dir_path; data that fits and data the
  heap refuses.
* ata: one bus, on which two drives share registers, with every pair of kinds (a
  bus without drives is of both slots); two words that differ, so that one lost or moved
  twice shows; registers of one bit, and sectors that differ in the first, the
  third and the fourth. Callers name slots with a drive; ata_scan lets them name
  any.
* console: three columns and two rows at scale 1, one cell at scale 2, so that
  everything wraps and scrolls within a few bytes; two parameter bytes are kept; bytes
  that begin, continue and cut characters and sequences of each kind; lines of up
  to two characters and a buffer with room for none; texts of up to two items (`TextMax`).
* shell: every line of up to four characters over two letters, blank, quote and dash, and
  longer lines of up to four words, blanks and clusters, in a buffer they fill, and lines of
  five words; argv has four places, so that words are dropped by parse, and by try_exec.

Deadlock is checked in all passing runs but four: in `exec` the machine stops, in
`syscalls` and `mounts` the tables fill up and every further call fails, which is
a stuttering step, and in `ata` a bus without drives leaves no caller.

### Fairness

Kmalloc's `FairSpec` is weak fairness of `Step`, the next iteration of the call
under way: the CPU goes on executing it, interrupts are off and nothing else can
run. Callers are under no obligation. Exec's is weak fairness of the next step of the
exec under way, Shell's of what shell and program do with a line, for the same
reason; nobody has to type. Ata's is weak fairness of the driver, and of each
drive: one that is busy gets done or gives up, at some time. That is the promise of the
protocol the polling loops rest on. The others state safety only.

## Proofs

`tlapm` checks what follows for every value of the constants that satisfies the
module's assumption: `HeapAssumption` (a heap larger than one header and a
multiple of 8 bytes; main.c passes 256 pages), `PmmAssumption` (usable entries are
page aligned and do not contain frame 0), `ConsoleAssumption` (a cell of the
largest font fits the screen, key maps give characters), `AtaAssumption`
(sectors named fit the 28 bits of the registers, buffers are a sector long), and
`VfsAssumption` with `SyscallsAssumption` (the limits are numbers, at least one
component, mount and vnode; paths are sequences of names; the files SYS_MOUNT
registers in procfs have different names), `TextAssumption` (a code point is not
0 or ESC and fits four bytes, esc_buf holds two digits, an int counts beyond 37),
`Ext2Assumption` (inodes and blocks can be counted in the 16 bits of the group
descriptor), `ExecAssumption` (at most 15 arguments, none of them empty, and no segment
with more bytes in the file than in memory), and `InitramfsAssumption` (boot's
directories have different names and fit; a member has a path, and the empty path fits dir_path), and `ShellAssumption` (a NUL
is not typed, lines are not empty and fit the buffer, argv holds a name and an
argument, options are letters).

Four assumptions are about what the code takes for granted of its input:
`Halves` and `BelowStack` say that programs lie below the stack and both in the lower
half (elf_load looks at no address; the repository's link.ld puts programs at 4 MB,
the stack is near 128 TB), `ArgsFit` that the arguments fit the top page, and `PlainPaths` that the archive's paths, as cpio
writes them, have no empty components and are no deeper than vfs_resolve looks (only
ParentsMade rests on it).

* Heap: TypeOK, Tiled, HeldBlocks, NoAdjacentFree and FailsOnlyWhenFull are
  invariants and `Spec => AbsSpec`. The two properties about the end of a walk
  (nothing fits; no pair left to merge) are not inductive: while the cursor
  moves they hold only behind it. `Walked` says that, with the facts that the
  cursor is null when no call runs and that no pair was mergeable before the
  kfree under way, and `IInv` is the conjunction. The refinement's one hard step is a
  refusal on a heap that got everything back: no block is in use
  (HeldBlocks), no two neighbours are free (NoAdjacentFree), so one block
  spans the heap (Tiled), and what does not fit it is too large
  (`EmptyHeapIsWhole`).
* Frames: CounterExact and BitmapExact are invariants and `Spec => AbsSpec`.
  `BootBits` says what the bitmap is at each point of the boot loops (everything
  but the frames of the entries passed and of the part of the current one), which
  makes BitmapExact true when the loops end; `Lent` ties the ghost count to the
  set of owners.
* Disk driver: QuietBetweenCalls is an invariant and `Spec => AbsSpec`. Neither
  holds by itself: `InStep` says what the drive of the call is doing at each place of
  the driver (before the transfer it has the command or refused it, in it both are
  at the same word, after a write it stores, flushes or is done), `InProtocol` that all other
  drives rest, `InData` that the words moved are the sector's or the caller's
  and that the registers hold the sector's number. That the drive
  reads that number out of four registers of any size (`LbaKept`) is
  arithmetic on quotients, from `DivMod` up. A drive's step in the middle of
  a call is then a step of `DriveFacts`: it is the drive of the call, and the driver waits.
* Console: CursorOnScreen, LineShown and TextShown are invariants. The decoder, the
  keys and the drawing are functions from terminals to terminals, and the lemmas say of
  each what it keeps. `Good` (the cursor's cell is on the screen) is enough for
  CursorOnScreen. LineShown also needs that the cursor and all cells stand in columns
  (`Grid`), or a character could rub out half of another, and says too little
  to last: `LineInv` names for each cell of the row which character of the buffer it is
  (`Row`), and for each character the cell (`Whole`). A backspace takes the last of
  both; a character that ends a row begins a new one, in which the line has nothing. For
  TextShown two terminals are compared, one that is fed bytes and one that is drawn on:
  they are `Alike` if they show the same, and `Between` adds that the first is
  outside an escape sequence, which is where the property starts: bytes that end inside one
  make the terminal take up the beginning of the next text. An item of a text, whatever was begun before it, leads from
  `Between` to `Between`: `CharShown` follows a code point through its two, three or four
  bytes (`Begun` says how many are to come and the bits so far), `ColourShown` follows
  the two digits into esc_buf and through handle_ansi. A text is then an induction
  over its items, with `UpTo`, so it can be of any length.
* Filesystem calls: OffsetInFile, TreeSound, MountFlagExact and ProcNamesDistinct are
  invariants, and NothingHidden and WriteReadBack hold of every step. They need each
  other and more: an entry must name a vnode that exists and is of tmpfs (`Linked`), or
  unlink and a proc mount could give a vnode a second place; the entries of a directory must
  increase (`Ordered`), so that a new vnode, whose number is the largest, is in no
  directory yet. `IInv` is `Tree` (`Typed`, `Linked`, `Ordered`, `Apart`, `Flags`) with
  `Roots`, `ProcFilesListed`, ProcNamesDistinct and `Descriptors`. Each call has one
  lemma: what it does to the list of vnodes keeps `Tree`, and all else refers to vnodes
  in a way that such a change `Keeps`. Path resolution is a recursive function, and its
  induction is over sets of positions (`LeastNat`, `UpTo`, `Iterated`), which first-order
  provers can do: that a walk exists, stays among the vnodes, and is the
  same after a call that made something. `ResolveLast` ties the two resolutions of
  SYS_WRITE: a path leads one component further than its parent, or, with a slash
  behind it or more components than fit, to the same vnode, in which case the call
  that found nothing finds no parent either. WriteReadBack covers both ways a SYS_WRITE
  that makes its file can go (`NewReadsBack`): filled, or refused its buffer and empty.

* ext2: EntriesNameInodes, OneOwner, NoStaleBlock, CountsFollowBitmaps and
  CacheNeverForeign are invariants, with any number of crashes and lost writes. None
  is inductive: each is about the disk as it is, while the next write depends on
  what the call under way has read and done. So `IInv` adds that what an entry, a vnode or
  an inode leads to is marked in its bitmap (`Marks`), without which an allocation could
  give it away again; that an inode with a name is written (`Written`) and has one
  name (`Owned`); and, in `InCall`, what each call has done by the step it is
  at: a new inode is marked but `Unnamed` until the entry goes in, a new block
  belongs to nobody until the inode is written. Each part is under the same condition as
  the property it serves, that no write of the kind it rests on was lost.
  Between the write of a bitmap and that of the counts, a count is too high by one, and a
  power failure there leaves it so: `Counted` bounds both counts by the bit that is
  pending and one for each power failure, and never lets a count fall below what
  the bitmap has, so that none passes zero.
* exec: OneUse, KernelShared, ImageSeen, ArgsSeen and PermissionsKept are invariants and
  CallerUntouched holds of every step, in two stages. `IInv` is about the shape of
  the tables: there is an assignment of an owner and a depth to every table such
  that entries lead one level down in the same space (`Trees`, an existential, because
  the code keeps no such thing), entries of programs lead to frames of their own (`Apart`),
  and the upper half is boot's (`LowerEmpty`, KernelShared). Then vmm_map walks
  only tables of the space being made, which is CallerUntouched. `PInv` is about what
  the tables say: `Building` that the walk stands where the tables lead (`Stands`), that the pages up to
  the current one are mapped as they should (`Mapped`) and hold what they should
  (`Holding`), and that the last page of the stack is the one the arguments go to
  (`Stacked`); `Running` the same of the program that runs. What a step does
  to the translation of *every* address is in `CreateOn`, `SetOn` and `FreshOn`, and rests on
  `PathUnique` and `PageUnique`: two addresses share a table or a page only if
  their upper digits are the same. OneUse starts at the end of boot: until
  then vmm_init may still run out of frames.
* initramfs: AllPlaced and DirsDistinct are invariants, KeepsEarlier and ParentsMade hold
  of every step. `IInv` is `Tree` (`Typed`, `Linked`, `Once`, `Found`), DirsDistinct and
  `Walking`: what is left of the path is the path without its first k components. A
  directory is made only after the lookup of its name found none, which keeps names
  distinct (`ParentMade`). KeepsEarlier goes from lookups up: what was found in a
  directory is found after anything is made (`FinddirStays`), hence what a hop (`HopStays`)
  and a path (`ResolveStays`) leads to. ParentsMade needs `Reached`: mkpath stands
  where the components it passed lead, or one above when only the last is missing; what
  that says at the end of the walk is `WalkEnds`.

* Shell: ArgvIsWords and OptionsAsTyped are invariants. Each says that two walks over one
  line agree at the end, parse's or getopt's with that of a recursive function;
  `ShellInv` says how they agree half way. For parse, `LineCut`: the line is still
  as typed from the cursor on, and every string found has its NUL before the
  cursor or at it, so that no NUL written later can shorten or lengthen an earlier word; and
  `SoFar`: the words found, followed by what the function makes of the rest, are the
  words of the line. `WordCut` is the hard step: blanks and
  quotes are skipped and the word cut as the function cuts it, also when the end of the
  line ends the word and the buffer goes on with an older line. When all of argv is used
  parse stops, and `AllFound` says that argv is then the beginning of the words. For
  getopt, `OptionsRead`: what it has returned, with what the function makes of argv from
  optind's word on, is what the function makes of all. Inside a cluster such as `-la` that is
  too little, because the function starts the word again: `InClusterAt` adds that the
  options passed take no argument and have been returned, so the repetition adds
  nothing. That the two functions exist and satisfy their equations
  (`WordsRun`, `OptionsRun`) is an induction downwards from the end, over sets of
  positions (`DownTo`), as for path resolution.

So every safety invariant and every action property that a passing run checks is
also proved, and both refinements of the allocators and that of the disk. Only
model-checked is liveness (CallsReturn, ExecEnds, CallReturns, PromptAgain), which the
prover cannot state.

## Known differences from the documentation, without a run

The models follow the code here; the difference is in the documentation.

* vfs.c:88 follows one mount per component, and vfs.c:28 sets the pointer of the vnode
  the path resolves to: a second mount on the same path goes on the first one's root and
  is never reached, though docs.typ:331 says that vfs_mount finds the target and sets
  its pointer, and docs.typ:344 that resolution follows mount points.
* vfs.c:52 stops at 32 components: a longer path resolves to the directory its 32nd
  component names, where docs.typ:345 promises NULL if a component does not exist.
* vmm.c:43-45 leaves the flags of a table that exists as they are: a page mapped
  writable below a table made for a read-only one is not writable, whatever
  docs.typ:141 says of the flags. PermissionsKept says what does hold: no page ever gets a
  right that was not asked for, and an image of writable segments only, as link.ld makes
  it, gets all of them.
* initramfs.c:107-109 makes no directory for the last component it is given, so that a file
  whose directory is missing lands one level up; docs.typ:588 says that parent directories
  are created as needed. ParentsMade says what does hold, that all directories above the
  last are; it says nothing of where such a file lands.
* initramfs.c:185 walks along the directory of a file only when its text has fewer than 1024
  characters: with a longer one the file lands in the root. ParentsMade leaves these out.

## Plan

Done: 1 Kmalloc, 2 Pmm, 3 Vfs and Syscalls, 4 Ext2, 5 proofs of 1 and 2, 6 Vmm and
Exec, 7 Initramfs, 8 Ata with its proofs, 9 Console with its proofs, 10 Shell,
11 proofs of 3, 12 proofs of 4, 6 and 7, 13 proofs of 10.

Next: `u_resolve_path`, chdir and getcwd.

## Not modelled

Parts: the processor's tables and interrupt stubs (written once at
boot), string, number and print helpers, libc, fonts, the kernel API table, the text the
tools, cd, pwd and help print, the build. The vnode of console.c: nothing opens it.

Inside the parts that are modelled, and why:

* ata.c:124: CACHE FLUSH goes out while the drive may still be busy storing the sector, and is
  then dropped; ata.c:125: a fault reported after the data was taken is not looked at. The
  model has both, and Disk.tla promises nothing about them; Ext2 lets any
  write be lost.
* ata.c:90: a sector number of 2^28 or more names another sector. IDENTIFY cannot
  report such a disk; the model's sectors stop there.
* ext2.c:504: when the superblock cannot be read, the buffer is whatever was on the stack. What
  a failed read leaves is left out of Ext2 throughout.
* syscall.c:124: the current directory is kept as text. When what it named is removed
  or covered, every relative path of the tools changes its meaning. No call of the
  kernel reads it but SYS_GETCWD, so it is not in the models.
* path.h:15: with a current directory that fills the buffer (255 characters for the
  tools) the slash and the 0 go past its end. Not modelled: the characters of paths are not.
* args.h: a `:` in the option string is taken for an option when it is typed. No program is
  run that way; option strings are functions from letters here.
* keyboard.c: with both shift keys held, the release of one ends both; that is modelled, and no property
  asks for more.
* syscall.c:41: a size of 0 makes max - 1 wrap. Every caller passes the size of an array, and
  `ConsoleAssumption` says so.
* The early heap of main.c:39 when no run of frames is found: there is no later state to
  say anything about.
