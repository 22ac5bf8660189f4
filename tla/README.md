# Verification of UsusBuntu OS

TLA+ specifications of the kernel under `src/src/`: a 32-bit teaching operating system with a
FAT32-like file system, 4 MiB paging, a process list and a text-mode shell. TLC checks small
instances, TLAPS proves the main invariants for every value of the constants.

## The system

| Part | State | Operations | Interacts with |
|---|---|---|---|
| FAT32 driver (`fat32.c`) | cached FAT, clusters on disk | write, delete, read, read_directory, move to child / parent, initialise | called through system calls 0-3, 8, 9 and by process creation; calls the disk |
| Disk (`disk.c`) | blocks | read_blocks, write_blocks | polled ATA, no interrupts |
| Process manager (`process.c`) | control blocks, `active_process_count`, pid counter | create, destroy, list | system calls 14-16; uses FAT32 read and paging |
| Paging (`paging.c`) | page directories and their used flags, frame map | create / free directory, allocate frame, switch | process manager, boot |
| Scheduler (`scheduler.c`, `interrupt.c`) | running index, saved contexts | init, switch (boot only), save context on each tick | timer interrupt, process manager |
| Boot (`kernel.c`) | - | file system, first frame, shell, switch | everything |
| Keyboard and framebuffer (`keyboard.c`, `framebuffer.c`) | one-character buffer, modifier flags, cursor, screen | interrupt handler, poll, activate, putchar, scroll | keyboard interrupt against the polling shell |
| Shell (`user-shell.c`) | working directory, request, buffers | cd, ls, mkdir, cat, cp, rm, mv, find, search, touch, echo, exec, ps, kill, clock | only through system calls |
| Search (`fat32.c`) | - | KMP, Boyer-Moore, depth-limited search, path search, listing | reads the tables |
| Clock (`clock.c`) | time registers | read_rtc with the update-in-progress protocol | system call 17 |
| External inserter (`external-inserter.c`) | disk image | writes a file into the image while the machine is off | same driver source |

System calls enter through an interrupt gate, and interrupts stay off until they return, so two
calls never overlap and a tick or a key never interrupts one. Keys and ticks do interleave with the
shell between its calls. What is hard here is therefore that interleaving, long sequences of legal calls (chains freed and reused, slots and
page directories freed and reused), the limits (full disk, full directory, full process list), and
power loss between the disk writes of one call. `PROJECT.json` lists each such place as a hazard
with the property that covers it.

What makes each part correct:

* FAT32: every entry owns a chain of its own that ends; no cluster is lost or shared; a read
  returns what was written; cd .. undoes cd; names are unique; a power loss costs at most the file
  being written.
* Process manager and paging: no control block outside the list; every process has its own used
  page directory without leftovers; the MMU's directory belongs to the running process; saved
  contexts belong to their process.
* Keyboard and screen: no key is lost silently, the cursor stays on the screen, input can always be
  switched on again.
* Shell: the prompt shows the working directory; a command leaves it where it was; composed
  commands (cp, mv, echo) leave no half-done result; a command acts on what was typed.
* Search: KMP and Boyer-Moore find a pattern exactly when it occurs; a traversal lists what it looks for,
  once, with the folders that lead there and nothing else.
* Clock: the time read is one the clock showed, never a mixture of two; GMT+7 is right over every end of a
  day, month and year; the call returns.

## Modules

| Module | Models |
|---|---|
| `FAT32` | the driver's operations, one step each; properties of the tables |
| `FileStore` | what callers may rely on: a tree of folders with names, contents and return codes |
| `FAT32Store` | the refinement mapping from `FAT32` to `FileStore` |
| `FAT32Crash` | the same operations split into disk writes, power loss, boot and mount; the inserter |
| `Process` | boot, exec, kill and timer over control blocks and page directories |
| `Keyboard` | keyboard controller, interrupt handler, screen and the shell's poll loop |
| `Shell` | the shell's commands as sequences of driver calls, on top of `FAT32` |
| `Matching` | `knuth_morris_pratt` and `boyer_moore`, one step per turn of a loop |
| `Search` | ls, print, find and the depth-limited searches over a tree of folders |
| `Clock` | the RTC, `read_rtc`, system call 17 and the shell's clock command |
| `FAT32Proofs` | the theorems about `FAT32` and `FAT32Store`; `FAT32CrashProofs` and `ShellProofs` build on it |
| `FAT32CrashProofs`, `ShellProofs`, `ProcessProofs`, `KeyboardProofs`, `MatchingProofs`, `SearchProofs`, `ClockProofs` | the theorems about the module they are named after |
| `MCFAT32`, `MCFAT32Store`, `MCFAT32Crash`, `MCProcess`, `MCKeyboard`, `MCShell`, `MCMatching`, `MCSearch`, `MCClock` | views, symmetry and instances for TLC |

### FAT32

`fat` is `driver_state.fat_table.cluster_map`; `store` maps a cluster to what it holds: a directory
table, a piece `<<v, i>>` of a caller's buffer, or the boot signature. `ret` and `copied` are what
the last caller got. An entry keeps the fields the code reads: name, extension, `attr`
(ATTR_SUBDIRECTORY), `used` (UATTR_NOT_EMPTY), cluster, size. Deleted entries keep attribute, cluster and size,
as in the code, and searches ignore `used`, as in the code.

Each operation is split by outcome: `WriteRefused`, `WriteFolder`, `WriteFile`, `Delete`,
`DeleteRefused`, `Read`, `ReadDirectory`, `MoveToChild`, `MoveToParent`. `WriteCode`, `DeleteCode` and `ReadCode` are
the early returns in the code's order. The link loop of write is `Link`: the clusters taken are
the lowest free ones, each leading to the next higher. `Chain` is the set a do-while over
`cluster_map` visits, `Walk` the same in order.

Three requests make the code fall through a search that found nothing: mkdir on a full disk
(cluster 0 is used, the boot sector overwritten), a write into a full directory (entry 0 is
replaced), deleting the empty root by its own name. `fault` records the first of these with its
full effect on the tables, and the model stops there: afterwards the driver works on tables that
are no longer a FAT. All safety properties hold up to that point; the violation run `fat32_reserved`
shows the first. The second costs more than it seems: with entry 0 the directory loses its parent's cluster, and
`write` still returns 0.

`read` compares `buffer_size` with the file's byte size and copies whole clusters. A buffer as large as the
file is overrun by the rest of the last cluster; the model says which clusters are copied, not what lies behind the
caller's buffer.

Parents of requests are the clusters a caller can get from the moves, files included (the moves do
not check that what they return is a folder). Names of requests are not empty: the shell never sends an
empty one. File contents never look like a directory table: `IsFolder` is false for a piece.
`create_fat32` passes the literal "root" where 8 bytes are copied; the three bytes after its terminator are
whatever the linker put there, so `RootName` is a constant, and the store run lets it equal a
caller's name.

### FileStore and FAT32Store

`FileStore` knows nothing of clusters: folders have handles, a name, a parent and a list from
(name, extension) to files or folders. It keeps one quirk, because callers see it: a folder also
answers to its own name without extension (entry 0 is searched too). `FAT32Store` reads the tree
off the tables and shows that every driver step is a step of the tree. Refusing a write for lack
of space is nondeterministic in the abstract specification. The auxiliary variable `call` records
the request of the last step, so that the tree's step is the one for the same request.

### FAT32Crash

`disk` and `dfat` are the platters, `store` and `fat` the driver's view. A call changes the
driver's view at once and queues its writes in the code's order: contents, the parent's table, the
FAT, which is written in blocks of `FatBlock` entries in ascending order. `Flush` completes one,
`Crash` may come between any two and drops the rest, and the next boot either formats or mounts.
A cluster is written as one unit: an entry lies within one 512-byte block and the rest of its
table does not change, a new table and file contents are unreachable until the parent's table is
written, so tearing inside those clusters is not observable; tearing inside the FAT is, and is
modelled. `wreck` is what a crash left. After a torn write the new entry dangles, and a walk from
it leaves the tables (it follows cluster 0, then the reserved values); calls on such a disk are not modelled.

`InsertLoad`, `InsertWrite` and `InsertSave` are the inserter: with the machine off it copies the image, mounts
or formats the copy, makes one write and saves the copy. A missing or empty host file has size 0, which write
takes for a folder. The save is one step; the inserter truncates the image before it writes it,
so killed in between it leaves none, and what a host file system keeps then is outside this project.

### Process

`process_list`, `page_directory_used` and `table` are the code's arrays; a context is the owner of
the registers it holds, whether ss and cs are selectors, and the page directory. `BootPaging`,
`BootCreate` and `BootSwitch` are kernel_setup from the first page frame on; `Exec` and `Kill` are system
calls 15 and 14; `Timer` is the interrupt. The early returns of creation are `CreateCode`. A
request is whether its buffer lies in the kernel's half, its size, and whether the file system can
serve it: the system call takes any request, although the shell makes sure that the file is
readable before it calls. `buffer_size + PAGE_FRAME_SIZE` is computed modulo `WordSize` (2^32).
Process names, which only `ps` prints, are left out, and so is the executable's image.
A kill of the running process clears the directory the MMU uses; the model stops there, as it does
when the init process could not be created.

### Keyboard

`keyboard` is `keyboard_state`, `fb` is `framebuffer_state` with the visible cells, `temp_buf` and
`buf` are the shell's line buffers. The controller (`port`, `irq`, `in_service`) is external: it puts
a scancode in the port, latches the interrupt and waits until the port is read. `keyboard_isr` is split by
the branches of the handler: `IsrOff`, `IsrModifier`, `IsrArrow`, `IsrCtrlC`, `IsrBackspace`, `IsrEnter`,
`IsrChar`, each with its return and its `pic_ack`. `Poll` and `PollEmpty` are the loop of main, `Output` one
character or line feed a command prints (or the clear call), `Activate` the end of every command: clear_buf,
the prompt and keyboard_state_activate. Anything on the screen that is not part of the line being typed is the
one cell value `OLD`. A character is its key and whether it is the shifted one.

`typed`, `arrows` and `history` are auxiliary. `typed` is what a user sees of the line; `history` records that
a key replaced one the shell had not fetched, that a key was typed while the shell was not at its
prompt (input is on from boot, so this happens during the banner), and that a key came while input was off.
The three are real: the handler loses the first kind of key, hands the second to the next
line, and does not recover from the third. The properties say what holds without them.

### Shell

`cwd`, `current_dir`, `request` and `retcode` are the shell's globals, `job` the command under way. `mkdir`,
`touch`, `cat`, `rm`, `find` and `exec` change the disk at most once and are one step; `cd` along a path
(`CdCommand`, `CdStep`), `cp` (`CpRead`, `CpToFile`, `CpToPath`, `CpWalk`, `CpWrite`, `CpBack`) and `echo` (`echo`,
`EchoWrite`) take several, and every driver call is the action of `FAT32`. The shell is the only process that
is ever resumed, so nothing else calls the driver in between.

Names are sequences of letters, because some commands do not set all eight bytes: `touch` and `echo` copy an
array they have not initialised behind the terminator (`Unpadded` chooses between a clean and a garbled name),
`rm` copies only the typed letters (`Overlay`). Return codes are one byte stored in the 32-bit `retcode`
(`Answer`), the two moves store a whole cluster number; `ByteSize` is 256 in the code and small in the runs, so that cluster
numbers pass it. `echo` deserves a warning: it copies the text over the buffer its argument lies in, so the
extension it asks for is taken from the text, copies four bytes into the three of `request.ext`, which
clears the low byte of the parent's cluster number (`EchoFolder`), and reads the file over the text. In a folder below
cluster 256 it therefore never reaches the file, and where it does, it writes back the old content.

Left out: what overruns of stack arrays do (names longer than 8, `filename[8] = 0` and the like), names of
different lengths in one run, extensions shorter than three letters, `touch` without an extension, a `cp` of more
than one cluster. cp's path never contains `..`, since any dot makes cp reject it.

### Matching

A string is a function on `0 .. length - 1`; `Init` chooses a pattern, a text and one of the two functions.
`PrefixFall`, `PrefixStep`, `PrefixEnd` are the loops that fill `pi`, `MatchFall`, `MatchStep`, `MatchEnd` the loops over
the text (the code's `j` there is the variable `k`), `TableStep`, `TableEnd` the loop that fills `bad_char`, `ScanCompare`,
`ScanFound`, `ScanShift`, `ScanEnd` the scan. Every turn of a loop is a step, so the properties speak of the loops' states,
not only of the answers. The empty pattern, on which the two functions disagree (KMP says no, Boyer-Moore yes), never comes from the shell's prompt.

### Search

`frames` is the recursion: per activation its folder, loop variable and `local_found` (`found_lokal` in find).
`found` and `level` are shared through pointers in the code and are single variables here. `buffer` is the
output as lines, each with its indentation and the entry it names; "remove the directory name from the path" drops
the last line. That the last line is the folder's is no assumption but follows from the recursion: whatever was appended
behind it was erased before. `Pass`, `Report`, `Enter`, `EnterTooDeep` and `Return` are the branches of the loop body and its end,
for all traversals at once: `Entered` and `Reported` say which entries each of them treats how. The two
depth-limited searches are the same code but for the matching, so they are one call here.

An extension is one of four kinds, because the code compares `memcmp(ext, "dir", 3)` with 0 and with 1: all zero,
before "dir", "dir", behind it (where "txt" is). A name is of 7 letters, of 8 that begin with the same 7, or another.
Four behaviours of the code are part of the model and of what the properties say:

* find compares 7 letters: an entry with a name of 8 is missed under its own name and found under its first 7;
* find does not see a file whose extension sorts before "dir" (a.bin), listings show such a file without extension;
* find does not look below a folder that has the name;
* the search of a folder below the depth limit returns before it resets `found`, so the line of a folder on the
  last level stays when the entry before it was a match.

A file called `x.dir` would be entered as a folder; the trees here hold none. Overruns of the caller's arrays are left out:
`print` and `find` get 255 bytes, the searches clear 1024 in an array of 1023, and reading a text file copies whole
clusters into an array of its byte size.

### Clock

The RTC (`registers`, `uip`, `updated`) is external: it raises its flag, changes one register at a time
and lowers the flag, at any moment of the call. `WaitForUpdate`, `ReadRegister` and `Compare` are the loops of `read_rtc`, `Convert` the arithmetic
after them, `Answer` system call 17 and `PrintTime` the shell. The first reading has nothing to be compared with
(`last` is empty), as the code reads once before its do-while. All four modes of register B are initial states. `seen` is auxiliary:
the moments shown since the call began. A moment may be flagged by no update when the code tests the flag and be torn
by one that begins right after: the second reading then differs.

Two behaviours are worth knowing. In the 12-hour mode 12 AM becomes noon and 12 PM midnight, since 12 is added
whenever bit 7 is set (`LocalIsWib` allows exactly this). And `clock` adds 7 to an hour the kernel has
already moved to GMT+7, so it shows GMT+14, hours 7 to 30, beside the right time in the corner of the screen;
src/src/user-shell.c:1258 says "GMT+07 WIB".

## Runs

| Run | Instance | Shows |
|---|---|---|
| `fat32` | 6 clusters (3 free), 3 slots, files of 2 clusters, request names equal to the root's, 3 extensions, 2 contents | `TypeOK`, `Consistent`, `NoLeak`, `NamesUnique`, `OtherFilesUntouched`, `ImplementsFileStore` |
| `fat32_crash` | 6 clusters, FAT in 2 blocks, the inserter between boots | `CrashConsistent`, `TornWriteIsLocal`, `CompleteFilesWhole`, `CommittedUntouched`, `HalfFormattedForGood` |
| `process` | 4 control blocks, 5 directories, 3 pages, 16-value word | `TypeOK`, `ListNeverOverrun`, `DirsOwned`, `NoStaleMappings`, `RunningMapped`, `LifetimeLimit` |
| `keyboard` | 2 rows, 3 columns, 3-value index, keys c, Ctrl, Backspace, Enter, left, right | `TypeOK`, `ShellHasLine`, `LineOnScreen`, `CursorOnScreen`, `KeyServed`, `EnterRuns` |
| `shell` | 7 clusters, 3 slots, one name, extensions "txt" and "dir", 5-value byte, paths of 2 | `PromptIsTrue`, `CpReturns`, `EchoKeepsFile` |
| `match` | 2 characters, patterns and texts up to 6 | `TypeOK`, `Exact`, `PiIsLongest`, `NothingMissed`, `Terminates` |
| `search` | trees of 4 folders (3 for the listings and find), 3 usable slots, depth limit 2 | `TypeOK`, `ListingIsTree`, `SearchExact`, `FindExact`, `ListsAll` |
| `clock` | 12 moments before something turns over, 3 updates during a call, all modes | `TypeOK`, `ReadingIsOneMoment`, `LocalIsWib`, `ReadReturns` |
| `keyboard_wedge` | as `keyboard` | violation: after a key while input was off nothing is read any more |
| `shell_rm` | 6 clusters, extensions "txt" and "bin" | violation: `mkdir a`, `rm a.txt` removes the folder |
| `fat32_reserved` | 6 clusters | violation: mkdir on a full disk takes cluster 0 |
| `process_context` | as `process` | violation: the timer saves into the newest block, not the running one |

Bounds. Three free clusters are the least in which a two-cluster file and a folder, or a folder and a
file inside it, compete for space, a chain gets non-contiguous, and the disk fills up; all six properties
of that run are proved for every size. Three
slots (two usable) let a directory fill up. Sizes 0 and 3 with cluster size 2 are a folder and a
file of two clusters with a partial last one. The FAT of six entries in blocks of four splits a
chain over two blocks. One more directory than control blocks lets a leaked directory shift the
correspondence of slots and directories once. Process creation bounds itself
(`active_process_count` never goes down), so that model needs no artificial bound.
The views leave out `ret` and `copied`, which no operation reads; values are symmetric in the `fat32` run.

On the 2 x 3 screen a line of three characters wraps, scrolls and is erased back over a row's edge, and the index
wraps. `MaxLine` bounds the line (a longer one would leave the screen), `MaxArrows` the arrow keys, `MaxCursorRow` how far they may take the
cursor below the screen before Enter, `MaxOutputColumn` and `MaxScroll` what a command prints; rows above the screen are only counted. The keys not pressed in this
instance are the other modifiers, which only set flags, and the up and down arrows. In the shell run folders at clusters 5 and 6 lie beyond one "byte":
5 is a multiple of it, so echo reaches the file there, and 6 makes echo address the folder at 5. The view leaves out the contents of free
clusters, except whether echo would take one for a folder.

Patterns of 6 over two letters have borders within borders (aabaab) and texts of 6 let a match start inside a failed one.
Four folders, three in one table, are the least in which a match is followed by two folders without one in the same
parent, which is where remembering only the last `found` goes wrong; with a limit of 2 a fourth level is cut off.
Three updates during one call tear both readings and leave one to agree; they stay below a minute.

Fairness. `Matching`: a loop with interrupts off runs on (`WF_vars(Next)`). `Clock`: the caller runs on, an update the RTC has begun ends, and
at most `MaxTicks` updates fall into one call, since the RTC updates once a second and a reading takes microseconds. For the keyboard a pending interrupt is delivered while the previous one is
acknowledged (the processor does that: system calls are short and return with interrupts on), the shell's loop keeps polling (it
is the only process that runs), and a command ends. Pressing keys is not fair. The other
specifications have none; their properties are safety properties. Deadlock is checked everywhere; a stopped model stutters explicitly.

`HalfFormattedForGood` is a behaviour worth knowing rather than wanting: the signature is written
first, so a format cut short is never repeated, and the parent check of every operation then refuses all work, so at
least nothing is written on that disk.

## Proofs

`FAT32Proofs` proves `TypeCorrect`, `AlwaysConsistent`, `NeverLeaks`, `FilesStayPut` and `NamesStayUnique` for every table and
cluster size and every set of names, from `ConstantsAssumption` only. The inductive invariant `IInv` is `TypeOK`
with `Sound`: while no fall-through has happened, all parts of `Consistent` and `NoLeak` hold together. They have to be proved
together: that delete frees only its own file's clusters needs that chains do not meet and that an
entry names the head of a chain no other entry names; that no folder is orphaned needs that a
folder's table is found through the entry of its parent. The lemma `NewChain` describes the links write builds,
`ChainLeast` and `ChainPredecessor` what delete frees. `NamesStayUnique` rests on the same invariant: deleted entries are nameless, so a search
that compares with them too still finds every name in use, and write refuses what it finds.

`DriverImplements`, also in `FAT32Proofs`, is the refinement: `StoreSpec => ImplementsFileStore`, for every size. It needs more of the disk than `IInv` says, collected in
`Ordered`: names are unique (`AllDistinct`), entries in use have names and a folder's own entry has no extension (`AllNamed`), and every file is whole
(`WholeIn`, from `FileOn`: a set of clusters holding each piece once, each leading to the next). The invariant `Mirrors` adds that the auxiliary variable `tree` is what the tables show
(`TreeShown`). The argument has four parts:

* the tables show one tree only (`TreeOnly`, since a file's first cluster names its contents), and `Tree` is it (`TreeIs`, since the walk of a whole file meets its pieces in order: `WalkWhole`);
* a search ends in one of three ways, and the tree says which (`Search`: the name is missing, is the folder's own, or is listed in the one slot that bears it), so every refusal and every call that
  only looks answers as `FileStore` allows (one lemma per call, `WriteRefusedStep` to `DeleteRefusedStep`);
* what write and delete do to the tables (`Adds`, `Removes`) changes the list of one folder by one key (`AddsLists`, `RemovesLists`), so the tree that `FileStore` asks for is shown by the new tables
  (`WriteFileTree`, `WriteFolderTree`, `DeleteTree`), hence is the new `tree`;
* a step that falls through is `FileStore`'s `Break`.

`ShellProofs` proves the three properties of the `shell` run for every disk, every set of names, every length of a path and every width of the answer byte, from
`ShellAssumption` and `ConstantsAssumption`: `PromptTrue`, `CpTakesBack`, `EchoKeeps`. The invariant `ShellInv` says, up to the first fall-through: the disk is `Ordered` (`DiskOK`, with a fact
about tables that are no longer folders, which echo may address by mistake); there is a trail of folders from the root to the working directory, one per name in the prompt, each listed in the one before
(`TrailOK`); while cp is under way the moves it has counted lead back along that trail to where it was entered (`LeadsHome`); `retcode` is zero or a byte when cp reads it (`RetOK`); and between echo's delete and its write
the freed cluster and slot are still free (`EchoOK`). `PromptIsTrue` alone is not inductive:
`cd ..` needs that entry 0 of each folder on the trail leads to the one before. rm never removes a folder of the trail (`TrailShrinks`): delete takes only folders that list nothing, while each folder of the trail lists
the next one and the working directory lists what rm removes.

`ProcessProofs` proves all six properties of the `process` run, for every number of blocks, directories and
frames, from `ProcessAssumption` (which says there are at least as many directories as blocks, 32
and 16 in the code). The inductive invariant `PInv` adds to the properties: live slots lie below
`active_process_count` (`Counted`), which is why the unchecked index is never -1; unused directories
are empty (`Cleared`); as long as no creation failed in the file system, slot i has or remembers
directory i (`Aligned`), which is why kill 0 is then harmless; and what holds at each stage of boot (`Stages`).

`MatchingProofs` proves all four safety properties of the `match` run for every alphabet and every length, so both functions
are exact, from `MatchingAssumption` only (`MatchingTypeCorrect`, `MatchingExact`, `FailureFunction`, `NoOccurrenceMissed`). The inductive invariant `MInv` says what each
loop has established. For KMP that is: `pi` holds longest borders so far, `k` is a border that can still grow, and every
longer one is ruled out by the next character. The step that matters is a fallback, and it rests on three facts about `Agree`: a
border of a border is a border (`AgreeCompose`), a shorter one of two that end at the same place is a border of
the longer (`AgreeShrink`), and both grow by equal characters (`AgreeExtend`). For Boyer-Moore it is that `bad_char` holds last positions
(`LastBefore`): an occurrence at an offset jumped over would put the mismatched character behind its last position.

`ClockProofs` proves the three safety properties of the `clock` run for every set of starting moments, every mode of
register B and any number of updates below a minute's (`TypeCorrect`, `ReadingNeverTorn`, `LocalTimeRight`), from `ClockAssumption`. That a call lasts less than
a minute is an assumption on the machine: it takes microseconds. The invariant `OneHistory` says that there is one
history of moments, a second apart, from which every register that was read comes: the seconds, which are read
first, from some moment, the other registers from that moment or one around it. Two readings are parted by a moment at which no
update was in progress, since `read_rtc` waits for that. `Agreeing` is the argument of the do-while: if both readings show the same
seconds, no minute ended between them and each of their registers is that of the parting moment; a reading torn by a carry shows
seconds that the next reading no longer shows.

`KeyboardProofs` proves the four safety properties of the `keyboard` run for every screen size, every width of the index and every
set of keys, from `KeyboardAssumption` and `KeysDistinct` (no scancode is a character and a control key; the table in `keyboard.c` has none):
`TypeCorrect`, `CursorStaysOnScreen`, `ShellAlwaysHasLine`, `LineStaysOnScreen`. The invariant adds three facts. `Bounds`: the handler's index is at most the length of the
line. `RunsClean`: while a command runs, neither the buffer nor the shell holds a character for the next line. `RowOpen`: once Enter is in the buffer input is off, and the cursor stays left
of the last column, where putchar's test finds it. The hard case is LineStaysOnScreen over a scroll in the middle of a line.

`SearchProofs` proves the five properties of the `search` run for every tree, every table size and every depth limit, from `SearchAssumption`:
`TypeCorrect`, `ListingStaysTree`, `ListsEverything`, `SearchIsExact`, `FindIsExact`. The invariant names the set `vis` of entries the loops have
passed: in the folders of the recursion those before the loop variables, and all of every other folder that was entered
(`Passed`). From it follow what `found` and the saved `local_found` mean (`FoundSo`: there was a match below the folder) and which lines
the buffer holds (`Lines`: the matches, the finished folders with a match below, the folders of the recursion, and folders on the last level). `Blocks` says that behind the line of
a folder of the recursion there are only lines from inside it, which is why dropping the last line drops the folder's own.
`Path` ties the activations to the tree. Facts about ancestors go by the least folder that violates them, as folders are numbered below their parents; the recursive
functions `AboveIn` and `DepthIn` are first shown to exist.

`FAT32CrashProofs` proves all five properties of the `fat32_crash` run for every size of the FAT and of its blocks, of tables, clusters and
files, and any number of power losses and host writes, from `ConstantsAssumption` and `CrashAssumption` (FAT blocks are not empty, and the signature is not all zeros).
`CInv` describes each phase: `Off`, `Idle`, `Hosted` (the inserter), and with writes outstanding `Formatting`, `Writing`, `Deleting`. Its parts are
statements about any FAT `F` and any clusters `S`, so that the same words serve the driver's view and the platters: `SolidIn` is what `FAT32Proofs` calls `Solid`, `Image` what a disk holds after each kind of wreck.

* Deleting: the FAT on disk is at any moment the new one up to some block and the old one behind it. `FreedInOrder` shows that it is then
  still solid with the new table: chains ascend, so the half-written FAT frees the front of the chain, which nothing names any more.
* Writing: until the parent's table is on disk every write goes to a cluster that is free there (`Aside`), so the disk is as it
  was. Afterwards all clusters that the old entries lead to are complete (`LeadsInto`), and only the new entry may dangle (`Torn`).
* Contents: `WInv` adds that every file of the driver's view and of the disk is whole (`FileOn`: a set of clusters holding each piece once, each leading to the next); after a torn write
  those files are whole whose chain is complete. `PiecesInOrder` shows it of the file write builds, and that its count of clusters is the count the size
  asks for (`LowestCount`); `WalkWhole` that the walk of read then meets the pieces in order. The walk is a recursive function, which is shown to exist and to be unique.

Only model-checked: `KeyServed`, `EnterRuns`, `Terminates` and `ReadReturns`, which are liveness under fairness, out of the prover's reach. Every other property of a passing run is a theorem.

## Not modelled

Descriptor tables, PIC, PIT and ATA port protocols (register programming), the assembly stubs, text
formatting (the bytes of a listing, ps output), dead code (`move_dir`, `paging_free_user_page_frame`), `cmos.c`
(not compiled), `mv` (its system call is bound to another function and its requests are uninitialised), and
what an access outside an array finds or destroys. These hold no state whose change the other parts depend on, or none the source determines.

## Plan

Done: `FAT32` with its abstract specification and crash model, `Process`, `Keyboard`, `Shell`, `Matching`, `Search`, `Clock`; the
safety properties of all of them are proved, the refinement included.

Next: `Shell` composed with `Process`, for exec of a file that is then removed or changed.
