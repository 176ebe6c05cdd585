# A verification project for bbcp

bbcp restores the files of a damaged exFAT partition to a directory. A run from
scratch (`-m 0`) mounts the partition read-only with a patched libexfat, lists
every file with the device offsets of its clusters, and writes one record per
file to a *status file*; then, like a run that continues (`-m 1`), it maps the
status file, restores every file whose record is not yet marked, and marks the
record through the mapping. Restoring from a dying disk takes days, so the
program is meant to be killed and continued; that is what this project is about
first: **what is on disk after any sequence of runs, crashes and failed reads.**
The second subject is what damage on the medium does to the listing, from the
mount down to the single directory entry and its name. The third is how a run
comes about: options, prompts, and disks that come and go. The fourth is the
part of libexfat that writes: bbcp carries it and does not call it, but the
library promises it to whoever mounts without `ro`.

## 1. Inventory

| component | source | state | operations | what is hard |
|---|---|---|---|---|
| run | `Application.cpp`, `Processor.cpp`, `Unit.cpp` | launch parameters; the unit list; the position in it and in a file | launch in two modes, store, load, restore, mark | death at every step, runs in changing modes over one status file, failed reads |
| status file | `UnitStorage.cpp`, `Marshal.cpp`, `Types.cpp` | the file; its mapping; the load offset | store, map, load, sync one record in place | cut records, unsigned offset arithmetic, whole-record copies |
| directory walk | `ExfatPartition.cpp`, `ExfatNode.cpp`, `lookup.c`, `node.c` | node tree, reference counts, iterators | open, read, close a directory; cache it; unmount | a directory that cannot be read; double release |
| cluster chains | `ExfatNode.cpp`, `cluster.c` | the position in the chain | `getOffsets`, `exfat_next_cluster`, `exfat_c2o` | unreadable and wrong FAT entries, loop bounds |
| entry parser | `node.c` `readdir`, `check_node` | iterator, continuations left, the node being built | one entry at a time | entries out of order, errors half-way |
| mount | `mount.c`, `io.c` | super block, root node, buffers, the mark on the medium | mount, unmount | release of what was acquired on each error path; never to write |
| command line, wizard | `ArgsParser.cpp`, `Wizard.cpp`, `Udev.cpp`, `Application::init` | `AppParameters_t`, the udev monitor's queue, mounts | options, prompts, device events, the mount of the good disk | options that override each other, events of other devices, names that change hands, the end of the input |
| drive | `Drive.cpp` | /sys attributes | setup, `adoptiveReadWrite` (unused) | a setting that is rejected; short reads |
| names | `utf.c`, `utils.c` | the output buffer and what is left of it | UTF-16 to UTF-8 and back | limits of both ends, surrogates, a failure that aborts |
| file allocation | `cluster.c`, `io.c`, `node.c`, `mount.c` | FAT, bitmap in memory and on the medium, nodes, file pointers | truncate, read, write, flush, unmount, scan of the bitmap | an access that fails after others were made; what the next call makes of it |
| directory changes | `node.c`, `lookup.c` | directory clusters, nodes, references, label | mknod, mkdir, unlink, rmdir, rename, label, flush | sets written entry by entry, seven ways out of rename, death in between |
| time, log, Reporter, scripts | | | | without state, or no part of the program |

What makes each of them correct:

* run – a marked record has its output as the restore left it, whoever died when;
  what is finished is not touched; a run ends, and a normal end is complete.
* status file – the file is the image of its records; loading a cut file returns
  its whole records or does not return.
* directory walk – every file that can be reached is listed once; a directory that
  cannot be read costs its own subtree only; counts equal holders.
* cluster chains – the offsets are the file's, in place, up to the damage, and
  nothing that is live follows what is lost.
* entry parser – no two sets of entries are mixed; what is sound is read; nothing
  is left on the heap.
* names – what is converted comes back; buffers are neither overrun nor too small.
* mount – never writes to the bad disk; gives back what it took.
* command line, wizard – the parameters are those the user gave; the two disks are
  two.
* drive – a run begins with all settings made, on that disk and no other.
* file allocation – every used cluster belongs to one file and is found; no call
  touches another file's clusters or shows a deleted file's bytes, whatever fails.
* directory changes – what a call was not about stays; what has returned survives a
  death; references are put as often as they are got.

Components interact by calls within one thread; there is no concurrency inside
a process. What makes bbcp hard is what it shares with its own earlier and later
runs (the status file and the restore directory), and a medium that answers
differently from one read to the next. The only component that is called but not
in the repository is CppGenerics (`System::*`): each of its calls either does
its work or throws, and since nothing in `main` catches, a throw ends the
process. `PROJECT.json` lists the components and, under `hazards`, what could go
wrong at which line, with the properties that would show it.

## 2. Modules

| module | models | composes |
|---|---|---|
| `Recovery` | runs over one partition, status file and restore directory, at the level of whole records and clusters | `ResumableRestore` (as `Promise`) |
| `ResumableRestore` | abstract: a batch of jobs, each delivered at most once and finally | |
| `RecoveryProofs` | the inductive invariant of `Recovery`, its theorems, the refinement of `ResumableRestore` | `Recovery` |
| `StatusFile` | the status file cell by cell: `Marshal`, `UnitStorage`, `Unit::syncMe` | |
| `DirWalk` | the recursive walk with libexfat's reference counts | |
| `ClusterChain` | `getOffsets` over a damaged FAT | |
| `ClusterChainProofs` | lost offsets come last; the loop's bounds; what is listed is the chain | `ClusterChain` |
| `ReadDir` | one directory, entry by entry: the inside of `DirWalk`'s `OpenDir`, `OpenDirFails` and `Abort` | |
| `ReadDirProofs` | the copy of a name; the heap; the listing | `ReadDir` |
| `Utf` | the conversions of names | |
| `UtfProofs` | the output buffers; a name there and back | `Utf` |
| `Mount` | `exfat_mount` and `exfat_unmount` step by step | |
| `OnDiskProofs` | what is on disk when a process is gone: the records of the status file, the mark of a volume | `StatusFile`, `Mount` |
| `Launch` | options, wizard, udev events, `Application::init`, the drive's settings | |
| `PreparationProofs` | what a run begins with: two disks that are two, the parameters, the settings of a drive; the reference counts of the walk and its list of files | `Launch`, `DirWalk` |
| `Allocation` | clusters given to files and taken back; reads and writes through them | |
| `AllocationInvariant` | the inductive invariant of `Allocation`, and what its proof speaks of | `Allocation` |
| `AllocationProofs` | whose clusters they are; ENOSPC; the scan; the medium after an unmount; aborts | `AllocationInvariant` |
| `Directory` | the calls that change directories | |
| `DirectoryProofs` | the types of all of it; the references of every node | `Directory` |
| `MCRecovery`, `MCStatusFile`, `MCDirWalk`, `MCReadDir`, `MCUtf`, `MCLaunch`, `MCAllocation`, `MCDirectory` | instances for TLC (`ClusterChain` and `Mount` need none) | |

The modules meet in what one assumes and another shows. `Launch` ends where
`Recovery` begins, in a run with parameters. `Recovery` takes records as wholes,
on the strength of `StatusFile`, and a listing whose lost clusters come last, on
the strength of `ClusterChain`. Its listings are what `DirWalk` gives, whose one
step for a directory is all of `ReadDir`, and whose bad names are those that
`Utf` refuses. `Directory` grows and shrinks by whole steps, which are calls into
`Allocation`, and reads back what it wrote by the rules of `ReadDir`.

A run names few properties, each a conjunction of named parts (`WalkSound` is
`WalkTypeOK` and `ReferencesAccounted`): the parts are explained where they are
defined, and the text below calls them by their own names.

A definition whose line ends in `\* mutant` is a faulty variant of the
definition that follows it: `PROJECT.json` names, for every property, the
variant that breaks it, so that each property is known to depend on the code.

### Recovery

`status`, `torn` and `out` are on disk and survive a process; `pc` and what
follows it are in the process; `asked` and `pass` are history that no action
reads. `pc` follows `Application::run`: `list` and `open` (mount, `getUnitList`),
`store` (one step per record), `load`, then `Processor::process` with `unit`
(the loop head), `copy` (the loop of `_recoverUnit`) and `mark`
(`setProcessed`). `off` is a process that died, `exited` one that returned.

* `Crash` may take any step's place: a kill, or any exception, since both leave
  the disk as it is. `TornStore` and `CopyCut` are the failures that do change
  the disk: a short write to the status file and to an output file.
* A read may succeed or fail each time it is made, independently of earlier
  reads, as reads of bad sectors do.
* Under `-t 0` a failed read ends the file and the unit is marked
  (`CopyBadBreaks`); under `-t 1` the buffer is written all the same
  (`CopyBadPatches`).
* A listing is chosen anew by each `-m 0` run: a damaged medium may list
  differently from run to run.

Assumed: all runs name the same partition, status file and restore directory;
listings hold distinct names (exFAT forbids duplicates) and lose clusters only at
the end of a file (`ListingsAssumption`; the second part is what `ClusterChain`
checks as `LostIsSuffix`); the restore directory is not written by anyone else.

The refinement maps a record to a job, its mark to the delivery; the batch ends
when a run from scratch truncates the file. `Implements` is the abstract
specification as a property of `Recovery`.

### StatusFile

Recovery takes for granted that a record is stored, found and marked as a whole.
`StatusFile` has the cells: names end in a NUL, the element count has two digits
(standing for the eight bytes of a `size_t`), each element an offset and a size,
and a flag ends the record. `load` parses the mapping, which reads as zero up
to the end of its page and kills the process beyond. `records` and `torn` are
history: what was completely written, and whether a cut record follows.
`LoadIsExact` is what `Recovery.Loadable`, `Load` and `LoadFails` rest on, and
`FileIsImage` is what justifies that `Recovery.Mark` changes one record only.

### DirWalk

The C++ recursion is a stack of frames. `Return` is the end of a recursive call
with the `exfat_put_node` that follows it in the caller. Caching a directory is
one step that gives all entries or none: `exfat_cache_directory` frees what it
has read when any entry fails. The root is cached by `exfat_mount`, so it does
not fail here. `badNames` are the names that `getName` cannot convert: `Abort`
is what becomes of the process when it, or `check_node` for an error message,
asks for one.

### ClusterChain

All of `getOffsets`, for every node that `check_node` accepts and every content
of the FAT. An entry may be unreadable (`EXFAT_CLUSTER_BAD`), and a cluster
number beyond the heap makes `exfat_next_cluster` return anything: what lies on
the medium there, or, after a short read, a variable that nothing has set. The size, a
`uint64_t` in the node and an `off_t` in `getSize`, and the number of a
cluster, an `int` in the loop of `getOffsets`, are taken as they are: `MaxSize` stands
for sizes below 2^63 and fewer than 2^31 clusters.

### ReadDir

`pos` is the iterator, `node` the node being filled, identified by the position
of its FILE entry, and `children` the list that `exfat_cache_directory` links.
`entry` is the head of the loop of `readdir()`, `next` the call of
`fetch_next_entry`, `emit` the return of a complete node. `Reject` is every
`goto error` that the entries themselves cause; `FetchFails`, `EntryFails` and
`BitmapFails` are those of the medium and of `malloc`, which may come at any
time. All of them free the node and the children read before. A checksum is the
sequence of entries it covers, that is, one without collisions; of a name only
the number of its entries is kept, and whether it converts is left open where it
matters (`CheckNodeAborts`). An INFO entry is what `check_node` tells apart.
`heap` has what `malloc` gave and `free` did not take back. A short `pread` is
taken for a whole one by the code, and leaves entries in the buffer that are
those of an earlier cluster; since the model's directories are arbitrary, that
is one of them.

`ListedExactly` speaks of sets that end in an optional entry: such a set brings
its count to zero without completing, and its file drops out (`Dropped`).

### Utf

A behaviour converts a name to UTF-8 and, if that succeeds, back, one character
a step; or it converts arbitrary bytes to UTF-16. Code units and bytes are
numbers, the arithmetic is that of the code. `outsize` is what the caller says
of its buffer: `UTF8_BYTES(EXFAT_NAME_MAX)` in libexfat, `EXFAT_NAME_MAX` in
`ExfatNode::getName`.

### Mount

`step` is the position in `MountSteps`, which has for every step what it takes
and what its own error path gives back; `CacheRoot` and `PrepareSuperBlock`
share the label `error`. `disk` is the mark on the medium and survives a crash,
`held` is what the process has to give back, `leaked` what it never will.
`isProtected` is the device's write protection, which may change between mounts.
bbcp mounts with `ro` only; the other two modes are there to show what this
option is worth.

### Launch

`pc` is the position in the program: one step per option, then either the checks
of `Application::init` or the steps of the wizard in the order of `Wizard::run`.
The environment plugs disks in and out at any time; a disk gets any free name;
what the monitor has not received waits in `events`, which begins to fill when
the wizard creates the monitor. The wizard knows disks by name: `bad` and `good`
are history, the disks that were behind the names when the events came.
`unplugged` is history too, and lets the properties say "unless it left".
A name's partition device exists while the disk behind it has one. The end of
the input leaves an answer as it was, and since nothing set it, that is any
value (`Wizard.cpp:99`).

### Allocation

A call of the client is a record `op`; a step ends where the next access to the
medium may fail. `fat`, `entry`, `diskBmap` and `clean` are on the medium, `node`
and `bmap` in memory. Cluster numbers, the three marks and the loops over
unsigned counts are those of the code, so that a count which wraps shows.
`offset` and `len` are what the call works through, `boundary` is `erase_range`'s.
The volume is mounted without damage: the entries of each medium in `Media` pass
`check_node`, their chains are complete and apart, and they make up the used
clusters (`SoundMedium`, in `AllocationAssumption`). A volume has `cluster_count`
clusters, from number 2 on, and the bitmap is read for two less (`CMAP_SIZE`,
`node.c:487`); the last two (`Tail`) may be in a file all the same. They are never
given out, and `free_cluster` silently leaves them marked (`cluster.c:221`).
`bytes2clusters` counts in 32 bits (`UINT32`; what matters of that number is only
that the marks of the FAT are below it), and so do the indexes that are passed to
`exfat_advance_cluster`. `Needed` is the count that is not truncated.
`stale` has the bytes nobody wrote since their cluster was given out. Five
history variables say what has gone wrong: an access that failed in a call on a
file (`hurt`), that file used again (`retried`), a contiguous file that grew
backwards (`backward`), a size that was asked for and has more clusters than a
`uint32_t` can count (`wrapped`), a bitmap that could not be written at unmount
(`ignored`). Properties of the volume are stated up to the last four
(`Trusted`), because the code does not keep them beyond; section 3 says how it
fails.

### Directory

A directory is its slots. A call is a record `op` whose `pc` follows the code:
lookup, room, the entries written one by one, the erasure entry by entry,
shrinking, the flush of the parent, the puts on each way out. `split` is where
`exfat_split` has returned: `Create` and `Rename` take the references it got, those
of the directory and of a node that has the name already, and from there `create`
goes on or puts both for `EEXIST` (`Creating`), and `exfat_rename` goes on
(`RenameGoesOn`) or puts up to three for `EINVAL` and one where the lookup failed
(`RenameRefused`). After a node that had the new name was deleted, its cleanup may
fail, or `exfat_bug` end the process (`Replaced`). A lookup that fails has put
what it got, so that it changes nothing but for `exfat_rename`, which holds the
source by then (`RenameNowhere`); what a lookup gets and puts on its way is one
step, as nothing can come in between. A write may fail
and the process may die before any of them; a later mount reads the slots back,
whole sets only. `refs` and `held` are libexfat's references and the client's.
`tree` remembers where each node was last seen by a call that ended; `doubt` and
`torn` are the nodes and directories an interrupted call was changing, and the
properties are about all the others. `retried` is set when a call uses a node that
is not where it says it is (`InPlace`), or shrinks a directory by one (`Astray`).

What stands on the medium to begin with is a tree of two levels with whole sets
(`VolumesAssumption`); a mount after a death reads the same (`OneTree`), which is a
bound: of a directory found below another nothing is modelled.

## 3. Runs

| run | asks | bounds, and why they suffice |
|---|---|---|
| `recovery` | `TypeOK`; marked records are restored (`ProcessedIsRestored`); a normal exit is complete (`ExitComplete`); a run from scratch covers its listing (`StartCoversListing`); finished work is not touched (`FinishedUntouched`); `ResumableRestore` is implemented (`Implements`); once faults and restarts from scratch stop, continuing gets everything marked (`EventuallyRestored`) | two names, listings of two files: a whole file of two clusters, one that is lost after its first, an empty one, and the empty listing. Crashes, launches and mode changes are unbounded, the state is finite anyway. Two units are needed to tell "this record" from "another", two live clusters to have a failure before and after a copied block |
| `status_file` | the file is the image of its records (`FileSound`); load is exact or does not return (`LoadIsExact`); load ends (`LoadEnds`) | base 2, pages of 8 cells: counts need both digits, a first digit of zero occurs, one batch fills its pages exactly; cuts at every cell |
| `dir_walk` | reference counts equal holders less one per failure (`WalkSound`); the list is exact (`ListedExactly`); walk and unmount end (`WalkEnds`) | six directories in three levels, one empty; every set of failing directories, and at most one bad name, wherever it is |
| `cluster_chain` | listing exact up to the damage, loop bounds (`OffsetsExact`); lost clusters only at the end (`LostIsSuffix`); termination (`GetOffsetsEnds`) | files of up to three clusters with and without a rest, a heap of three clusters, every FAT over it with free, reserved, out-of-heap, bad and end marks |
| `read_dir` | sets are never mixed, and listed exactly, and a sound directory is read (`ListingExact`); nothing leaks but two known things (`HeapOwned`); a name overruns only in a set without info (`FaultsOnlyWithoutInfo`) | clusters of two entries, names of four characters, three to an entry, so that a file has two or three continuations and one NAME entry too many is possible; every sequence of two entries of any kind, of four of eleven kinds, of six of the five that make up files |
| `utf` | conversions invert each other and fail only where they must (`ConversionExact`), stay in their buffers (`NoOverrun`); libexfat's buffers suffice (`LibrarySizeSuffices`) | names and strings of up to three units out of those at both sides of every boundary; buffers of 3, 4, 6 and 18 bytes |
| `mount` | error paths and unmount give back what was taken (`ResourcesSound`); a read-only or protected medium is never written (`ReadOnlyMounts`); a writable one is marked while in use and after a death (`UncleanIsMarked`) | three modes, three mounts of one medium: one that dies, one that is read-only, one that cleans up |
| `launch` | the parameters are those asked for (`ParametersDecided`); the two disks are two (`DisksApart`); a run begins on the disks it is for, with all settings made (`RunIsPrepared`); a disk is not missed behind other events (`DiskIsTaken`) | three disks, one without a partition, two names for them, so that a name is reused; three moves are a disk in, out and in again; one call that fails; every command line of one option, mode options in every order, `-w` before and after others; 578,694 states |
| `allocation` | clusters belong to one file each and are found (`ClustersAccounted`); bytes are the file's own (`BytesOwn`); ENOSPC takes nothing, the scan is right (`AnswersExact`); what is on the medium is sound (`MediumSound`); no `exfat_bug` without a failed access, a file grown backwards or a size that overflows (`AbortsOnlyIfFailed`); every call ends (`CallEnds`) | six clusters of two bytes, the last two of them not in the bitmap, two files, one empty and one of two clusters, contiguous or not, one of them among the last; sizes and offsets 0, 3, 6 and 25 (empty, within the second cluster, three whole clusters, which are more than are free, and more clusters than the count, which wraps at 12, can hold), so that a write ends within a cluster or on a boundary; three calls and one failed access: one call to get into a state, one that fails, one that shows what was left; 543,184 states |
| `directory` | nodes keep their one set of entries (`TreeKept`); directories that no call was writing to stay readable (`OthersReadable`); a call that returned is durable (`ReturnedIsDurable`); references balance on every way out (`ReferencesExact`); a label is cut only with the last cluster (`LabelOnlyCut`) | a root and a directory, two files, names of one and of two entries, clusters of four slots, so that a long name straddles two; a full directory and one with a gap and a label behind its last file; three calls, one fault or death; every way out of `create` and `exfat_rename` is taken, a rename of the root and of a directory into itself included; no directory is moved into another; 359,449 states |
| `only_good`, `utf_get_name` | what the documentation or a definition says; violated | see below |

The three large models were also simulated at random beyond these bounds (up to
ten calls or eight moves, up to three faults) without a violation.

Fairness. `recovery` assumes that the process is scheduled (`WF(Step)`: one
thread, no step waits for anything) and that the operator continues a run that
stopped (`WF` on `Continue`). `EventuallyRestored` is conditional: faults and
`-m 0` launches must stop at some time, nothing else. `launch` assumes the same
of the program, and nothing of the operator: `DiskIsTaken` speaks of an arrival
that is already in the queue. In `dir_walk`, `cluster_chain` and `read_dir` the
single thread goes on (`WF(Next)`), in `status_file` a load does, in `allocation`
a call that was begun (`WF(Steps)`); no client is made to call. `utf`, `mount` and
`directory` have no liveness property and no fairness.

Deadlock is not checked in `dir_walk`, `cluster_chain`, `read_dir` and `utf`,
which model one call that returns, nor in `allocation` and `directory`, where
the calls are bounded and `exfat_bug` ends the process. `launch` ends in steps
that stutter.

### Where the code and its documentation part

* `only_good` – `-t 0` is documented as "restore only full recoverable files". A
  failed read leaves the file cut, in place, and marked as processed; and since
  what is marked is never touched again (`FinishedUntouched`), a later `-m 1
  -t 1` run, "restore all files", leaves it cut.
* `utf_get_name` – `exfat.h` reckons with six bytes for a character; `getName`
  passes a buffer size of one byte for each. A legal name of, say, a hundred
  CJK characters is too long, and `exfat_get_name` calls `abort()`.

Others are described by properties that hold, each with its exception spelled
out:

* A run killed between two records of `store()` leaves a shorter, valid status
  file; continuing it ends normally without the rest: `StartCoversListing`
  speaks of runs from scratch only.
* `ExfatNode::open` carries on after a failed `exfat_opendir`, and the destructor
  puts the node a second time: the count goes below zero, which `node.c` has a
  (disabled) assertion against, and which makes `reset_cache` spin at unmount.
  `ReferencesAccounted` has "less one for each failure".
* "Optional entry, warn and skip", says `node.c`; outside a set of entries it
  rejects the directory. If that is the root, the volume does not mount
  (`SoundDirectory` excludes it).
* The prompts say that ENTER selects 0 (`Wizard.cpp:75`); `operator>>`
  skips it and goes on waiting. `-m` with a word is a start from scratch.
* Options behind `-w` are never read, and `-d` and `-p` may name different disks:
  the settings are then made on a disk that is not restored.

### What the write path does when an access fails, and at its limits

`Trusted`, `retried` and `moved` mark where the properties stop. Beyond:

* A truncate to zero that fails leaves a size without clusters
  (`cluster.c:338-361`); the next growth counts from that size and takes clusters
  that are another file's. A FAT read that fails leaves the pointer at
  `EXFAT_CLUSTER_BAD` (`cluster.c:107`).
* A contiguous file keeps its flag when the new cluster lies before its last
  (`cluster.c:288`), although it is contiguous no more.
* `exfat_unmount` ignores that `exfat_flush` failed, and marks the volume as
  clean over a bitmap that was not written (`mount.c:363`).
* A file that has one of the last two clusters of the volume, and is shortened or
  deleted, leaves it marked as used for ever: `free_cluster` returns, as the bitmap
  was read for two clusters less than there are (`node.c:487`, `cluster.c:221`).
  `NothingLost` and `CleanIsSound` except them (`Tail`).
* `exfat_truncate` to 2^32 clusters or more: `bytes2clusters` truncates
  (`cluster.c:68`), the file grows by the rest only, or not at all, and
  `erase_range` goes on behind its end. A contiguous file then has clusters of
  others erased, and one that is not comes to the end mark, at `exfat_bug`
  (`cluster.c:402`), where a comment says that "the cluster cannot be invalid
  because we have just allocated it" (`wrapped` in `Trusted`, and in
  `AbortsOnlyIfFailed`).
* The first range that `exfat_find_used_sectors` returns begins with sector 0: `*a`
  is assigned only where one of the arguments is not 0 (`cluster.c:491`), and a
  caller begins with both 0. The search ends at `cluster_count`, which is one behind
  the number of the bitmap's last cluster; a range that gets there is given that
  one as well (`ScanIsExact` says what is left: no used cluster of the bitmap is
  missing, and a free one shows only where it lies before the first used one).
* `exfat_rename` does not flush the directory it has grown (`node.c:1226-1239`): a
  death leaves an entry with the old size, and a set that straddles it makes the
  directory unreadable.
* A rename that fails leaves the node with its new position and its old name
  (`node.c:1107-1146`); used again, it erases the entries of others. Nothing need
  be done with that node: when another file of its directory is deleted,
  `shrink_directory` counts up to its `entry_offset`, a position in the directory
  it was to move to (`node.c:797-812`), and cuts clusters off that other files
  stand in, or makes the directory longer.
* `shrink_directory` looks for the last file only (`node.c:796-803`): a label
  behind it is cut off.
* `exfat_bug` ends the process on a rename over a node that is in use
  (`node.c:73`), on a path without a component (`lookup.c:221`), and when the node
  of a torn set is flushed (`node.c:702`).

## 4. Proofs

`RecoveryProofs` proves, for every set of names and listings that satisfies
`ListingsAssumption`: `TypeOK`, `ProcessedIsRestored`, `ExitComplete`,
`StartCoversListing`, `MemoryMirrorsStatus` as invariants,
`FinishedUntouched` as an action property, and `Implements`, the refinement of
`ResumableRestore`.

None of the invariants but the last is inductive. `Inv` strengthens them with
what the code relies on without saying so:

* `StatusOK` – records have distinct names, so writing one output cannot disturb
  another (`OutputApart`, the lemma most steps need);
* `StoreOK` – while `store()` runs, the file is an unmarked prefix of the list;
* `UnitsOK` – records before `i` are marked, the current one is not, memory and
  file agree;
* `CopyOK` – the output holds exactly the live offsets before `j`; that an
  appended block lands at its own position needs `LostSuffix` (`LiveBefore`,
  `BlockAppended`).

There is one lemma per action, `NextInv` combines them, and the theorems follow
by temporal logic. The refinement (`KeepsPromise`) rests on the same invariant:
storing a unit enlists a job (`StoreUnitEnlists`), marking delivers it
(`MarkDelivers`), with `RestoredIsDelivery` saying that what is on disk then is
what the batch asked for, and every other step stutters (`PromisedSame`).

`ReadDirProofs` proves three properties for every directory, cluster size and name
length.

* `FaultsOnlyWithoutInfo` is a count: what a node has been given, its INFO entries
  counted once, and the continuations that are left never exceed
  `MaxContinuations` (`Counted`); a node that was given an info is therefore one
  NAME entry short of an overrun (`RoomLeft`, the arithmetic of `DIV_ROUND_UP`).
* `HeapOwned` needs the meaning of the count: the secondary entries met since the
  FILE entry and the count that is left make up what it announced (`Filling`). A
  node is dropped only when the count is zero and the set was not completed; the
  entries met are then all of the set, and its last is optional
  (`ZeroIsDropped`). `Unlost` follows each node and bitmap from there.
* `ListingExact` compares the parser, which works entry by entry, with sets of
  entries as a whole. The nodes linked are those of the sets that are over, each
  equal to what its set says (`NodeOf`, a count of NAME entries and the last
  INFO), and the node being filled is what its set says up to the entry in hand;
  so a node never takes from two sets. That a sound directory is read needs that
  each of its entries is in one set only, at the place where the count expects it.

`UtfProofs` proves `LibrarySizeSuffices` for all names (the output never exceeds
six bytes for each unit taken), `NoOverrun` for all names, strings and sizes, and
`ConversionExact`. That a name comes back is one of places: the bytes of each
character are where the sizes of those before it add up to (`Written`), and
`utf8_to_wchar` takes from there what `wchar_to_utf8` has put (`LeadByte`,
`CharBack`, for the one to four bytes a character of a name can have). The sums
are a recursive function; its facts are shown as those of `ClusterChain` are.

`OnDiskProofs` proves two properties of `StatusFile`, for every page size, every
number of values of a count digit and any lists of records.

* `FileSound` and `LoadIsExact` speak of the concatenation of all records, but
  `load()` finds each record only by having read the one before, and `syncMe()`
  goes back to where a record was read. The invariant (`FileInv`) therefore claims
  that there are offsets `P`, one behind the other, such that the cells of the
  k-th record lie at `P[k - 1]` and the file ends at the last, or with the
  beginning of a record that was cut (`Written`). `ImageIs` shows that such a file
  is the concatenation, whatever `P` is.
* `load()` is then at `P[j]` with `j` units read, or, over a cut record, somewhere
  beyond the size of the file, from where it cannot come back to it (`Loading`).
  `Reading` is the round trip of one record: a string ends at its first NUL,
  the digits give the count, and every cell is inside the mapping. `CutReading`
  follows the parser over a record of which any number of cells is there, with the
  zeros of the page behind them: it faults or steps over the end, and never
  stops on it.
* A sync puts the cells of the marked record over those of the record: only the
  flag differs (`MarkedIs`), so a complete memcpy gives the records with one more
  mark (`Marks`), and one that is killed before the flag changes nothing
  (`MarkCut`). This needs that the record is where `load()` found it, with the
  length it had.

Of `Mount` the same module proves `UncleanIsMarked`, `ResourcesSound` and
`ReadOnlyMounts`, for any number of mounts. `MountHeld` says of each step what is
held there and that a volume which is not read-only was opened by a mode and on a
device that allow writing; `MountMarked` ties the mark on the medium to the state
of the volume. That no step leaks and no step writes follows from the two.

`ClusterChainProofs` proves `LostIsSuffix` and `BoundsHold` for every FAT, node
and size. A cluster number without a place on the medium is followed by 0, and 0
by 0, whatever is read; the invariant ties the last offset listed to the cluster
in hand (`AtNext`). `LostIsSuffix` is what `ListingsAssumption` of `Recovery`
asks of a file. `OffsetsExact` is about `Chain`, a recursive function on the
naturals: that it exists and is what iterating `Link` gives is shown on sets of
numbers, each of which has a least element (`SetInduction`); the library's
induction theorems, which take an operator, are not used.

`PreparationProofs` proves `DisksApart`, `ParametersDecided` and `RunIsPrepared` of
`Launch`, for any disks, names, command lines and number of moves. A disk arrives a second time only
after it left; so of two arrivals of one disk, waiting or accepted, one came after
a departure (`TwiceIsLeft`). The parameters are those of the options read so far
until the wizard begins, and its own from then on. A drive has exactly the
settings written so far, and is under the name of the parameters unless that name
was vacated.

Of `DirWalk` the same module proves `WalkSound` and `ListedExactly`, for every tree
and any names. A node is met once: there is a set of nodes that were met, of each open directory those up to
its iterator (`Met`), and it grows by the node that is reached next. So a node
has at most one frame and its references can be counted without sets (`Count`),
and a directory that failed, and lost one reference too many, is not met again.

`ListedExactly` is about `Below`, defined by recursion on the tree. It exists, and
no other function satisfies its equation, because every set of nodes has one with
no entry in the set (`ListingExists`, `ListingsAgree`). Each frame has added what
is below the entries its iterator has passed (`ListSoFar`), and a directory that
fails now changes nothing of that, since what lies below nodes that were passed is
passed (`Closed`). The tree is an assumption (`TreeAssumption`): every node is in
one directory, and no directory is below itself.

`AllocationProofs` proves `ClustersAccounted`, `BytesOwn`, `AnswersExact`,
`MediumSound` and `AbortsOnlyIfFailed` for any number of files, clusters and bytes
in a cluster, any sound medium (one that uses the last two clusters of the volume
included), any calls, with any sizes, and any failures. What holds once a size
overflows is what `Base` says, and `ScanIsExact`; the other claims end there, as
they do in the code. None of them is
inductive, since they speak of files at rest and of a volume that is `Trusted`, and
a call passes through states where the chain on the FAT, the size in the node and
the bitmap do not agree. The invariant `Inv` has three parts.

* `Base` holds always: types, and which variables go together.
* `Owns` holds as long as the volume is trusted and nothing was aborted. It claims
  that there are, for each file, a chain (a function on all numbers) and a set of
  places on it, which are those of its clusters that it has right now; that the
  places of the files lie `Apart` and, if nothing failed, make up the bitmap, but
  for clusters of `Tail` that were freed in vain; and
  for each file that it `Lies` on its chain or, for the file of the call that
  runs, what `Under` says: one predicate for every place in the code where an
  access may fail (`Starting`, `Extends`, `Shrinks`, `Erases`, ...). Since the
  chain is claimed to exist and not computed from the FAT, a step that cuts a
  chain, or links a cluster behind it, changes a set of places and the argument
  about the rest of the chain is not made anew. A file of which an access failed
  claims nothing, but that what is left of its call touches no cluster (`Hurt`).
* `Accepted`: `check_node` takes the entry of every file that claims anything.

There are two lemmas for each action, one for `Base` and one for `Owns`. Those of
the steps within a call rest on `NowStep`: a step that touches no cluster but those
of its own file, or free ones (`Elsewhere`), and accounts for what it leaves in
use (`Ours`), leaves the claims of all other files alone. The theorems then read
the claims back: `ChainOf`, the recursive function of the model, is the claimed
chain (`LiesChain`), so that the clusters of a file are as many as its places, and
`Mount` and `Unmount` translate them from and to the medium. That
`exfat_find_used_sectors` finds what is used is proved of the scan as it is
written, first used cluster to next free one, with the end it searches to and the
beginning that the first range is not given (`FoundRange`, `ScanHolds`).
`AbortsOnlyIfFailed` follows from the claims too: without a failure `shrink_file`
has the clusters it asks for, and `erase_range` finds the chain as long as it is.

`DirectoryProofs` proves `TypeOK` and `ReferencesExact` of `Directory`, for any
directories, files, names and labels, clusters of any size, and any number of calls
and faults. `TypeOK` is not inductive: that a directory in memory is never longer
than its clusters depends on what `find_slot` and `shrink_directory` computed, on
the medium that a later mount reads, and on where the call is that is cut. `Typed`
adds this: each entry on the medium has the fields its type is read for
(`SlotSane`), every linked node has its place within a directory (`Standing`), and a
call has, whatever it is at, the parts of its kind (`CallTyped`) and, at each point,
what the steps from there need (`PointTyped`).

`ReferencesBalanced` speaks of the time between calls only. Within a call a count is
the client's handle and what the call has got and not yet put: `Owed` says, for each
kind of call and each of its points, which nodes these are (right behind the lookup,
all that it got; then the directory that was looked up, the node that is renamed or made room for, the one that goes, and its
parent while that is written), and `Counted` that the counts are exactly that. Each
step takes a debt on (`CountedBegins`), moves it to the next point (`CountedMoves`)
or settles it (`CountedSettles`), with one lemma for each action, the ways out of
`create` and `exfat_rename` that only put among them. The other two
parts follow: a directory that a call resizes is one it owes a reference to, so
`exfat_truncate` never meets a count of zero; and `exfat_bug` finds, where it ends a
rename, a count of more than the call's own reference, which is the client's
(`ReplacedCounted`), and where it ends a flush, a node whose place on the medium was
lost in a failure before (`CorruptIsAstray`).

The assumptions are the named ones of the modules: sizes that are not zero
(`SizesAssumption`), sequences of entries (`DirectoriesAssumption`), names within
the limit (`NamesAssumption`), `ListingsAssumption`, `TreeAssumption`,
`ModesAssumption`, `CellAssumption`, `DisksAssumption`, `AttachmentsAssumption`, `LinesAssumption`,
`AllocationAssumption`, `DirectoryAssumption`, `VolumesAssumption`. TLC evaluates each in the runs.

Where a property is about what a recursion computes (`Chain`, `Below`, `Walk`,
`UsedRanges`), the proof takes the induction over numbers, or over the tree, by a
least element of the set of exceptions; no induction theorem with an operator for
a parameter is used. The invariant of `Allocation` was checked by TLC before it
was proved, with the chains that the model computes in place of those claimed to
exist.

Only model-checked are:

* all liveness (`EventuallyRestored`, `CallEnds`, `DiskIsTaken` and the others that
  ask for a step to be taken), which the provers do not reach: it needs fairness and
  ENABLED;
* `TreeKept`, but for its part `TypeOK`, `OthersReadable`, `ReturnedIsDurable` and
  `LabelOnlyCut` of `Directory`. They need an invariant like that of `Allocation`, about
  slots in place of clusters: which entries of which directory are whose, at each of the
  program points of six calls.


## 5. Not modelled, and the plan

* Power loss (`Durability`): nothing is synced, so a mark may reach the medium
  before the data it vouches for. `Recovery` has the death of the process only.
* The wizard keeps the status file inside the restore directory: a file of that
  name on the partition would be restored over it. `Recovery` assumes that the
  names differ.
* Directories that contain themselves: the recursion has no end there, which no
  finite instance can show; `DirWalk` assumes a tree.
* `ReadDir` below `DirWalk`, and `Allocation` below `Directory`, as refinements
  instead of a correspondence of steps; the loop of `rootdir_size` in `Mount`.
* Proofs: of `Directory`, the four about its slots, on the types that `DirectoryProofs`
  has shown.

Left out for good: `Drive::adoptiveReadWrite`, which nobody calls; time
conversions, logging, `Reporter` (printing), the options of a mount that only set
modes and owners, and the scripts.
