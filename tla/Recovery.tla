------------------------------ MODULE Recovery ------------------------------
(***************************************************************************)
(* One bbcp process after another over one partition, one status file and *)
(* one restore directory: Application::run, UnitStorage at the level of   *)
(* whole records, Unit and Processor.                                      *)
(*                                                                         *)
(* A run started with "-m 0" mounts the partition, lists its files,        *)
(* rewrites the status file with one unprocessed record per file, and goes *)
(* on like a run started with "-m 1": it maps the status file, loads the   *)
(* records, and restores every file whose record is not yet marked,        *)
(* marking it through the mapping when its output is written.  A run may   *)
(* be killed, or die of an exception nobody catches, at any step; whoever  *)
(* drives bbcp then launches it again, in either mode.                     *)
(*                                                                         *)
(* DATA.  A file's content is the sequence of device offsets of its        *)
(* clusters, 0 where the cluster chain is lost (ExfatNode::getOffsets).  A *)
(* block of an output file is named by the device offset it was read from; *)
(* Patched is a block whose read failed (zeros, and whatever part of the   *)
(* cluster the failed read delivered), Cut one whose write was short.      *)
(***************************************************************************)
EXTENDS Integers, Sequences

CONSTANTS
    Names,      \* paths a listing may contain
    Listings    \* what getUnitList may return for this partition

APP_START == "START"
APP_CONTINUE == "CONTINUE"
RESTORE_ONLY_GOOD == "ONLY_GOOD"
RESTORE_ALL == "ALL"
AppModes == {APP_START, APP_CONTINUE}
RestoreModes == {RESTORE_ONLY_GOOD, RESTORE_ALL}

FileInternals == [fileName : Names, offsets : Seq(Nat)]
UnitRecord == [file : FileInternals, isProcessed : BOOLEAN]

Patched == 0
Cut == -1
OutputFile == [exists : BOOLEAN, blocks : Seq(Nat \cup {Cut})]

\* Once a chain is lost it stays lost: getOffsets returns at the first
\* unreadable FAT entry, and a cluster below 2 leads only to cluster 0.
LostSuffix(offsets) ==
    \A a, b \in DOMAIN offsets : a < b /\ offsets[b] # 0 => offsets[a] # 0

\* exFAT forbids two entries of one directory to share a name.
DistinctNames(listing) ==
    \A a, b \in DOMAIN listing :
        listing[a].fileName = listing[b].fileName => a = b

ASSUME ListingsAssumption ==
    \A listing \in Listings :
        /\ listing \in Seq(FileInternals)
        /\ DistinctNames(listing)
        /\ \A k \in DOMAIN listing : LostSuffix(listing[k].offsets)

-----------------------------------------------------------------------------
VARIABLES
    \* on disk: what survives the process
    status,       \* the status file: its records, in file order
    torn,         \* the status file ends in a half-written record
    out,          \* the restore directory
    \* in the process
    pc,           \* where the process is; "off" and "exited" between runs
    app_mode, restore_mode,   \* AppParameters_t of the latest launch
    todo,         \* the unit list that store() is writing
    units,        \* Processor::m_units
    i,            \* the unit process() is at
    j,            \* the offset _recoverUnit is at
    \* history, read by properties only
    asked,        \* the listing the latest store() set out to write
    pass          \* per name: the mode and failed reads of its latest restore

disk == <<status, torn, out>>
process == <<pc, app_mode, restore_mode, todo, units, i, j>>
history == <<asked, pass>>
vars == <<disk, process, history>>

Running == pc \notin {"off", "exited"}

Init ==
    /\ status = <<>>
    /\ torn = FALSE
    /\ out = [n \in Names |-> [exists |-> FALSE, blocks |-> <<>>]]
    /\ pc = "off"
    /\ app_mode = APP_START
    /\ restore_mode = RESTORE_ONLY_GOOD
    /\ todo = <<>> /\ units = <<>>
    /\ i = 1 /\ j = 1
    /\ asked = <<>>
    /\ pass = [n \in Names |-> [mode |-> RESTORE_ONLY_GOOD, failed |-> {}]]

\* The process is gone, and everything it held in memory with it.
Halt(where) ==
    /\ pc' = where
    /\ todo' = <<>> /\ units' = <<>>
    /\ i' = 1 /\ j' = 1
    /\ UNCHANGED <<app_mode, restore_mode>>

-----------------------------------------------------------------------------
(* Launching, and Application::run up to _genericRun                       *)

Start(rmode) ==
    /\ ~Running
    /\ pc' = "list"
    /\ app_mode' = APP_START
    /\ restore_mode' = rmode
    /\ UNCHANGED <<disk, history, todo, units, i, j>>

Continue(rmode) ==
    /\ ~Running
    /\ pc' = "load"
    /\ app_mode' = APP_CONTINUE
    /\ restore_mode' = rmode
    /\ UNCHANGED <<disk, history, todo, units, i, j>>

\* ExfatPartition::init and getUnitList: the argument of store() is complete
\* before store() opens the status file.
GetUnitList ==
    /\ pc = "list"
    /\ todo' \in Listings
    /\ pc' = "open"
    /\ UNCHANGED <<disk, history, app_mode, restore_mode, units, i, j>>

\* store() opens the status file with O_TRUNC.
OpenStore ==
    /\ pc = "open"
    /\ status' = <<>>
    /\ torn' = FALSE
    /\ asked' = todo
    /\ pc' = "store"
    /\ UNCHANGED <<out, pass, app_mode, restore_mode, todo, units, i, j>>

StoreUnit ==
    /\ pc = "store"
    /\ Len(status) < Len(todo)
    /\ status' = Append(status, [file |-> todo[Len(status) + 1],
                                 isProcessed |-> FALSE])
    /\ UNCHANGED <<torn, out, process, history>>

\* System::write writes part of a record and throws, or the machine dies.
TornStore ==
    /\ pc = "store"
    /\ Len(status) < Len(todo)
    /\ torn' = TRUE
    /\ Halt("off")
    /\ UNCHANGED <<status, out, history>>

CloseStoreEarly ==                                              \* mutant
    /\ pc = "store"
    /\ Len(status) + 1 >= Len(todo)
    /\ todo' = <<>>
    /\ pc' = "load"
    /\ UNCHANGED <<disk, history, app_mode, restore_mode, units, i, j>>

\* The loop of store() is over; the unit list dies with the statement.
CloseStore ==
    /\ pc = "store"
    /\ Len(status) = Len(todo)
    /\ todo' = <<>>
    /\ pc' = "load"
    /\ UNCHANGED <<disk, history, app_mode, restore_mode, units, i, j>>

-----------------------------------------------------------------------------
(* _genericRun: UnitStorage::init and load, then Processor::process        *)

\* mmap refuses an empty file; over a half-written record load() runs past
\* the end of the mapping (module StatusFile).
Loadable == status # <<>> /\ ~torn

Load ==
    /\ pc = "load"
    /\ Loadable
    /\ units' = status
    /\ i' = 1
    /\ pc' = "unit"
    /\ UNCHANGED <<disk, history, app_mode, restore_mode, todo, j>>

LoadFails ==
    /\ pc = "load"
    /\ ~Loadable
    /\ Halt("off")
    /\ UNCHANGED <<disk, history>>

Current == units[i].file
Name == Current.fileName
Offsets == Current.offsets

SkipAny ==                                                      \* mutant
    /\ pc = "unit"
    /\ i <= Len(units)
    /\ i' = i + 1
    /\ UNCHANGED <<disk, history, pc, app_mode, restore_mode, todo, units, j>>

SkipLeaves ==                                                   \* mutant
    /\ pc = "unit"
    /\ i <= Len(units)
    /\ units[i].isProcessed
    /\ Halt("exited")
    /\ UNCHANGED <<disk, history>>

Skip ==
    /\ pc = "unit"
    /\ i <= Len(units)
    /\ units[i].isProcessed
    /\ i' = i + 1
    /\ UNCHANGED <<disk, history, pc, app_mode, restore_mode, todo, units, j>>

\* mkdir_p and the O_TRUNC open at the head of _recoverUnit.
OpenOutputAlways ==                                             \* mutant
    /\ pc = "unit"
    /\ i <= Len(units)
    /\ out' = [out EXCEPT ![Name] = [exists |-> TRUE, blocks |-> <<>>]]
    /\ pass' = [pass EXCEPT ![Name] = [mode |-> restore_mode, failed |-> {}]]
    /\ j' = 1
    /\ pc' = "copy"
    /\ UNCHANGED <<status, torn, asked, app_mode, restore_mode, todo, units, i>>

OpenOutputMarks ==                                              \* mutant
    /\ pc = "unit"
    /\ i <= Len(units)
    /\ ~units[i].isProcessed
    /\ out' = [out EXCEPT ![Name] = [exists |-> TRUE, blocks |-> <<>>]]
    /\ pass' = [pass EXCEPT ![Name] = [mode |-> restore_mode, failed |-> {}]]
    /\ units' = [units EXCEPT ![i].isProcessed = TRUE]
    /\ status' = [status EXCEPT ![i].isProcessed = TRUE]
    /\ j' = 1
    /\ pc' = "copy"
    /\ UNCHANGED <<torn, asked, app_mode, restore_mode, todo, i>>

OpenOutput ==
    /\ pc = "unit"
    /\ i <= Len(units)
    /\ ~units[i].isProcessed
    /\ out' = [out EXCEPT ![Name] = [exists |-> TRUE, blocks |-> <<>>]]
    /\ pass' = [pass EXCEPT ![Name] = [mode |-> restore_mode, failed |-> {}]]
    /\ j' = 1
    /\ pc' = "copy"
    /\ UNCHANGED <<status, torn, asked, app_mode, restore_mode, todo, units, i>>

\* _recoverUnit: a lost offset is logged and skipped, nothing is written.
CopyLost ==
    /\ pc = "copy"
    /\ j <= Len(Offsets)
    /\ Offsets[j] = 0
    /\ j' = j + 1
    /\ UNCHANGED <<disk, history, pc, app_mode, restore_mode, todo, units, i>>

WriteBlock(block) ==
    out' = [out EXCEPT ![Name].blocks = Append(@, block)]

ReadFailed == pass' = [pass EXCEPT ![Name].failed = @ \cup {j}]

\* pread delivers the cluster and write appends it.
CopyGood ==
    /\ pc = "copy"
    /\ j <= Len(Offsets)
    /\ Offsets[j] # 0
    /\ WriteBlock(Offsets[j])
    /\ j' = j + 1
    /\ UNCHANGED <<status, torn, history, pc, app_mode, restore_mode,
                   todo, units, i>>

\* pread throws under -t 0: the loop ends, and the unit counts as restored.
CopyBadBreaks ==
    /\ pc = "copy"
    /\ j <= Len(Offsets)
    /\ Offsets[j] # 0
    /\ restore_mode = RESTORE_ONLY_GOOD
    /\ ReadFailed
    /\ pc' = "mark"
    /\ UNCHANGED <<disk, asked, app_mode, restore_mode, todo, units, i, j>>

CopyBadWritesErrno ==                                           \* mutant
    /\ pc = "copy"
    /\ j <= Len(Offsets)
    /\ Offsets[j] # 0
    /\ restore_mode = RESTORE_ALL
    /\ ReadFailed
    /\ WriteBlock(-5)
    /\ j' = j + 1
    /\ UNCHANGED <<status, torn, asked, pc, app_mode, restore_mode,
                   todo, units, i>>

CopyBadDrops ==                                                 \* mutant
    /\ pc = "copy"
    /\ j <= Len(Offsets)
    /\ Offsets[j] # 0
    /\ restore_mode = RESTORE_ALL
    /\ ReadFailed
    /\ j' = j + 1
    /\ UNCHANGED <<disk, asked, pc, app_mode, restore_mode, todo, units, i>>

\* pread throws under -t 1: the buffer is written all the same.
CopyBadPatches ==
    /\ pc = "copy"
    /\ j <= Len(Offsets)
    /\ Offsets[j] # 0
    /\ restore_mode = RESTORE_ALL
    /\ ReadFailed
    /\ WriteBlock(Patched)
    /\ j' = j + 1
    /\ UNCHANGED <<status, torn, asked, pc, app_mode, restore_mode,
                   todo, units, i>>

\* write is short (a full disk, say) and System::write throws.
CopyCut ==
    /\ pc = "copy"
    /\ j <= Len(Offsets)
    /\ Offsets[j] # 0
    /\ WriteBlock(Cut)
    /\ Halt("off")
    /\ UNCHANGED <<status, torn, history>>

CopyDone ==
    /\ pc = "copy"
    /\ j > Len(Offsets)
    /\ pc' = "mark"
    /\ UNCHANGED <<disk, history, app_mode, restore_mode, todo, units, i, j>>

\* setProcessed(true) and syncMe(): the whole record, re-marshalled from
\* memory, is copied over its place in the mapped status file.
Mark ==
    /\ pc = "mark"
    /\ units' = [units EXCEPT ![i].isProcessed = TRUE]
    /\ status' = [status EXCEPT ![i] = units'[i]]
    /\ i' = i + 1
    /\ pc' = "unit"
    /\ UNCHANGED <<torn, out, history, app_mode, restore_mode, todo, j>>

Finish ==
    /\ pc = "unit"
    /\ i > Len(units)
    /\ Halt("exited")
    /\ UNCHANGED <<disk, history>>

\* Killed, or an exception reaches main: a system call failed, the partition
\* does not mount, the device node is gone.
Crash ==
    /\ Running
    /\ Halt("off")
    /\ UNCHANGED <<disk, history>>

Launch == \E rmode \in RestoreModes : Start(rmode) \/ Continue(rmode)

Store == GetUnitList \/ OpenStore \/ StoreUnit \/ CloseStore

RecoverUnit ==
    \/ OpenOutput \/ CopyLost \/ CopyGood
    \/ CopyBadBreaks \/ CopyBadPatches \/ CopyDone

\* What the process does of itself; a read may go either way.
Step == Store \/ Load \/ LoadFails \/ Skip \/ RecoverUnit \/ Mark \/ Finish

Fault == Crash \/ TornStore \/ CopyCut

Next == Launch \/ Step \/ Fault

Spec == Init /\ [][Next]_vars

\* The process is scheduled, and the operator does not give up: a run that
\* stopped is continued sooner or later.
FairSpec ==
    /\ Spec
    /\ WF_vars(Step)
    /\ WF_vars(\E rmode \in RestoreModes : Continue(rmode))

-----------------------------------------------------------------------------
(* What the properties speak of                                            *)

Live(offsets) == {a \in DOMAIN offsets : offsets[a] # 0}

\* What is left of a file whose restore p ended: every cluster that is not
\* lost, in order and in its place, those that failed to read patched; under
\* -t 0 only those before the first failed read.
Restored(offsets, p, blocks) ==
    /\ DOMAIN blocks =
         {a \in Live(offsets) :
            p.mode = RESTORE_ONLY_GOOD => \A f \in p.failed : a < f}
    /\ \A a \in DOMAIN blocks :
         blocks[a] = IF a \in p.failed THEN Patched ELSE offsets[a]

RecordRestored(record) ==
    LET n == record.file.fileName
    IN  /\ out[n].exists
        /\ Restored(record.file.offsets, pass[n], out[n].blocks)

-----------------------------------------------------------------------------
(* Properties                                                              *)

PassRecord == [mode : RestoreModes, failed : SUBSET Nat]

\* Every variable has its type, whatever was launched, killed and torn.
TypeOK ==
    /\ status \in Seq(UnitRecord)
    /\ torn \in BOOLEAN
    /\ out \in [Names -> OutputFile]
    /\ pc \in {"off", "list", "open", "store", "load", "unit", "copy", "mark",
               "exited"}
    /\ app_mode \in AppModes
    /\ restore_mode \in RestoreModes
    /\ todo \in Seq(FileInternals)
    /\ units \in Seq(UnitRecord)
    /\ i \in Nat /\ j \in Nat
    /\ asked \in Seq(FileInternals)
    /\ pass \in [Names -> PassRecord]

\* A record of the status file is marked only when its output file is on disk
\* exactly as the restore that ended last left it, over any sequence of runs,
\* crashes, short writes and changes of mode (Processor::_processUnit marks
\* after _recoverUnit, and skips what is marked).
ProcessedIsRestored ==
    \A k \in DOMAIN status :
        status[k].isProcessed => RecordRestored(status[k])

\* A run that returns from Processor::process leaves no unmarked record, also
\* when earlier runs died half-way.
ExitComplete ==
    pc = "exited" => \A k \in DOMAIN status : status[k].isProcessed

\* A run launched with -m 0 that ends normally has a record for every file the
\* partition listed: nothing that interrupts store() lets it reach the exit.
StartCoversListing ==
    pc = "exited" /\ app_mode = APP_START => Len(status) = Len(asked)

\* The records a run works on agree with the status file, so that syncMe(),
\* which copies a whole record from memory, changes nothing but the mark.
MemoryMirrorsStatus ==
    pc \in {"unit", "copy", "mark"} => units = status

\* Work that is recorded as finished is never done again or undone: while a
\* record stays in the status file its mark stays, and its output file is not
\* touched (the early return of _processUnit).
FinishedUntouched ==
    [][\A k \in DOMAIN status :
          status[k].isProcessed /\ status' # <<>> =>
            /\ k \in DOMAIN status' /\ status'[k] = status[k]
            /\ out'[status[k].file.fileName] = out[status[k].file.fileName]]_vars

\* The status file and the outputs of its marked records, seen as the jobs of
\* a restore that is never interrupted.
Promised ==
    [k \in DOMAIN status |->
        [file |-> status[k].file,
         done |-> status[k].isProcessed,
         blocks |-> IF status[k].isProcessed
                      THEN out[status[k].file.fileName].blocks ELSE <<>>]]

Promise == INSTANCE ResumableRestore
             WITH Files <- UNION {{l[k] : k \in DOMAIN l} : l \in Listings},
                  jobs <- Promised

\* Killed or not, bbcp keeps the promise: every file enlisted once, delivered
\* at most once, never altered after that, no cluster out of its place.
Implements == Promise!Spec

\* If faults and restarts from scratch stop, continuing gets every file of a
\* readable status file restored and marked: no record blocks the others.
EventuallyRestored ==
    <>[][~Fault /\ \A rmode \in RestoreModes : ~Start(rmode)]_vars
      => <>[](Loadable => \A k \in DOMAIN status : status[k].isProcessed)

-----------------------------------------------------------------------------
(* What the documentation says of a run, and the code does not keep        *)

ReadInFull(record) ==
    LET n == record.file.fileName
    IN  DOMAIN out[n].blocks = Live(record.file.offsets)

\* ArgsParser.cpp:35, "restore only full recoverable files": what a completed
\* -t 0 run restored itself is complete.  (A failed read ends the file instead,
\* and the truncated output stays and is marked; by FinishedUntouched a -t 1
\* run that continues does not restore it either.)
OnlyGoodLeavesWholeFiles ==
    pc = "exited" =>
        \A k \in DOMAIN status :
            pass[status[k].file.fileName].mode = RESTORE_ONLY_GOOD =>
                ReadInFull(status[k])
=============================================================================
