------------------------------- MODULE Mount -------------------------------
(***************************************************************************)
(* exfat_mount and exfat_unmount of libexfat/mount.c: what a mount takes   *)
(* hold of, what each of its error paths gives back, and what it writes to *)
(* the medium.                                                             *)
(*                                                                         *)
(* bbcp passes the option "ro" (ExfatPartition.h); the others are here to  *)
(* tell what that option keeps from the medium.  The medium is mounted any *)
(* number of times up to MaxMounts, and the process may die at any step.   *)
(***************************************************************************)
EXTENDS Integers, Sequences

CONSTANTS
    Modes,          \* the options the volume is mounted with
    MaxMounts       \* bound: mounts of one medium

ASSUME ModesAssumption ==
    /\ Modes \subseteq {"ro", "rw", "ro_fallback"}
    /\ MaxMounts \in Nat

VARIABLES
    volume,         \* "idle", "mounting", "mounted", "unmounting"
    step,           \* where exfat_mount or exfat_unmount is
    mode,           \* the option given
    isProtected,    \* the device cannot be opened for writing
    ro,             \* ef->ro
    held,           \* what the process holds for this volume
    leaked,         \* what earlier mounts never gave back
    sb,             \* EXFAT_STATE_MOUNTED in ef->sb
    disk,           \* EXFAT_STATE_MOUNTED on the medium
    mounts,
    unclean         \* history: a writable volume was never unmounted

mountVars == <<volume, step, mode, isProtected, ro, held, leaked, sb, disk,
               mounts, unclean>>

MountInit ==
    /\ volume = "idle" /\ step = 1
    /\ mode \in Modes /\ isProtected \in BOOLEAN
    /\ ro = 0 /\ held = {} /\ leaked = {}
    /\ sb = FALSE /\ disk = FALSE
    /\ mounts = 0 /\ unclean = FALSE

\* The steps of exfat_mount in their order: what each takes, and what its own
\* error path gives back.
Early == {"dev", "sb"}
Middle == Early \cup {"zero_cluster"}
Late == Middle \cup {"root"}
MountSteps ==
    << [name |-> "exfat_open", takes |-> {"dev"}, frees |-> {}],
       [name |-> "malloc sb", takes |-> {"sb"}, frees |-> {"dev"}],
       [name |-> "read sb", takes |-> {}, frees |-> Early],
       [name |-> "oem_name, sector_bits, spc_bits", takes |-> {}, frees |-> Early],
       [name |-> "malloc zero_cluster", takes |-> {"zero_cluster"}, frees |-> Early],
       [name |-> "verify_vbr_checksum", takes |-> {}, frees |-> Middle],
       [name |-> "version, fat_count", takes |-> {}, frees |-> Middle],
       [name |-> "malloc root", takes |-> {"root"}, frees |-> Middle],
       [name |-> "rootdir_size", takes |-> {}, frees |-> Late] >>

Cached == Len(MountSteps) + 1       \* exfat_cache_directory, then the tables
Prepare == Cached + 1               \* prepare_super_block

\* A volume is given up: the process lives on, ef is deleted.
GiveUp(frees) ==
    /\ volume' = "idle"
    /\ leaked' = leaked \cup (held \ frees)
    /\ held' = {}
    /\ UNCHANGED <<mode, isProtected, ro, sb, mounts>>

\* The memset of exfat_mount, and parse_options.
Begin ==
    /\ volume = "idle" /\ mounts < MaxMounts
    /\ volume' = "mounting" /\ step' = 1
    /\ mode' \in Modes
    /\ ro' = 0 /\ sb' = FALSE /\ held' = {}
    /\ mounts' = mounts + 1
    /\ UNCHANGED <<isProtected, leaked, disk, unclean>>

\* exfat_open: "rw" needs a device that can be written, "ro_fallback" does
\* without.
CanOpen == mode = "rw" => ~isProtected
OpensReadOnlyOption == mode = "ro"                              \* mutant
OpensReadOnly == mode = "ro" \/ (mode = "ro_fallback" /\ isProtected)

Fallback == -1

MountStep ==
    /\ volume = "mounting" /\ step <= Len(MountSteps)
    /\ step = 1 => CanOpen
    /\ held' = held \cup MountSteps[step].takes
    /\ ro' = IF step # 1 THEN ro
             ELSE IF ~OpensReadOnly THEN 0
             ELSE IF mode = "ro_fallback" THEN Fallback ELSE 1
    /\ sb' = IF MountSteps[step].name = "read sb" THEN disk ELSE sb
    /\ step' = step + 1
    /\ UNCHANGED <<volume, mode, isProtected, leaked, disk, mounts, unclean>>

\* The medium, the device or the memory fails the step.
MountStepFails ==
    /\ volume = "mounting" /\ step <= Len(MountSteps)
    /\ GiveUp(MountSteps[step].frees)
    /\ UNCHANGED <<step, disk, unclean>>

\* The label "error" of exfat_mount.
Tables == {"upcase", "chunk"}
AfterErrorNoReset == Late                                       \* mutant
AfterError == Late \cup {"children"}

\* The root is read, and held the two tables.
CacheRoot ==
    /\ volume = "mounting" /\ step = Cached
    /\ held' = held \cup {"children"} \cup Tables
    /\ step' = step + 1
    /\ UNCHANGED <<volume, mode, isProtected, ro, leaked, sb, disk, mounts, unclean>>

\* The root cannot be read, or lacks a table; the tables that were read are
\* not freed.
CacheRootFails ==
    /\ volume = "mounting" /\ step = Cached
    /\ \E read \in SUBSET Tables :
         /\ volume' = "idle"
         /\ leaked' = leaked \cup read
         /\ held' = {}
    /\ UNCHANGED <<step, mode, isProtected, ro, sb, disk, mounts, unclean>>

\* prepare_super_block and commit_super_block.
PrepareSuperBlock ==
    /\ volume = "mounting" /\ step = Prepare
    /\ IF ro # 0
         THEN UNCHANGED <<sb, disk>>
         ELSE sb' = TRUE /\ disk' = TRUE
    /\ volume' = "mounted"
    /\ UNCHANGED <<step, mode, isProtected, ro, held, leaked, mounts, unclean>>

\* pwrite or fsync fails; the medium may have been marked all the same.
PrepareFails ==
    /\ volume = "mounting" /\ step = Prepare /\ ro = 0
    /\ disk' \in {disk, TRUE}
    /\ GiveUp(AfterError)
    /\ UNCHANGED <<step, unclean>>

\* exfat_unmount up to the super block: nothing is dirty to be flushed; the
\* root is put, the cache reset.
Unmount ==
    /\ volume = "mounted"
    /\ volume' = "unmounting"
    /\ held' = held \ {"children", "root"}
    /\ UNCHANGED <<step, mode, isProtected, ro, leaked, sb, disk, mounts, unclean>>

FinalizeAlways ==                                               \* mutant
    /\ volume = "unmounting"
    /\ sb' = FALSE /\ disk' = FALSE
    /\ volume' = "idle"
    /\ held' = {}
    /\ leaked' = leaked \cup (held \ ({"dev", "zero_cluster", "sb"} \cup Tables))
    /\ UNCHANGED <<step, mode, isProtected, ro, mounts, unclean>>

\* finalize_super_block; the return code of the commit is ignored.
Finalize ==
    /\ volume = "unmounting"
    /\ IF ro # 0 THEN UNCHANGED <<sb, disk, unclean>>
       ELSE /\ sb' = FALSE
            /\ \/ disk' = FALSE /\ unclean' = FALSE
               \/ UNCHANGED <<disk, unclean>>
    /\ volume' = "idle"
    /\ held' = {}
    /\ leaked' = leaked \cup (held \ ({"dev", "zero_cluster", "sb"} \cup Tables))
    /\ UNCHANGED <<step, mode, isProtected, ro, mounts>>

\* The process dies, killed or by abort(): its memory and descriptors are gone,
\* the medium stays.
Crash ==
    /\ volume # "idle"
    /\ volume' = "idle" /\ held' = {} /\ leaked' = {}
    /\ unclean' = (unclean \/ (volume \in {"mounted", "unmounting"} /\ ro = 0))
    /\ UNCHANGED <<step, mode, isProtected, ro, sb, disk, mounts>>

\* Between two mounts the device's write protection may be switched.
Protect ==
    /\ volume = "idle"
    /\ isProtected' = ~isProtected
    /\ UNCHANGED <<volume, step, mode, ro, held, leaked, sb, disk, mounts, unclean>>

MountNext ==
    \/ Begin \/ MountStep \/ MountStepFails \/ CacheRoot \/ CacheRootFails
    \/ PrepareSuperBlock \/ PrepareFails \/ Unmount \/ Finalize
    \/ Crash \/ Protect

MountSpec == MountInit /\ [][MountNext]_mountVars

-----------------------------------------------------------------------------
(* Properties                                                              *)

Resources == Late \cup Tables \cup {"children"}

\* Each variable has its type.
MountTypeOK ==
    /\ volume \in {"idle", "mounting", "mounted", "unmounting"}
    /\ step \in 1 .. Prepare
    /\ mode \in Modes /\ ro \in {0, 1, Fallback}
    /\ held \subseteq Resources /\ leaked \subseteq Resources
    /\ mounts \in 0 .. MaxMounts
    /\ {isProtected, sb, disk, unclean} \subseteq BOOLEAN

\* With the option bbcp passes, and on a protected device, no step writes to
\* the medium: not a mount, not one that fails, not an unmount.
ReadOnlyMounts ==
    [][(mode = "ro" \/ isProtected) /\ volume # "idle" => disk' = disk]_mountVars

\* A volume that may be written is marked while it is mounted, and one that a
\* dead process left so stays marked, whatever was mounted read-only since,
\* until a writable mount ends in order.
UncleanIsMarked ==
    /\ volume = "mounted" /\ ro = 0 => disk
    /\ unclean => disk

\* No error path, and no unmount, keeps anything but the tables that were
\* found before the root turned out to be unreadable or incomplete; and
\* nothing is used that is not held.
GivesBack ==
    /\ leaked \subseteq Tables
    /\ volume = "mounted" => held = Resources
    /\ volume = "unmounting" => {"dev", "sb", "chunk"} \subseteq held

\* The state of a mount is well-formed, and whatever ends it gives back what it
\* took (exfat_mount's error paths, exfat_unmount).
ResourcesSound == MountTypeOK /\ GivesBack
=============================================================================
