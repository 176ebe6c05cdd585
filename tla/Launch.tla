------------------------------- MODULE Launch -------------------------------
(***************************************************************************)
(* From the command line to the first step of a run: the options of        *)
(* ArgsParser, the wizard with its udev monitor and its prompts,           *)
(* Application::init and the setup of the drive.  Meanwhile disks are      *)
(* plugged in and out by the operator, or fall off the bus by themselves:  *)
(* the wizard knows them by name only.                                     *)
(***************************************************************************)
EXTENDS Naturals, Sequences, SequencesExt

CONSTANTS
  Disks,          \* the disks there are
  Names,          \* the kernel's names for those that are attached
  Unpartitioned,  \* disks without a first partition
  CommandLines,   \* sequences of options, as getopt_long returns them
  Attachments,    \* what may be attached when the program starts
  MaxMoves,       \* bound: disks plugged in or out
  MaxFaults,      \* bound: calls that fail although they could succeed
  NoDisk          \* no disk

ASSUME DisksAssumption ==
  /\ Unpartitioned \subseteq Disks
  /\ NoDisk \notin Disks
  /\ MaxMoves \in Nat /\ MaxFaults \in Nat

Attachable(f) ==
  /\ f \in [Names -> Disks \cup {NoDisk}]
  /\ \A n1, n2 \in Names : (f[n1] = f[n2] /\ f[n1] # NoDisk) => n1 = n2

ASSUME AttachmentsAssumption == \A f \in Attachments : Attachable(f)

(* What -m and -t are given: atoi makes 0 of anything that is no number. *)
Atoi == [zero |-> 0, one |-> 1, two |-> 2, word |-> 0]

OptionValues ==
  [d |-> {<<n>> : n \in Names}, p |-> {<<n>> : n \in Names}, s |-> {"status"}, r |-> {"dir"},
   m |-> DOMAIN Atoi, t |-> DOMAIN Atoi, w |-> {""}, h |-> {""}, unknown |-> {""}]

Options == UNION {[opt : {o}, val : OptionValues[o]] : o \in DOMAIN OptionValues}

ASSUME LinesAssumption == CommandLines \subseteq Seq(Options)

AppModes == {"APP_START", "APP_CONTINUE", "APP_BAD_MODE"}
RestoreModes == {"RESTORE_ONLY_GOOD", "RESTORE_ALL", "RESTORE_UNKNOWN"}

(* An empty device name is <<>>.  A partition is the first one of the disk *)
(* it is named after.                                                      *)
Devices == {<<>>} \cup {<<n>> : n \in Names}

Defaults ==
  [diskDev |-> <<>>, partDev |-> <<>>, storageFile |-> "storage.file", restoreDir |-> "",
   app_mode |-> "APP_BAD_MODE", restore_mode |-> "RESTORE_ONLY_GOOD"]

(* The settings of Config.cpp in the order of a std::map. *)
Settings == <<"add_random", "nomerges", "read_ahead_kb", "scheduler">>

VARIABLES
  argv,       \* the options
  optind,     \* the next one
  pc,         \* what the program is about to do
  params,     \* AppParameters_t
  hdd,        \* _getDirTo's hdd: the name of the second disk
  events,     \* what the monitor's socket holds
  eof,        \* standard input has ended
  written,    \* settings of the drive written so far
  attached,   \* the disk behind a name, or NoDisk
  mounts,     \* what is mounted on the mount point, the uppermost last
  queue,      \* the settings the kernel has for each disk
  moves, faults,        \* bounds
  bad, good,  \* history: the disks whose events were accepted
  unplugged,  \* history: disk and name of what was plugged out since the wizard began
  said        \* history: the last answer to each prompt

world == <<attached, events, queue, moves, unplugged>>
wizard == <<hdd, mounts, eof, bad, good, said>>
vars == <<argv, optind, pc, params, hdd, events, eof, written, attached, mounts, queue,
          moves, faults, bad, good, unplugged, said>>

WizardSteps == {"badDisk", "goodDisk", "umount", "mount", "fuse", "restoreMode", "runMode"}
Ends == {"run", "failed", "exited"}

Event == [action : {"add", "remove"}, type : {"disk", "partition"}, name : Names, disk : Disks]

(* Device files: a name has one while a disk is attached, its first        *)
(* partition while that disk has one.                                      *)
DiskExists(dev) == \E n \in Names : dev = <<n>> /\ attached[n] # NoDisk
PartExists(dev) == \E n \in Names : dev = <<n>> /\ attached[n] \in Disks \ Unpartitioned

(* An earlier wizard may have left something mounted. *)
Init ==
  /\ argv \in CommandLines /\ optind = 1
  /\ pc = "options" /\ params = Defaults
  /\ hdd \in Names
  /\ events = <<>> /\ eof = FALSE /\ written = 0
  /\ attached \in Attachments
  /\ mounts \in {<<>>} \cup {<<d>> : d \in Disks \ Unpartitioned}
  /\ queue = [d \in Disks |-> {}]
  /\ moves = 0 /\ faults = 0
  /\ bad = NoDisk /\ good = NoDisk
  /\ unplugged = {}
  /\ said = [restoreMode |-> "", runMode |-> ""]

-----------------------------------------------------------------------------
(* Disks, and the kernel's events about them.  The monitor of the wizard   *)
(* hears what happens after Udev::init and keeps it until it is received.  *)

EventsOf(act, n, d) ==
  LET Of(type) == [action |-> act, type |-> type, name |-> n, disk |-> d]
  IN IF d \in Unpartitioned THEN <<Of("disk")>>
     ELSE IF act = "add" THEN <<Of("disk"), Of("partition")>>
     ELSE <<Of("partition"), Of("disk")>>

Heard(new) == events' = IF pc \in WizardSteps THEN events \o new ELSE events

Plug(d, n) ==
  /\ moves < MaxMoves /\ pc \notin Ends
  /\ attached[n] = NoDisk /\ \A other \in Names : attached[other] # d
  /\ attached' = [attached EXCEPT ![n] = d]
  /\ queue' = [queue EXCEPT ![d] = {}]
  /\ Heard(EventsOf("add", n, d))
  /\ moves' = moves + 1
  /\ UNCHANGED <<argv, optind, pc, params, wizard, written, faults, unplugged>>

Unplug(n) ==
  /\ moves < MaxMoves /\ pc \notin Ends
  /\ attached[n] # NoDisk
  /\ attached' = [attached EXCEPT ![n] = NoDisk]
  /\ Heard(EventsOf("remove", n, attached[n]))
  /\ unplugged' = unplugged \cup {<<attached[n], n>>}
  /\ moves' = moves + 1
  /\ UNCHANGED <<argv, optind, pc, params, wizard, written, queue, faults>>

-----------------------------------------------------------------------------
(* ArgsParser::_parseArgs: one option a step. *)

AppMode(v) ==
  CASE Atoi[v] = 0 -> "APP_START" [] Atoi[v] = 1 -> "APP_CONTINUE" [] OTHER -> "APP_BAD_MODE"
RestoreMode(v) ==
  CASE Atoi[v] = 0 -> "RESTORE_ONLY_GOOD" [] Atoi[v] = 1 -> "RESTORE_ALL"
    [] OTHER -> "RESTORE_UNKNOWN"

Given(p, o) ==
  CASE o.opt = "d" -> [p EXCEPT !.diskDev = o.val]
    [] o.opt = "p" -> [p EXCEPT !.partDev = o.val]
    [] o.opt = "s" -> [p EXCEPT !.storageFile = o.val]
    [] o.opt = "r" -> [p EXCEPT !.restoreDir = o.val]
    [] o.opt = "m" -> [p EXCEPT !.app_mode = AppMode(o.val)]
    [] o.opt = "t" -> [p EXCEPT !.restore_mode = RestoreMode(o.val)]
    [] OTHER -> p

(* An option that is unknown prints the help and is passed over. *)
Option ==
  /\ pc = "options" /\ optind <= Len(argv)
  /\ argv[optind].opt \notin {"w", "h"}
  /\ params' = Given(params, argv[optind])
  /\ optind' = optind + 1
  /\ UNCHANGED <<argv, pc, written, faults, wizard, world>>

Help ==
  /\ pc = "options" /\ optind <= Len(argv) /\ argv[optind].opt = "h"
  /\ pc' = "exited"
  /\ UNCHANGED <<argv, optind, params, written, faults, wizard, world>>

OptionsDone ==
  /\ pc = "options" /\ optind > Len(argv)
  /\ pc' = "validate"
  /\ UNCHANGED <<argv, optind, params, written, faults, wizard, world>>

-----------------------------------------------------------------------------
(* The wizard. *)

(* Udev::init opens the monitor; what is plugged in before is not heard of. *)
RunWizard ==
  /\ pc = "options" /\ optind <= Len(argv) /\ argv[optind].opt = "w"
  /\ pc' = "badDisk" /\ unplugged' = {}
  /\ optind' = optind + 1
  /\ UNCHANGED <<argv, params, written, faults, wizard, attached, events, queue, moves>>

AcceptsPartitions(e) == e.action = "add" \* mutant

Accepts(e) == e.action = "add" /\ e.type = "disk"

IgnoreKeeps == \* mutant
  /\ pc \in {"badDisk", "goodDisk"} /\ events # <<>> /\ ~Accepts(Head(events))
  /\ UNCHANGED vars

(* Udev::recvDevice drops what is not the arrival of a disk. *)
Ignore ==
  /\ pc \in {"badDisk", "goodDisk"} /\ events # <<>> /\ ~Accepts(Head(events))
  /\ events' = Tail(events)
  /\ UNCHANGED <<argv, optind, pc, params, written, faults, wizard, attached, queue, moves,
                 unplugged>>

(* _getHddFrom *)
BadDisk ==
  /\ pc = "badDisk" /\ events # <<>> /\ Accepts(Head(events))
  /\ LET e == Head(events) IN
       /\ params' = [params EXCEPT !.diskDev = <<e.name>>, !.partDev = <<e.name>>]
       /\ bad' = e.disk
  /\ events' = Tail(events)
  /\ pc' = "goodDisk"
  /\ UNCHANGED <<argv, optind, written, faults, hdd, mounts, eof, good, said, attached, queue,
                 moves, unplugged>>

(* _getDirTo, up to umount, whose result nobody looks at *)
GoodDisk ==
  /\ pc = "goodDisk" /\ events # <<>> /\ Accepts(Head(events))
  /\ hdd' = Head(events).name /\ good' = Head(events).disk
  /\ events' = Tail(events)
  /\ pc' = "umount"
  /\ UNCHANGED <<argv, optind, params, written, faults, mounts, eof, bad, said, attached, queue,
                 moves, unplugged>>

Umount ==
  /\ pc = "umount" /\ pc' = "mount"
  /\ \/ mounts # <<>> /\ mounts' = Front(mounts) /\ faults' = faults
     \/ mounts = <<>> /\ UNCHANGED <<mounts, faults>>
     \/ mounts # <<>> /\ faults < MaxFaults /\ faults' = faults + 1 /\ UNCHANGED mounts
  /\ UNCHANGED <<argv, optind, params, written, hdd, eof, bad, good, said, world>>

MountUnchecked == \* mutant
  /\ pc = "mount"
  /\ mounts' = IF PartExists(<<hdd>>) THEN Append(mounts, attached[hdd]) ELSE mounts
  /\ params' = [params EXCEPT !.restoreDir = "mnt"]
  /\ pc' = "fuse"
  /\ UNCHANGED <<argv, optind, written, faults, hdd, eof, bad, good, said, world>>

(* System::mount throws when the partition is not there. *)
Mount ==
  /\ pc = "mount"
  /\ IF PartExists(<<hdd>>)
       THEN /\ mounts' = Append(mounts, attached[hdd])
            /\ params' = [params EXCEPT !.restoreDir = "mnt"]
            /\ pc' = "fuse"
       ELSE pc' = "failed" /\ UNCHANGED <<mounts, params>>
  /\ UNCHANGED <<argv, optind, written, faults, hdd, eof, bad, good, said, world>>

FuseKeepsMode == \* mutant
  /\ pc = "fuse"
  /\ pc' = IF params.restore_mode = "RESTORE_UNKNOWN" THEN "restoreMode" ELSE "runMode"
  /\ UNCHANGED <<argv, optind, params, written, faults, hdd, mounts, eof, bad, good, said, world>>

(* system("mount.exfat ...") mounts the partition once more, or fails; both go unnoticed. *)
Fuse ==
  /\ pc = "fuse" /\ pc' = "restoreMode"
  /\ \/ UNCHANGED mounts
     \/ PartExists(<<hdd>>) /\ mounts' = Append(mounts, attached[hdd])
  /\ params' = [params EXCEPT !.restore_mode = "RESTORE_UNKNOWN"]
  /\ UNCHANGED <<argv, optind, written, faults, hdd, eof, bad, good, said, world>>

-----------------------------------------------------------------------------
(* The prompts.  An answer is a character that is not blank: ENTER alone   *)
(* is skipped by operator>> and waited past.  At the end of the input      *)
(* operator>> leaves its argument as it was.                               *)

Answers == IF eof THEN {"eof"} ELSE {"0", "1", "other", "eof"}

(* In _getRestoreMode the argument was 0. *)
GetRestoreMode ==
  /\ pc = "restoreMode"
  /\ \E a \in Answers :
       /\ eof' = (a = "eof")
       /\ said' = [said EXCEPT !.restoreMode = a]
       /\ CASE a = "1" -> params' = [params EXCEPT !.restore_mode = "RESTORE_ALL",
                                                   !.app_mode = "APP_BAD_MODE"]
            [] a \in {"0", "eof"} -> params' = [params EXCEPT !.restore_mode = "RESTORE_ONLY_GOOD",
                                                              !.app_mode = "APP_BAD_MODE"]
            [] OTHER -> UNCHANGED params
       /\ pc' = IF a = "other" THEN pc ELSE "runMode"
  /\ UNCHANGED <<argv, optind, written, faults, hdd, mounts, bad, good, world>>

(* In _getRunMode nothing had set it: it may have any value. *)
Read(a) == IF a = "eof" THEN {"0", "1", "other"} ELSE {a}

GetRunMode ==
  /\ pc = "runMode"
  /\ \E a \in Answers :
       /\ eof' = (a = "eof")
       /\ said' = [said EXCEPT !.runMode = a]
       /\ \E m \in Read(a) :
            IF m = "other"
              THEN UNCHANGED <<params, pc>>
              ELSE /\ params' = [params EXCEPT
                        !.app_mode = IF m = "1" THEN "APP_START" ELSE "APP_CONTINUE",
                        !.storageFile = "mnt/restorer.file"]
                   /\ pc' = "validate"
  /\ UNCHANGED <<argv, optind, written, faults, hdd, mounts, bad, good, world>>

-----------------------------------------------------------------------------
(* Application::init and Drive::init. *)

Valid ==
  /\ params.app_mode # "APP_BAD_MODE"
  /\ params.restore_mode # "RESTORE_UNKNOWN"
  /\ params.restoreDir # ""
  /\ params.partDev # <<>>

ValidateParams ==
  /\ pc = "validate"
  /\ pc' = IF Valid THEN "devFiles" ELSE "failed"
  /\ UNCHANGED <<argv, optind, params, written, faults, wizard, world>>

(* Without a disk's file the setup of the drive is left out. *)
ValidateDevFiles ==
  /\ pc = "devFiles"
  /\ pc' = IF ~PartExists(params.partDev) THEN "failed"
           ELSE IF DiskExists(params.diskDev) THEN "tune" ELSE "run"
  /\ UNCHANGED <<argv, optind, params, written, faults, wizard, world>>

(* _applyConfig: one file of /sys/class/block/.../queue a step; System::*  *)
(* throws if the disk is gone.                                             *)
ApplyConfig ==
  /\ pc = "tune" /\ written < Len(Settings) /\ DiskExists(params.diskDev)
  /\ queue' = [queue EXCEPT ![attached[params.diskDev[1]]] = @ \cup {Settings[written + 1]}]
  /\ written' = written + 1
  /\ UNCHANGED <<argv, optind, pc, params, faults, wizard, attached, events, moves, unplugged>>

SetSelfParameters ==
  /\ pc = "tune" /\ written = Len(Settings) /\ DiskExists(params.diskDev)
  /\ pc' = "run"
  /\ UNCHANGED <<argv, optind, params, written, faults, wizard, world>>

DriveGone ==
  /\ pc = "tune" /\ ~DiskExists(params.diskDev)
  /\ pc' = "failed"
  /\ UNCHANGED <<argv, optind, params, written, faults, wizard, world>>

(* The monitor cannot be opened or read, a mount is refused, a file of     *)
(* /sys rejects a value: each throws, and main catches nothing.            *)
Throws ==
  /\ pc \in {"badDisk", "goodDisk", "mount", "devFiles", "tune"} /\ faults < MaxFaults
  /\ faults' = faults + 1
  /\ pc' = "failed"
  /\ UNCHANGED <<argv, optind, params, written, wizard, world>>

(* Application::run begins, which is module Recovery, or the process is gone. *)
Ended == pc \in Ends /\ UNCHANGED vars

Program ==
  \/ Option \/ Help \/ OptionsDone
  \/ RunWizard \/ Ignore \/ BadDisk \/ GoodDisk \/ Umount \/ Mount \/ Fuse
  \/ GetRestoreMode \/ GetRunMode
  \/ ValidateParams \/ ValidateDevFiles \/ ApplyConfig \/ SetSelfParameters \/ DriveGone

Next ==
  \/ Program \/ Throws \/ Ended
  \/ \E n \in Names : Unplug(n) \/ \E d \in Disks : Plug(d, n)

Spec == Init /\ [][Next]_vars

(* One thread, which waits for nothing but events and answers. *)
FairSpec == Spec /\ WF_vars(Program)

-----------------------------------------------------------------------------
(* Properties *)

(* Type invariant.  What -m and -t leave, and what the wizard leaves while *)
(* it asks, is a value of the enumeration; a name has at most one disk.    *)
TypeOK ==
  /\ argv \in CommandLines /\ optind \in 1 .. Len(argv) + 1
  /\ pc \in {"options", "validate", "devFiles", "tune"} \cup WizardSteps \cup Ends
  /\ params \in [diskDev : Devices, partDev : Devices,
                 storageFile : {"storage.file", "status", "mnt/restorer.file"},
                 restoreDir : {"", "dir", "mnt"},
                 app_mode : AppModes, restore_mode : RestoreModes]
  /\ hdd \in Names
  /\ events \in Seq(Event)
  /\ eof \in BOOLEAN /\ written \in 0 .. Len(Settings)
  /\ Attachable(attached)
  /\ mounts \in Seq(Disks)
  /\ queue \in [Disks -> SUBSET ToSet(Settings)]
  /\ moves \in 0 .. MaxMoves /\ faults \in 0 .. MaxFaults
  /\ bad \in Disks \cup {NoDisk} /\ good \in Disks \cup {NoDisk}
  /\ unplugged \subseteq Disks \X Names
  /\ said \in [restoreMode : {"", "0", "1", "other", "eof"}, runMode : {"", "0", "1", "other", "eof"}]

Configured == pc \in {"validate", "devFiles", "tune", "run"}
Left(d) == \E n \in Names : <<d, n>> \in unplugged
Vacated(n) == \E d \in Disks : <<d, n>> \in unplugged
ByWizard == \E i \in 1 .. Len(argv) : i < optind /\ argv[i].opt = "w"

(* What the command line means: of each option the last, or the default.   *)
Meant(o, convert(_), default) ==
  LET at == {i \in 1 .. Len(argv) : argv[i].opt = o}
  IN IF at = {} THEN default ELSE convert(argv[CHOOSE i \in at : \A j \in at : j <= i].val)
AsIs(v) == v
NamedMode(v) == IF v = "one" THEN "APP_CONTINUE" ELSE IF v = "two" THEN "APP_BAD_MODE" ELSE "APP_START"

(* Without the wizard the parameters are what the command line means,      *)
(* whatever the order and however often an option is given: in particular  *)
(* a mode that is no mode takes back an earlier one, and a word is a start *)
(* from scratch (ArgsParser.cpp:68-139).                                   *)
OptionsDecide ==
  (Configured /\ ~ByWizard) =>
     /\ params.diskDev = Meant("d", AsIs, <<>>) /\ params.partDev = Meant("p", AsIs, <<>>)
     /\ params.storageFile = Meant("s", AsIs, "storage.file")
     /\ params.restoreDir = Meant("r", AsIs, "")
     /\ params.app_mode = Meant("m", NamedMode, "APP_BAD_MODE")
     /\ params.restore_mode = Meant("t", RestoreMode, "RESTORE_ONLY_GOOD")

(* With it they are what the operator did and answered, whatever options   *)
(* stand before or after -w; a status file is overwritten only on the      *)
(* answer 1, or when the input ended (ArgsParser.cpp:134, Wizard.cpp:54).  *)
WizardDecides ==
  (Configured /\ ByWizard) =>
     /\ params.restoreDir = "mnt" /\ params.storageFile = "mnt/restorer.file"
     /\ params.diskDev = params.partDev
     /\ params.restore_mode = "RESTORE_ALL" => said.restoreMode = "1"
     /\ params.restore_mode = "RESTORE_ONLY_GOOD" => said.restoreMode \in {"0", "eof"}
     /\ params.app_mode = "APP_START" => said.runMode \in {"1", "eof"}
     /\ params.app_mode = "APP_CONTINUE" => said.runMode \in {"0", "eof"}

(* A disk that stays in its place is never taken for both, however the     *)
(* events of disks and partitions mix and whenever they are received       *)
(* (Wizard.cpp:20, 34; Udev.cpp:83).                                       *)
DisksApart ==
  (bad # NoDisk /\ bad = good) => Left(bad)

(* When a run begins, what is restored goes to the second disk and comes   *)
(* from the first, unless either was plugged out in the meantime: then a   *)
(* name may mean another disk (Wizard.cpp:40, Application.cpp:41).         *)
RunsBetween ==
  (pc = "run" /\ ByWizard) =>
     /\ Left(good) \/ (mounts # <<>> /\ Last(mounts) = good)
     /\ Left(bad) \/ attached[params.partDev[1]] = bad

(* A run on a drive that stayed begins with all settings made; a setup     *)
(* that failed made the first ones, which nothing undoes; and no other     *)
(* disk is touched (Drive.cpp:83-99, Application.cpp:45).                  *)
TunedWhole ==
  \A d \in Disks : queue[d] # {} =>
    \/ \E n \in Names : params.diskDev = <<n>> /\ Vacated(n)
    \/ /\ params.diskDev # <<>> /\ attached[params.diskDev[1]] = d
       /\ queue[d] = {Settings[i] : i \in 1 .. written}
       /\ pc = "run" => queue[d] = ToSet(Settings)

(* The arrival of a disk is not missed behind other events: whoever waits  *)
(* for one gets on (Udev.cpp:52-94).                                       *)
DiskIsTaken ==
  \A step \in {"badDisk", "goodDisk"} :
    (pc = step /\ \E i \in 1 .. Len(events) : Accepts(events[i])) ~> pc # step

(* The parameters of a run are what was asked for, on the command line or  *)
(* of the operator.                                                        *)
ParametersDecided == TypeOK /\ OptionsDecide /\ WizardDecides

(* A run begins on the disks it is for, the bad one set up as a whole.     *)
RunIsPrepared == RunsBetween /\ TunedWhole
=============================================================================
