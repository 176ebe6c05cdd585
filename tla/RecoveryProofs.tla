--------------------------- MODULE RecoveryProofs ---------------------------
(***************************************************************************)
(* Proofs about Recovery, for every set of names and every set of listings *)
(* that satisfies ListingsAssumption.                                      *)
(*                                                                         *)
(* ProcessedIsRestored is not inductive: that Mark is right depends on how *)
(* far the copy had come, on the names of the records being distinct, and  *)
(* on memory and status file agreeing.  Inv adds these facts, one named    *)
(* part each, and every action preserves it.                               *)
(***************************************************************************)
EXTENDS Recovery, SequenceTheorems, TLAPS

(* The inductive invariant                                                 *)

\* The records come from a listing: no two share an output file, and lost
\* clusters are at the end.
StatusOK ==
    /\ \A k, l \in DOMAIN status :
         status[k].file.fileName = status[l].file.fileName => k = l
    /\ \A k \in DOMAIN status : LostSuffix(status[k].file.offsets)

\* store() has written a prefix of the listing, nothing of it marked; the run
\* that gets past store() has written all of it.
StoreOK ==
    /\ pc \in {"open", "store"} => todo \in Listings
    /\ pc = "store" =>
         /\ asked = todo
         /\ Len(status) <= Len(todo)
         /\ \A k \in DOMAIN status :
              status[k].file = todo[k] /\ ~status[k].isProcessed
    /\ pc \in {"load", "unit", "copy", "mark", "exited"}
         /\ app_mode = APP_START => Len(status) = Len(asked)

\* process() has gone over the records before i.
UnitsOK ==
    /\ pc \in {"unit", "copy", "mark"} =>
         /\ units = status
         /\ i >= 1
         /\ \A k \in DOMAIN units : k < i => units[k].isProcessed
    /\ pc \in {"copy", "mark"} =>
         i <= Len(units) /\ ~units[i].isProcessed
    /\ pc = "mark" => RecordRestored(units[i])
    /\ pc = "exited" => \A k \in DOMAIN status : status[k].isProcessed

\* _recoverUnit has copied the live offsets before j.
CopyOK ==
    pc = "copy" =>
        /\ j >= 1
        /\ out[Name].exists
        /\ pass[Name].mode = restore_mode
        /\ pass[Name].failed \subseteq {c \in Live(Offsets) : c < j}
        /\ restore_mode = RESTORE_ONLY_GOOD => pass[Name].failed = {}
        /\ DOMAIN out[Name].blocks = {c \in Live(Offsets) : c < j}
        /\ \A c \in DOMAIN out[Name].blocks :
             out[Name].blocks[c] = IF c \in pass[Name].failed
                                     THEN Patched ELSE Offsets[c]

Inv == TypeOK /\ StatusOK /\ StoreOK /\ UnitsOK /\ CopyOK /\ ProcessedIsRestored

-----------------------------------------------------------------------------
(* Lemmas                                                                  *)

\* A state with the same disk and the same history keeps every promise about
\* the status file.
LEMMA SameDisk ==
    ASSUME ProcessedIsRestored, status' = status, out' = out, pass' = pass
    PROVE  ProcessedIsRestored'
  BY DEF ProcessedIsRestored, RecordRestored

\* The file that is being restored is nobody else's: what a step does to its
\* output cannot disturb a marked record.
LEMMA OutputApart ==
    ASSUME Inv,
           pc \in {"unit", "copy"}, i <= Len(units), ~units[i].isProcessed,
           status' = status,
           \A n \in Names \ {Name} : out'[n] = out[n] /\ pass'[n] = pass[n]
    PROVE  ProcessedIsRestored'
  <1> SUFFICES ASSUME NEW k \in DOMAIN status, status[k].isProcessed
               PROVE  RecordRestored(status[k])'
    BY DEF ProcessedIsRestored
  <1>1. units = status /\ i \in DOMAIN status /\ k # i
    BY DEF Inv, TypeOK, UnitsOK
  <1>2. status[k] \in UnitRecord /\ status[i] \in UnitRecord
    BY <1>1 DEF Inv, TypeOK
  <1>3. status[k].file.fileName \in Names \ {Name}
    BY <1>1, <1>2
       DEF Inv, StatusOK, Name, Current, UnitRecord, FileInternals
  <1>4. RecordRestored(status[k])
    BY DEF Inv, ProcessedIsRestored
  <1> QED
    BY <1>3, <1>4 DEF RecordRestored

\* The record process() is at, and its offsets, are well typed.
LEMMA CurrentTyped ==
    ASSUME Inv, pc \in {"unit", "copy", "mark"}, i <= Len(units)
    PROVE  /\ i \in DOMAIN units /\ i \in DOMAIN status
           /\ units = status
           /\ units[i] \in UnitRecord
           /\ Name \in Names
           /\ Offsets \in Seq(Nat)
           /\ LostSuffix(Offsets)
  <1>1. units = status /\ i \in 1..Len(units)
    BY DEF Inv, TypeOK, UnitsOK
  <1>2. units[i] \in UnitRecord
    BY <1>1 DEF Inv, TypeOK
  <1> QED
    BY <1>1, <1>2 DEF Inv, TypeOK, StatusOK, UnitRecord, FileInternals,
                      Current, Name, Offsets

\* With lost clusters only at the end, the live offsets before a live one are
\* all the offsets before it.
LEMMA LiveBefore ==
    ASSUME NEW offs \in Seq(Nat), LostSuffix(offs),
           NEW c \in DOMAIN offs, offs[c] # 0
    PROVE  {d \in Live(offs) : d < c} = 1..(c - 1)
  BY DEF LostSuffix, Live

-----------------------------------------------------------------------------
(* The initial state and the launches                                      *)

LEMMA InitInv == Init => Inv
  <1> SUFFICES ASSUME Init PROVE Inv
    OBVIOUS
  <1>1. out \in [Names -> OutputFile]
    BY EmptySeq DEF Init, OutputFile
  <1>2. pass \in [Names -> PassRecord]
    BY DEF Init, PassRecord, RestoreModes
  <1>3. TypeOK
    BY <1>1, <1>2, EmptySeq DEF Init, TypeOK, AppModes, RestoreModes
  <1>4. StatusOK /\ ProcessedIsRestored
    BY DEF Init, StatusOK, ProcessedIsRestored
  <1>5. StoreOK /\ UnitsOK /\ CopyOK
    BY DEF Init, StoreOK, UnitsOK, CopyOK
  <1> QED
    BY <1>3, <1>4, <1>5 DEF Inv

LEMMA LaunchInv == Inv /\ Launch => Inv'
  <1> SUFFICES ASSUME Inv, NEW rmode \in RestoreModes,
                      Start(rmode) \/ Continue(rmode)
               PROVE  Inv'
    BY DEF Launch
  <1> USE DEF Start, Continue, disk, history, Running
  <1>1. TypeOK'
    BY DEF Inv, TypeOK, AppModes
  <1>2. StatusOK' /\ ProcessedIsRestored'
    BY SameDisk DEF Inv, StatusOK
  <1>3. StoreOK' /\ UnitsOK' /\ CopyOK'
    BY DEF Inv, StoreOK, UnitsOK, CopyOK, APP_START, APP_CONTINUE
  <1> QED
    BY <1>1, <1>2, <1>3 DEF Inv

\* A process that stops leaves nothing to be said about its memory.
LEMMA HaltInv ==
    ASSUME Inv, Halt("off"), status' = status, torn' \in BOOLEAN,
           out' \in [Names -> OutputFile], ProcessedIsRestored',
           UNCHANGED history
    PROVE  Inv'
  <1>1. TypeOK'
    BY DEF Inv, TypeOK, Halt, history
  <1>2. StatusOK'
    BY DEF Inv, StatusOK
  <1>3. StoreOK' /\ UnitsOK' /\ CopyOK'
    BY DEF Halt, StoreOK, UnitsOK, CopyOK
  <1> QED
    BY <1>1, <1>2, <1>3 DEF Inv

-----------------------------------------------------------------------------
(* The status file is written                                              *)

LEMMA GetUnitListInv == Inv /\ GetUnitList => Inv'
  <1> SUFFICES ASSUME Inv, GetUnitList PROVE Inv'
    OBVIOUS
  <1> USE DEF GetUnitList, disk, history
  <1>1. TypeOK'
    BY ListingsAssumption DEF Inv, TypeOK
  <1>2. StatusOK' /\ ProcessedIsRestored'
    BY SameDisk DEF Inv, StatusOK
  <1>3. StoreOK' /\ UnitsOK' /\ CopyOK'
    BY DEF Inv, StoreOK, UnitsOK, CopyOK
  <1> QED
    BY <1>1, <1>2, <1>3 DEF Inv

LEMMA OpenStoreInv == Inv /\ OpenStore => Inv'
  <1> SUFFICES ASSUME Inv, OpenStore PROVE Inv'
    OBVIOUS
  <1> USE DEF OpenStore
  <1>1. TypeOK'
    BY EmptySeq DEF Inv, TypeOK
  <1>2. StatusOK' /\ ProcessedIsRestored'
    BY DEF StatusOK, ProcessedIsRestored
  <1>3. StoreOK' /\ UnitsOK' /\ CopyOK'
    BY DEF Inv, TypeOK, StoreOK, UnitsOK, CopyOK
  <1> QED
    BY <1>1, <1>2, <1>3 DEF Inv

LEMMA StoreUnitInv == Inv /\ StoreUnit => Inv'
  <1> SUFFICES ASSUME Inv, StoreUnit PROVE Inv'
    OBVIOUS
  <1> USE DEF StoreUnit, process, history
  <1> DEFINE n == Len(status) + 1
             new == [file |-> todo[n], isProcessed |-> FALSE]
  <1>1. /\ todo \in Seq(FileInternals) /\ DistinctNames(todo)
        /\ \A k \in DOMAIN todo : LostSuffix(todo[k].offsets)
    BY ListingsAssumption DEF Inv, StoreOK
  <1>2. status \in Seq(UnitRecord) /\ n \in DOMAIN todo /\ new \in UnitRecord
    BY <1>1 DEF Inv, TypeOK, UnitRecord
  <1>3. /\ status' \in Seq(UnitRecord)
        /\ Len(status') = n
        /\ status'[n] = new
        /\ \A k \in 1..Len(status) : status'[k] = status[k]
    BY <1>2, AppendProperties
  <1>4. DOMAIN status' = DOMAIN status \cup {n}
    BY <1>2, <1>3
  <1>5. \A k \in DOMAIN status' :
          status'[k].file = todo[k] /\ ~status'[k].isProcessed /\ k \in DOMAIN todo
    BY <1>1, <1>2, <1>3, <1>4 DEF Inv, StoreOK
  <1>6. TypeOK'
    BY <1>3 DEF Inv, TypeOK
  <1>7. StatusOK'
    BY <1>1, <1>5 DEF StatusOK, DistinctNames
  <1>8. ProcessedIsRestored'
    BY <1>5 DEF ProcessedIsRestored
  <1>9. StoreOK' /\ UnitsOK' /\ CopyOK'
    BY <1>1, <1>2, <1>3, <1>5 DEF Inv, StoreOK, UnitsOK, CopyOK
  <1> QED
    BY <1>6, <1>7, <1>8, <1>9 DEF Inv

LEMMA CloseStoreInv == Inv /\ CloseStore => Inv'
  <1> SUFFICES ASSUME Inv, CloseStore PROVE Inv'
    OBVIOUS
  <1> USE DEF CloseStore, disk, history
  <1>1. TypeOK'
    BY DEF Inv, TypeOK
  <1>2. StatusOK' /\ ProcessedIsRestored'
    BY SameDisk DEF Inv, StatusOK
  <1>3. StoreOK' /\ UnitsOK' /\ CopyOK'
    BY DEF Inv, StoreOK, UnitsOK, CopyOK
  <1> QED
    BY <1>1, <1>2, <1>3 DEF Inv

-----------------------------------------------------------------------------
(* The status file is loaded, and process() goes over the records          *)

LEMMA LoadInv == Inv /\ Load => Inv'
  <1> SUFFICES ASSUME Inv, Load PROVE Inv'
    OBVIOUS
  <1> USE DEF Load, disk, history
  <1>1. TypeOK'
    BY DEF Inv, TypeOK
  <1>2. StatusOK' /\ ProcessedIsRestored'
    BY SameDisk DEF Inv, StatusOK
  <1>3. StoreOK' /\ UnitsOK' /\ CopyOK'
    BY <1>1 DEF Inv, TypeOK, StoreOK, UnitsOK, CopyOK
  <1> QED
    BY <1>1, <1>2, <1>3 DEF Inv

LEMMA SkipInv == Inv /\ Skip => Inv'
  <1> SUFFICES ASSUME Inv, Skip PROVE Inv'
    OBVIOUS
  <1> USE DEF Skip, disk, history
  <1>1. TypeOK'
    BY DEF Inv, TypeOK
  <1>2. StatusOK' /\ ProcessedIsRestored'
    BY SameDisk DEF Inv, StatusOK
  <1>3. StoreOK' /\ UnitsOK' /\ CopyOK'
    BY DEF Inv, TypeOK, StoreOK, UnitsOK, CopyOK
  <1> QED
    BY <1>1, <1>2, <1>3 DEF Inv

LEMMA OpenOutputInv == Inv /\ OpenOutput => Inv'
  <1> SUFFICES ASSUME Inv, OpenOutput PROVE Inv'
    OBVIOUS
  <1> USE DEF OpenOutput
  <1>1. Name \in Names /\ Name' = Name /\ Offsets' = Offsets
    BY CurrentTyped DEF Name, Offsets, Current
  <1>2. [exists |-> TRUE, blocks |-> <<>>] \in OutputFile
    BY EmptySeq DEF OutputFile
  <1>3. [mode |-> restore_mode, failed |-> {}] \in PassRecord
    BY DEF Inv, TypeOK, PassRecord
  <1>4. TypeOK'
    BY <1>1, <1>2, <1>3 DEF Inv, TypeOK
  <1>5. ProcessedIsRestored'
    BY OutputApart DEF Inv, TypeOK
  <1>6. out'[Name] = [exists |-> TRUE, blocks |-> <<>>]
        /\ pass'[Name] = [mode |-> restore_mode, failed |-> {}]
    BY <1>1 DEF Inv, TypeOK
  <1>7. DOMAIN out'[Name].blocks = {c \in Live(Offsets) : c < 1}
    BY <1>6, CurrentTyped DEF Live
  <1>8. CopyOK'
    BY <1>1, <1>6, <1>7 DEF CopyOK
  <1>9. StatusOK' /\ StoreOK' /\ UnitsOK'
    BY DEF Inv, StatusOK, StoreOK, UnitsOK
  <1> QED
    BY <1>4, <1>5, <1>8, <1>9 DEF Inv

LEMMA FinishInv == Inv /\ Finish => Inv'
  <1> SUFFICES ASSUME Inv, Finish PROVE Inv'
    OBVIOUS
  <1> USE DEF Finish, Halt, disk, history
  <1>1. TypeOK'
    BY EmptySeq DEF Inv, TypeOK
  <1>2. StatusOK' /\ ProcessedIsRestored'
    BY SameDisk DEF Inv, StatusOK
  <1>3. \A k \in DOMAIN status : status[k].isProcessed
    BY DEF Inv, TypeOK, UnitsOK
  <1>4. StoreOK' /\ UnitsOK' /\ CopyOK'
    BY <1>3 DEF Inv, StoreOK, UnitsOK, CopyOK
  <1> QED
    BY <1>1, <1>2, <1>4 DEF Inv

-----------------------------------------------------------------------------
(* One file is restored                                                    *)

LEMMA CopyLostInv == Inv /\ CopyLost => Inv'
  <1> SUFFICES ASSUME Inv, CopyLost PROVE Inv'
    OBVIOUS
  <1> USE DEF CopyLost, disk, history
  <1>1. Name' = Name /\ Offsets' = Offsets
    BY DEF Name, Offsets, Current
  <1>2. TypeOK'
    BY DEF Inv, TypeOK
  <1>3. StatusOK' /\ ProcessedIsRestored'
    BY SameDisk DEF Inv, StatusOK
  <1>4. StoreOK' /\ UnitsOK'
    BY DEF Inv, StoreOK, UnitsOK
  <1>5. {c \in Live(Offsets) : c < j + 1} = {c \in Live(Offsets) : c < j}
    BY CurrentTyped DEF Inv, TypeOK, UnitsOK, Live
  <1>6. CopyOK'
    BY <1>1, <1>5 DEF Inv, TypeOK, CopyOK
  <1> QED
    BY <1>2, <1>3, <1>4, <1>6 DEF Inv

\* One block appended for a live offset: what CopyGood and CopyBadPatches have
\* in common.
LEMMA BlockAppended ==
    ASSUME Inv, pc = "copy", j \in DOMAIN Offsets, Offsets[j] # 0,
           NEW block \in Nat, WriteBlock(block)
    PROVE  /\ out' \in [Names -> OutputFile]
           /\ \A n \in Names \ {Name} : out'[n] = out[n]
           /\ out'[Name].exists
           /\ DOMAIN out'[Name].blocks = {c \in Live(Offsets) : c < j + 1}
           /\ out'[Name].blocks[j] = block
           /\ \A c \in DOMAIN out[Name].blocks :
                c # j /\ out'[Name].blocks[c] = out[Name].blocks[c]
  <1> DEFINE blocks == out[Name].blocks
  <1>1. Name \in Names /\ Offsets \in Seq(Nat) /\ LostSuffix(Offsets)
    BY CurrentTyped DEF Inv, UnitsOK
  <1>2. out[Name] \in OutputFile /\ blocks \in Seq(Nat \cup {Cut})
    BY <1>1 DEF Inv, TypeOK, OutputFile
  <1>3. DOMAIN blocks = 1..(j - 1)
    BY <1>1, LiveBefore DEF Inv, CopyOK
  <1>4. Len(blocks) = j - 1
    BY <1>1, <1>2, <1>3
  <1>5. /\ Append(blocks, block) \in Seq(Nat \cup {Cut})
        /\ DOMAIN Append(blocks, block) = 1..j
        /\ Append(blocks, block)[j] = block
        /\ \A c \in 1..(j - 1) : Append(blocks, block)[c] = blocks[c]
    BY <1>1, <1>2, <1>4, AppendProperties
  <1>6. out'[Name] = [exists |-> out[Name].exists,
                      blocks |-> Append(blocks, block)]
    BY <1>1, <1>2 DEF WriteBlock, Inv, TypeOK, OutputFile
  <1>7. out'[Name] \in OutputFile
    BY <1>2, <1>5, <1>6 DEF OutputFile
  <1>8. /\ out' = [out EXCEPT ![Name] = out'[Name]]
        /\ \A n \in Names \ {Name} : out'[n] = out[n]
    BY <1>1 DEF WriteBlock, Inv, TypeOK
  <1>9. out' \in [Names -> OutputFile]
    BY <1>1, <1>7, <1>8 DEF Inv, TypeOK
  <1>10. {c \in Live(Offsets) : c < j + 1} = 1..j
    BY <1>1 DEF Live, LostSuffix
  <1>11. \A c \in DOMAIN blocks :
           c # j /\ out'[Name].blocks[c] = blocks[c]
    BY <1>3, <1>5, <1>6 DEF Inv, TypeOK
  <1>12. out'[Name].exists /\ out'[Name].blocks = Append(blocks, block)
    BY <1>6 DEF Inv, CopyOK
  <1> QED
    BY <1>5, <1>8, <1>9, <1>10, <1>11, <1>12

LEMMA CopyGoodInv == Inv /\ CopyGood => Inv'
  <1> SUFFICES ASSUME Inv, CopyGood PROVE Inv'
    OBVIOUS
  <1> USE DEF CopyGood, history
  <1>1. /\ Name \in Names /\ Offsets \in Seq(Nat)
        /\ Name' = Name /\ Offsets' = Offsets
    BY CurrentTyped DEF Inv, UnitsOK, Name, Offsets, Current
  <1>2. j \in DOMAIN Offsets /\ Offsets[j] \in Nat
    BY <1>1 DEF Inv, TypeOK, CopyOK
  <1>3. /\ out' \in [Names -> OutputFile]
        /\ \A n \in Names \ {Name} : out'[n] = out[n]
        /\ out'[Name].exists
        /\ DOMAIN out'[Name].blocks = {c \in Live(Offsets) : c < j + 1}
        /\ out'[Name].blocks[j] = Offsets[j]
        /\ \A c \in DOMAIN out[Name].blocks :
             c # j /\ out'[Name].blocks[c] = out[Name].blocks[c]
    BY <1>2, BlockAppended
  <1>4. TypeOK'
    BY <1>3 DEF Inv, TypeOK
  <1>5. ProcessedIsRestored'
    BY <1>3, OutputApart DEF Inv, UnitsOK
  <1>6. StatusOK' /\ StoreOK' /\ UnitsOK'
    BY DEF Inv, StatusOK, StoreOK, UnitsOK
  <1>7. j \notin pass[Name].failed
    BY <1>1 DEF Inv, TypeOK, CopyOK, Live
  <1>8. /\ DOMAIN out[Name].blocks = {c \in Live(Offsets) : c < j}
        /\ \A c \in DOMAIN out[Name].blocks :
             out[Name].blocks[c] = IF c \in pass[Name].failed
                                     THEN Patched ELSE Offsets[c]
    BY DEF Inv, CopyOK
  <1>9. \A c \in DOMAIN out'[Name].blocks :
          c # j => c \in DOMAIN out[Name].blocks
    BY <1>1, <1>2, <1>3, <1>8 DEF Live
  <1>10. \A c \in DOMAIN out'[Name].blocks :
           out'[Name].blocks[c] = IF c \in pass[Name].failed
                                    THEN Patched ELSE Offsets[c]
    BY <1>3, <1>7, <1>8, <1>9
  <1>11. pass[Name].failed \subseteq {c \in Live(Offsets) : c < j + 1}
    BY <1>1, <1>2 DEF Inv, CopyOK, Live
  <1>12. CopyOK'
    BY <1>1, <1>2, <1>3, <1>10, <1>11 DEF Inv, CopyOK
  <1> QED
    BY <1>4, <1>5, <1>6, <1>12 DEF Inv

\* A failed read is one more element of the current restore's record.
LEMMA FailureRecorded ==
    ASSUME Inv, pc = "copy", j \in DOMAIN Offsets, ReadFailed
    PROVE  /\ pass' \in [Names -> PassRecord]
           /\ \A n \in Names \ {Name} : pass'[n] = pass[n]
           /\ pass'[Name] = [mode |-> restore_mode,
                             failed |-> pass[Name].failed \cup {j}]
  <1>1. Name \in Names
    BY CurrentTyped DEF Inv, UnitsOK
  <1>2. pass[Name] \in PassRecord /\ pass[Name].mode = restore_mode /\ j \in Nat
    BY <1>1 DEF Inv, TypeOK, CopyOK
  <1>3. pass'[Name] = [mode |-> restore_mode,
                       failed |-> pass[Name].failed \cup {j}]
    BY <1>1, <1>2 DEF ReadFailed, Inv, TypeOK, PassRecord
  <1>4. /\ pass' = [pass EXCEPT ![Name] = pass'[Name]]
        /\ \A n \in Names \ {Name} : pass'[n] = pass[n]
    BY <1>1 DEF ReadFailed, Inv, TypeOK
  <1>5. pass'[Name] \in PassRecord
    BY <1>2, <1>3 DEF PassRecord
  <1> QED
    BY <1>1, <1>3, <1>4, <1>5 DEF Inv, TypeOK

LEMMA CopyBadPatchesInv == Inv /\ CopyBadPatches => Inv'
  <1> SUFFICES ASSUME Inv, CopyBadPatches PROVE Inv'
    OBVIOUS
  <1> USE DEF CopyBadPatches
  <1>1. /\ Name \in Names /\ Offsets \in Seq(Nat)
        /\ Name' = Name /\ Offsets' = Offsets
    BY CurrentTyped DEF Inv, UnitsOK, Name, Offsets, Current
  <1>2. j \in DOMAIN Offsets /\ Patched \in Nat
    BY <1>1 DEF Inv, TypeOK, CopyOK, Patched
  <1>3. /\ out' \in [Names -> OutputFile]
        /\ \A n \in Names \ {Name} : out'[n] = out[n]
        /\ out'[Name].exists
        /\ DOMAIN out'[Name].blocks = {c \in Live(Offsets) : c < j + 1}
        /\ out'[Name].blocks[j] = Patched
        /\ \A c \in DOMAIN out[Name].blocks :
             c # j /\ out'[Name].blocks[c] = out[Name].blocks[c]
    BY <1>2, BlockAppended
  <1>4. /\ pass' \in [Names -> PassRecord]
        /\ \A n \in Names \ {Name} : pass'[n] = pass[n]
        /\ pass'[Name] = [mode |-> restore_mode,
                          failed |-> pass[Name].failed \cup {j}]
    BY <1>2, FailureRecorded
  <1>5. TypeOK'
    BY <1>3, <1>4 DEF Inv, TypeOK
  <1>6. ProcessedIsRestored'
    BY <1>3, <1>4, OutputApart DEF Inv, UnitsOK
  <1>7. StatusOK' /\ StoreOK' /\ UnitsOK'
    BY DEF Inv, StatusOK, StoreOK, UnitsOK
  <1>8. /\ DOMAIN out[Name].blocks = {c \in Live(Offsets) : c < j}
        /\ pass[Name].failed \subseteq {c \in Live(Offsets) : c < j}
        /\ \A c \in DOMAIN out[Name].blocks :
             out[Name].blocks[c] = IF c \in pass[Name].failed
                                     THEN Patched ELSE Offsets[c]
    BY DEF Inv, CopyOK
  <1>9. \A c \in DOMAIN out'[Name].blocks :
          c # j => c \in DOMAIN out[Name].blocks
    BY <1>1, <1>2, <1>3, <1>8 DEF Live
  <1>10. \A c \in DOMAIN out'[Name].blocks :
           out'[Name].blocks[c] = IF c \in pass'[Name].failed
                                    THEN Patched ELSE Offsets[c]
    BY <1>3, <1>4, <1>8, <1>9
  <1>11. pass'[Name].failed \subseteq {c \in Live(Offsets) : c < j + 1}
    BY <1>1, <1>2, <1>4, <1>8 DEF Live
  <1>12. RESTORE_ALL # RESTORE_ONLY_GOOD
    BY DEF RESTORE_ALL, RESTORE_ONLY_GOOD
  <1>13. CopyOK'
    BY <1>1, <1>2, <1>3, <1>4, <1>10, <1>11, <1>12 DEF Inv, CopyOK
  <1> QED
    BY <1>5, <1>6, <1>7, <1>13 DEF Inv

LEMMA CopyBadBreaksInv == Inv /\ CopyBadBreaks => Inv'
  <1> SUFFICES ASSUME Inv, CopyBadBreaks PROVE Inv'
    OBVIOUS
  <1> USE DEF CopyBadBreaks, disk
  <1>1. /\ Name \in Names /\ Offsets \in Seq(Nat)
        /\ i \in DOMAIN units /\ Name = units[i].file.fileName
        /\ Offsets = units[i].file.offsets
    BY CurrentTyped DEF Inv, UnitsOK, Name, Offsets, Current
  <1>2. j \in DOMAIN Offsets
    BY <1>1 DEF Inv, TypeOK, CopyOK
  <1>3. /\ pass' \in [Names -> PassRecord]
        /\ \A n \in Names \ {Name} : pass'[n] = pass[n]
        /\ pass'[Name] = [mode |-> RESTORE_ONLY_GOOD, failed |-> {j}]
    BY <1>2, FailureRecorded DEF Inv, CopyOK
  <1>4. TypeOK'
    BY <1>3 DEF Inv, TypeOK
  <1>5. ProcessedIsRestored'
    BY <1>3, OutputApart DEF Inv, UnitsOK
  <1>6. /\ out[Name].exists
        /\ DOMAIN out[Name].blocks = {c \in Live(Offsets) : c < j}
        /\ \A c \in DOMAIN out[Name].blocks : out[Name].blocks[c] = Offsets[c]
    BY DEF Inv, CopyOK
  <1>7. j \notin DOMAIN out[Name].blocks
    BY <1>2, <1>6 DEF Inv, TypeOK
  <1>8. Restored(Offsets, pass'[Name], out[Name].blocks)
    BY <1>3, <1>6, <1>7 DEF Restored
  <1>9. RecordRestored(units[i])'
    BY <1>1, <1>6, <1>8 DEF RecordRestored
  <1>10. StatusOK' /\ StoreOK' /\ UnitsOK' /\ CopyOK'
    BY <1>9 DEF Inv, StatusOK, StoreOK, UnitsOK, CopyOK
  <1> QED
    BY <1>4, <1>5, <1>10 DEF Inv

LEMMA CopyDoneInv == Inv /\ CopyDone => Inv'
  <1> SUFFICES ASSUME Inv, CopyDone PROVE Inv'
    OBVIOUS
  <1> USE DEF CopyDone, disk, history
  <1>1. /\ Name \in Names /\ Offsets \in Seq(Nat)
        /\ Name = units[i].file.fileName /\ Offsets = units[i].file.offsets
    BY CurrentTyped DEF Inv, UnitsOK, Name, Offsets, Current
  <1>2. {c \in Live(Offsets) : c < j} = Live(Offsets)
    BY <1>1 DEF Inv, TypeOK, Live
  <1>3. /\ out[Name].exists
        /\ DOMAIN out[Name].blocks = Live(Offsets)
        /\ \A c \in DOMAIN out[Name].blocks :
             out[Name].blocks[c] = IF c \in pass[Name].failed
                                     THEN Patched ELSE Offsets[c]
        /\ pass[Name].mode = RESTORE_ONLY_GOOD => pass[Name].failed = {}
    BY <1>2 DEF Inv, CopyOK
  <1>4. RecordRestored(units[i])
    BY <1>1, <1>3 DEF RecordRestored, Restored
  <1>5. TypeOK'
    BY DEF Inv, TypeOK
  <1>6. StatusOK' /\ ProcessedIsRestored'
    BY SameDisk DEF Inv, StatusOK
  <1>7. StoreOK' /\ UnitsOK' /\ CopyOK'
    BY <1>4 DEF Inv, StoreOK, UnitsOK, CopyOK, RecordRestored
  <1> QED
    BY <1>5, <1>6, <1>7 DEF Inv

LEMMA MarkInv == Inv /\ Mark => Inv'
  <1> SUFFICES ASSUME Inv, Mark PROVE Inv'
    OBVIOUS
  <1> USE DEF Mark, history
  <1>1. /\ i \in DOMAIN status /\ units = status
        /\ status \in Seq(UnitRecord) /\ status[i] \in UnitRecord
    BY CurrentTyped DEF Inv, TypeOK, UnitsOK
  <1> DEFINE marked == [status[i] EXCEPT !.isProcessed = TRUE]
  <1>2. marked \in UnitRecord /\ marked.file = status[i].file /\ marked.isProcessed
    BY <1>1 DEF UnitRecord
  <1>3. units' = [status EXCEPT ![i] = marked]
        /\ status' = [status EXCEPT ![i] = marked]
    BY <1>1
  <1>4. /\ status' \in Seq(UnitRecord) /\ DOMAIN status' = DOMAIN status
        /\ Len(status') = Len(status)
        /\ status'[i] = marked
        /\ \A k \in DOMAIN status : k # i => status'[k] = status[k]
    BY <1>1, <1>2, <1>3, ExceptSeq
  <1>5. TypeOK'
    BY <1>3, <1>4 DEF Inv, TypeOK
  <1>6. \A k \in DOMAIN status' : status'[k].file = status[k].file
    BY <1>2, <1>4
  <1>7. StatusOK'
    BY <1>4, <1>6 DEF Inv, StatusOK
  <1>8. RecordRestored(status[i])
    BY <1>1 DEF Inv, UnitsOK
  <1>9. \A k \in DOMAIN status :
          status[k].isProcessed \/ k = i => RecordRestored(status[k])
    BY <1>8 DEF Inv, ProcessedIsRestored
  <1>10. ProcessedIsRestored'
    BY <1>4, <1>6, <1>9 DEF ProcessedIsRestored, RecordRestored
  <1>11. StoreOK' /\ CopyOK'
    BY <1>4 DEF Inv, StoreOK, CopyOK
  <1>12. UnitsOK'
    BY <1>1, <1>2, <1>3, <1>4 DEF Inv, TypeOK, UnitsOK
  <1> QED
    BY <1>5, <1>7, <1>10, <1>11, <1>12 DEF Inv

-----------------------------------------------------------------------------
(* Faults                                                                  *)

LEMMA FaultInv == Inv /\ (Fault \/ LoadFails) => Inv'
  <1> SUFFICES ASSUME Inv, Fault \/ LoadFails PROVE Inv'
    OBVIOUS
  <1>1. CASE Crash
    BY <1>1, HaltInv, SameDisk DEF Crash, disk, Inv, TypeOK, history
  <1>2. CASE TornStore
    BY <1>2, HaltInv, SameDisk DEF TornStore, Inv, TypeOK, history
  <1>3. CASE LoadFails
    BY <1>3, HaltInv, SameDisk DEF LoadFails, disk, Inv, TypeOK, history
  <1>4. CASE CopyCut
    <2> USE <1>4 DEF CopyCut, history
    <2>1. Name \in Names /\ out[Name] \in OutputFile
      BY CurrentTyped DEF Inv, UnitsOK, TypeOK
    <2>2. Append(out[Name].blocks, Cut) \in Seq(Nat \cup {Cut})
      BY <2>1, AppendProperties DEF OutputFile
    <2> DEFINE cut == [out[Name] EXCEPT !.blocks = Append(@, Cut)]
    <2>3. cut \in OutputFile
      BY <2>1, <2>2 DEF OutputFile
    <2>4. out' = [out EXCEPT ![Name] = cut]
      BY DEF WriteBlock
    <2>5. out' \in [Names -> OutputFile]
          /\ \A n \in Names \ {Name} : out'[n] = out[n]
      BY <2>1, <2>3, <2>4 DEF Inv, TypeOK
    <2>6. ProcessedIsRestored'
      BY <2>5, OutputApart DEF Inv, UnitsOK
    <2> QED
      BY <2>5, <2>6, HaltInv DEF Inv, TypeOK
  <1> QED
    BY <1>1, <1>2, <1>3, <1>4 DEF Fault

-----------------------------------------------------------------------------
(* Theorems                                                                *)

LEMMA StutterInv == Inv /\ UNCHANGED vars => Inv'
  <1> SUFFICES ASSUME Inv, UNCHANGED vars PROVE Inv'
    OBVIOUS
  <1> USE DEF vars, disk, process, history
  <1>1. TypeOK' /\ StatusOK' /\ StoreOK'
    BY DEF Inv, TypeOK, StatusOK, StoreOK
  <1>2. UnitsOK' /\ ProcessedIsRestored'
    BY SameDisk DEF Inv, UnitsOK, RecordRestored
  <1>3. CopyOK'
    BY DEF Inv, CopyOK, Name, Offsets, Current
  <1> QED
    BY <1>1, <1>2, <1>3 DEF Inv

LEMMA NextInv == Inv /\ [Next]_vars => Inv'
  <1>1. Inv /\ Store => Inv'
    BY GetUnitListInv, OpenStoreInv, StoreUnitInv, CloseStoreInv DEF Store
  <1>2. Inv /\ RecoverUnit => Inv'
    BY OpenOutputInv, CopyLostInv, CopyGoodInv, CopyBadBreaksInv,
       CopyBadPatchesInv, CopyDoneInv DEF RecoverUnit
  <1>3. Inv /\ Step => Inv'
    BY <1>1, <1>2, LoadInv, FaultInv, SkipInv, MarkInv, FinishInv DEF Step
  <1> QED
    BY <1>3, LaunchInv, FaultInv, StutterInv DEF Next

LEMMA InvAlways == Spec => []Inv
  BY InitInv, NextInv, PTL DEF Spec

\* Every variable keeps its type; the counters stay within the sequences they
\* index (the application of i and j in process() and _recoverUnit).
THEOREM TypeCorrect == Spec => []TypeOK
  <1>1. Inv => TypeOK
    BY DEF Inv
  <1> QED
    BY <1>1, InvAlways, PTL

\* A marked record always has its output file, exactly as restored, whatever
\* runs, modes, crashes and short writes came before.
THEOREM MarkedRestored == Spec => []ProcessedIsRestored
  <1>1. Inv => ProcessedIsRestored
    BY DEF Inv
  <1> QED
    BY <1>1, InvAlways, PTL

\* process() returns only when every record is marked.
THEOREM ExitIsComplete == Spec => []ExitComplete
  <1>1. Inv => ExitComplete
    BY DEF Inv, UnitsOK, ExitComplete
  <1> QED
    BY <1>1, InvAlways, PTL

\* A -m 0 run that ends normally has enlisted all that the partition listed.
THEOREM StartCovers == Spec => []StartCoversListing
  <1>1. Inv => StartCoversListing
    BY DEF Inv, StoreOK, StartCoversListing
  <1> QED
    BY <1>1, InvAlways, PTL

\* syncMe() never writes back stale data.
THEOREM MemoryFresh == Spec => []MemoryMirrorsStatus
  <1>1. Inv => MemoryMirrorsStatus
    BY DEF Inv, UnitsOK, MemoryMirrorsStatus
  <1> QED
    BY <1>1, InvAlways, PTL

\* The body of FinishedUntouched.
Untouched ==
    \A k \in DOMAIN status :
        status[k].isProcessed /\ status' # <<>> =>
          /\ k \in DOMAIN status' /\ status'[k] = status[k]
          /\ out'[status[k].file.fileName] = out[status[k].file.fileName]

\* A step that writes to the current file's output touches no marked record's.
LEMMA ApartUntouched ==
    ASSUME Inv,
           pc \in {"unit", "copy"}, i <= Len(units), ~units[i].isProcessed,
           status' = status, \A n \in Names \ {Name} : out'[n] = out[n]
    PROVE  Untouched
  <1> SUFFICES ASSUME NEW k \in DOMAIN status, status[k].isProcessed
               PROVE  out'[status[k].file.fileName] = out[status[k].file.fileName]
    BY DEF Untouched
  <1>1. units = status /\ i \in DOMAIN status /\ k # i
    BY CurrentTyped
  <1>2. status[k] \in UnitRecord
    BY DEF Inv, TypeOK
  <1>3. status[k].file.fileName \in Names \ {Name}
    BY <1>1, <1>2
       DEF Inv, StatusOK, Name, Current, UnitRecord, FileInternals
  <1> QED
    BY <1>3

LEMMA NextUntouched == Inv /\ [Next]_vars => Untouched
  <1> SUFFICES ASSUME Inv, [Next]_vars PROVE Untouched
    OBVIOUS
  <1>1. CASE UNCHANGED <<status, out>>
    BY <1>1 DEF Untouched
  <1>2. CASE OpenStore
    BY <1>2 DEF OpenStore, Untouched
  <1>3. CASE StoreUnit
    <2>1. status \in Seq(UnitRecord) /\ status' \in Seq(UnitRecord)
      BY <1>3, StoreUnitInv DEF Inv, TypeOK
    <2>2. \A k \in DOMAIN status : k \in DOMAIN status' /\ status'[k] = status[k]
      BY <1>3, <2>1, AppendProperties DEF StoreUnit
    <2> QED
      BY <1>3, <2>2 DEF StoreUnit, Untouched
  <1>4. CASE OpenOutput
    <2>1. \A n \in Names \ {Name} : out'[n] = out[n]
      BY <1>4 DEF OpenOutput, Inv, TypeOK
    <2> QED
      BY <1>4, <2>1, ApartUntouched DEF OpenOutput
  <1>5. CASE CopyGood \/ CopyBadPatches \/ CopyCut
    <2>1. \A n \in Names \ {Name} : out'[n] = out[n]
      BY <1>5 DEF CopyGood, CopyBadPatches, CopyCut, WriteBlock, Inv, TypeOK
    <2>2. pc = "copy" /\ status' = status
      BY <1>5 DEF CopyGood, CopyBadPatches, CopyCut
    <2> QED
      BY <2>1, <2>2, ApartUntouched DEF Inv, UnitsOK
  <1>6. CASE Mark
    <2>1. i \in DOMAIN status /\ units = status /\ ~status[i].isProcessed
          /\ status \in Seq(UnitRecord)
      BY <1>6, CurrentTyped DEF Mark, Inv, TypeOK, UnitsOK
    <2>2. DOMAIN status' = DOMAIN status
          /\ \A k \in DOMAIN status : k # i => status'[k] = status[k]
      BY <1>6, <2>1 DEF Mark
    <2> QED
      BY <1>6, <2>1, <2>2 DEF Mark, Untouched
  <1> QED
    BY <1>1, <1>2, <1>3, <1>4, <1>5, <1>6
       DEF Next, Launch, Step, Store, RecoverUnit, Fault, Start, Continue,
           GetUnitList, CloseStore, Load, LoadFails, Skip, CopyLost,
           CopyBadBreaks, CopyDone, Finish, Crash, TornStore, vars, disk

\* No step undoes or redoes what the status file records as finished.
THEOREM FinishedStays == Spec => FinishedUntouched
  <1>1. Inv /\ [Next]_vars => [Untouched]_vars
    BY NextUntouched
  <1>2. Spec => [][Untouched]_vars
    BY <1>1, InvAlways, PTL DEF Spec
  <1> QED
    BY <1>2 DEF FinishedUntouched, Untouched

-----------------------------------------------------------------------------
(* The refinement: a step of bbcp is a step of the promise, or none        *)

\* The promise sees nothing but the records and the outputs of marked ones.
LEMMA PromisedSame ==
    ASSUME status' = status, Untouched
    PROVE  Promised' = Promised
  <1>1. \A k \in DOMAIN status :
           IF status[k].isProcessed
             THEN out'[status[k].file.fileName] = out[status[k].file.fileName]
             ELSE TRUE
    <2> SUFFICES ASSUME NEW k \in DOMAIN status, status[k].isProcessed
                 PROVE  out'[status[k].file.fileName] = out[status[k].file.fileName]
      OBVIOUS
    <2>1. status # <<>>
      OBVIOUS
    <2> QED BY <2>1 DEF Untouched
  <1> QED BY <1>1 DEF Promised

\* A record that store() appends is a job enlisted, for a file of the listing
\* that no record names yet.
LEMMA StoreUnitEnlists ==
    ASSUME Inv, StoreUnit
    PROVE  \E file \in UNION {{l[k] : k \in DOMAIN l} : l \in Listings} :
              Promise!Enlist(file)
  <1> DEFINE n == Len(status) + 1
             file == todo[n]
             record == [file |-> file, isProcessed |-> FALSE]
  <1>1. /\ todo \in Listings /\ todo \in Seq(FileInternals)
        /\ status \in Seq(UnitRecord) /\ n \in DOMAIN todo
        /\ status' = Append(status, record)
        /\ \A k \in DOMAIN status : status[k].file = todo[k]
    BY DEF StoreUnit, Inv, StoreOK, TypeOK
  <1>2. DistinctNames(todo)
    BY <1>1, ListingsAssumption
  <1>3. \A k \in DOMAIN status : k \in DOMAIN todo /\ k # n
    BY <1>1 DEF Inv, StoreOK, StoreUnit
  <1>4. \A k \in DOMAIN Promised : Promised[k].file.fileName # file.fileName
    BY <1>1, <1>2, <1>3 DEF DistinctNames, Promised
  <1>5. /\ Len(status') = n /\ status' \in Seq(UnitRecord)
        /\ status'[n] = record
        /\ \A k \in DOMAIN status : status'[k] = status[k]
    <2>1. record \in UnitRecord
      BY <1>1 DEF UnitRecord
    <2> QED BY <1>1, <2>1, AppendProperties
  <1>6. out' = out
    BY DEF StoreUnit
  <1>7. Promised' = Append(Promised, [file |-> file, done |-> FALSE, blocks |-> <<>>])
    <2> DEFINE Job(s, k) ==
                 [file |-> s[k].file, done |-> s[k].isProcessed,
                  blocks |-> IF s[k].isProcessed
                               THEN out[s[k].file.fileName].blocks ELSE <<>>]
    <2>1. Promised = [k \in 1 .. Len(status) |-> Job(status, k)]
      BY <1>1 DEF Promised
    <2>2. Promised' = [k \in 1 .. n |-> Job(status', k)]
      BY <1>5, <1>6 DEF Promised
    <2>3. Job(status', n) = [file |-> file, done |-> FALSE, blocks |-> <<>>]
      BY <1>5
    <2>4. \A k \in 1 .. Len(status) : Job(status', k) = Job(status, k)
      BY <1>1, <1>5
    <2> HIDE DEF Job
    <2>5. Len(status) \in Nat
      BY <1>1
    <2> QED BY <2>1, <2>2, <2>3, <2>4, <2>5
  <1>8. file \in UNION {{l[k] : k \in DOMAIN l} : l \in Listings}
    BY <1>1
  <1> QED BY <1>4, <1>7, <1>8 DEF Promise!Enlist

\* What is in the output of a file whose restore ended is a delivery of it.
LEMMA RestoredIsDelivery ==
    ASSUME Inv, NEW offs \in Seq(Nat), NEW p, NEW blocks \in Seq(Nat \cup {Cut}),
           Restored(offs, p, blocks)
    PROVE  blocks \in Promise!Contents(offs)
  <1> DEFINE n == Len(blocks)
  <1>1. DOMAIN blocks = 1 .. n /\ n \in Nat
    OBVIOUS
  <1>2. \A c \in 1 .. n : c \in DOMAIN offs /\ blocks[c] \in {offs[c], Patched}
    BY <1>1 DEF Restored, Live
  <1>3. n \in 0 .. Len(offs)
    BY <1>1, <1>2
  <1>4. blocks \in [1 .. n -> {offs[c] : c \in 1 .. n} \cup {Patched}]
    BY <1>1, <1>2
  <1> QED BY <1>2, <1>3, <1>4 DEF Promise!Contents

\* Marking a record delivers its job.
LEMMA MarkDelivers ==
    ASSUME Inv, Mark
    PROVE  \E k \in DOMAIN Promised : Promise!Deliver(k)
  <1>1. /\ i \in DOMAIN status /\ units = status /\ units[i] \in UnitRecord
        /\ ~status[i].isProcessed /\ RecordRestored(status[i])
        /\ status \in Seq(UnitRecord)
    BY CurrentTyped DEF Mark, Inv, UnitsOK, TypeOK
  <1>2. /\ status' = [status EXCEPT ![i] = [status[i] EXCEPT !.isProcessed = TRUE]]
        /\ out' = out
    BY <1>1 DEF Mark
  <1> DEFINE file == status[i].file
             blocks == out[file.fileName].blocks
  <1>3. /\ file.offsets \in Seq(Nat) /\ file.fileName \in Names
        /\ blocks \in Seq(Nat \cup {Cut})
    BY <1>1 DEF UnitRecord, FileInternals, Inv, TypeOK, OutputFile
  <1>4. blocks \in Promise!Contents(file.offsets)
    BY <1>1, <1>3, RestoredIsDelivery DEF RecordRestored
  <1>5. i \in DOMAIN Promised /\ ~Promised[i].done /\ Promised[i].file = file
    BY <1>1 DEF Promised
  <1>6. Promised' = [Promised EXCEPT ![i] = [@ EXCEPT !.done = TRUE, !.blocks = blocks]]
    BY <1>1, <1>2 DEF Promised, UnitRecord
  <1> QED BY <1>4, <1>5, <1>6 DEF Promise!Deliver

LEMMA NextPromised == Inv /\ [Next]_vars => [Promise!Next]_Promised
  <1> SUFFICES ASSUME Inv, [Next]_vars PROVE [Promise!Next]_Promised
    OBVIOUS
  <1>1. CASE status' = status
    BY <1>1, NextUntouched, PromisedSame
  <1>2. CASE OpenStore
    <2>1. Promised' = <<>>
      BY <1>2 DEF OpenStore, Promised
    <2> QED BY <2>1 DEF Promise!Next, Promise!NewBatch
  <1>3. CASE StoreUnit
    BY <1>3, StoreUnitEnlists DEF Promise!Next
  <1>4. CASE Mark
    BY <1>4, MarkDelivers DEF Promise!Next
  <1> QED
    BY <1>1, <1>2, <1>3, <1>4
       DEF Next, Launch, Step, Store, RecoverUnit, Fault, Start, Continue,
           GetUnitList, CloseStore, Load, LoadFails, Skip, OpenOutput, CopyLost,
           CopyGood, CopyBadBreaks, CopyBadPatches, CopyCut, CopyDone, Finish,
           Crash, TornStore, vars, disk

\* Over any sequence of runs, modes, crashes and short writes, bbcp is a
\* restore that was never interrupted: every file enlisted once, delivered at
\* most once, never altered after that, no cluster out of its place.
THEOREM KeepsPromise == Spec => Implements
  <1>1. Init => Promise!Init
    BY DEF Init, Promise!Init, Promised
  <1>2. Inv /\ [Next]_vars => [Promise!Next]_Promised
    BY NextPromised
  <1> QED
    BY <1>1, <1>2, InvAlways, PTL DEF Spec, Implements, Promise!Spec
=============================================================================
