----------------------------- MODULE StatusFile -----------------------------
(***************************************************************************)
(* The status file as UnitStorage and Marshal handle it: cells written by  *)
(* store(), mapped by _initMmap(), parsed record by record by load(), and  *)
(* overwritten in place by Unit::syncMe().  Recovery speaks of whole       *)
(* records; here they are what the cells say.                              *)
(*                                                                         *)
(* A cell stands for one or more bytes that are written together: a        *)
(* character of a name, its NUL, one of the two digits that stand for the  *)
(* eight of the size_t element count, the offset or the size field of an   *)
(* element, the flag.  Addresses are 0-based; the mapping reads as zero    *)
(* from the end of the file to the end of its page, and faults beyond.     *)
(***************************************************************************)
EXTENDS Integers, Sequences, SequencesExt

CONSTANTS
    Batches,    \* unit lists that store() may be given
    Base,       \* values of a count digit
    PageSize    \* cells per page of the mapping

\* Names hold no NUL, and counts fit in two digits.
ASSUME CellAssumption ==
    /\ Base \in Nat \ {0, 1} /\ PageSize \in Nat \ {0}
    /\ \A batch \in Batches :
         /\ batch \in Seq([name : Seq(Nat \ {0}), offsets : Seq([offset : Nat, size : Nat])])
         /\ \A k \in DOMAIN batch : Len(batch[k].offsets) < Base * Base

-----------------------------------------------------------------------------
(* Marshal                                                                 *)

MarshalString(name) == Append(name, 0)

MarshalOffsets(offsets) ==
    <<Len(offsets) % Base, Len(offsets) \div Base>> \o
    [c \in 1 .. 2 * Len(offsets) |->
        LET element == offsets[(c + 1) \div 2]
        IN  IF c % 2 = 1 THEN element.offset ELSE element.size]

MarshalFileInternals(fi) ==
    MarshalString(fi.name) \o MarshalOffsets(fi.offsets)

MarshalBool(flag) == <<IF flag THEN 1 ELSE 0>>

\* Unit::marshal.
MarshalUnit(unit) ==
    MarshalFileInternals(unit) \o MarshalBool(unit.isProcessed)

-----------------------------------------------------------------------------
VARIABLES
    file,       \* the cells of the status file
    phase,      \* "off", "store", "load", "loaded"
    batch,      \* what store() still has to write
    size,       \* m_storeFileSize
    off,        \* load()'s offset
    units,      \* the units loaded so far, each with the offset it was read at
    records,    \* history: the records completely written, with their marks
    torn        \* history: a record was cut short after them

vars == <<file, phase, batch, size, off, units, records, torn>>

Init ==
    /\ file = <<>> /\ phase = "off" /\ batch = <<>>
    /\ size = 0 /\ off = 0 /\ units = <<>>
    /\ records = <<>> /\ torn = FALSE

Die ==
    /\ phase' = "off"
    /\ batch' = <<>> /\ units' = <<>>
    /\ size' = 0 /\ off' = 0

New(fi) == [name |-> fi.name, offsets |-> fi.offsets, isProcessed |-> FALSE]

-----------------------------------------------------------------------------
(* UnitStorage::store                                                      *)

OpenStore ==
    /\ phase = "off"
    /\ phase' = "store"
    /\ batch' \in Batches
    /\ file' = <<>> /\ records' = <<>> /\ torn' = FALSE
    /\ UNCHANGED <<size, off, units>>

WriteUnit ==
    /\ phase = "store" /\ batch # <<>>
    /\ file' = file \o MarshalUnit(New(Head(batch)))
    /\ records' = Append(records, New(Head(batch)))
    /\ batch' = Tail(batch)
    /\ UNCHANGED <<phase, size, off, units, torn>>

\* A write that stops after some of the record's cells; the process dies.
WriteCut ==
    /\ phase = "store" /\ batch # <<>>
    /\ \E n \in 1 .. Len(MarshalUnit(New(Head(batch)))) - 1 :
         file' = file \o SubSeq(MarshalUnit(New(Head(batch))), 1, n)
    /\ torn' = TRUE
    /\ Die
    /\ UNCHANGED records

CloseStore ==
    /\ phase = "store" /\ batch = <<>>
    /\ phase' = "off"
    /\ UNCHANGED <<file, batch, size, off, units, records, torn>>

-----------------------------------------------------------------------------
(* UnitStorage::init and load                                              *)

\* _initMmap; mmap refuses a length of 0 and init throws.
InitMmap ==
    /\ phase = "off" /\ file # <<>>
    /\ phase' = "load"
    /\ size' = Len(file)
    /\ UNCHANGED <<file, batch, off, units, records, torn>>

MapEnd == ((size + PageSize - 1) \div PageSize) * PageSize

Cell(at) == IF at < Len(file) THEN file[at + 1] ELSE 0

\* Where the string that starts at "at" ends; MapEnd if it runs off the map.
Nul(at) ==
    CHOOSE k \in at .. MapEnd :
        /\ k = MapEnd \/ Cell(k) = 0
        /\ \A l \in at .. k - 1 : Cell(l) # 0

CountAt(at) == Cell(Nul(at) + 1) + Base * Cell(Nul(at) + 2)

FirstElement(at) == Nul(at) + 3

FlagAt(at) == FirstElement(at) + 2 * CountAt(at)

\* Unmarshalling at "at" touches no address beyond the map.
Mapped(at) == FirstElement(at) <= MapEnd /\ FlagAt(at) < MapEnd

\* unmarshalFileInternals and unmarshalUnitInternals.
Unmarshal(at) ==
    [name |-> [c \in 1 .. Nul(at) - at |-> Cell(at + c - 1)],
     offsets |-> [e \in 1 .. CountAt(at) |->
                    [offset |-> Cell(FirstElement(at) + 2 * (e - 1)),
                     size |-> Cell(FirstElement(at) + 2 * (e - 1) + 1)]],
     isProcessed |-> Cell(FlagAt(at)) # 0]

LoadUnitSkips ==                                                \* mutant
    /\ phase = "load" /\ off # size /\ off < MapEnd /\ Mapped(off)
    /\ ~Unmarshal(off).isProcessed
    /\ units' = Append(units, [unit |-> Unmarshal(off), at |-> off])
    /\ off' = FlagAt(off) + 1
    /\ UNCHANGED <<file, phase, batch, size, records, torn>>

\* The loop runs while m_storeFileSize - off, an unsigned number, is not 0.
LoadUnit ==
    /\ phase = "load" /\ off # size /\ off < MapEnd /\ Mapped(off)
    /\ units' = Append(units, [unit |-> Unmarshal(off), at |-> off])
    /\ off' = FlagAt(off) + 1
    /\ UNCHANGED <<file, phase, batch, size, records, torn>>

\* The next record does not lie within the map: the process is killed by the
\* access.
LoadFaults ==
    /\ phase = "load" /\ off # size
    /\ off >= MapEnd \/ ~Mapped(off)
    /\ Die
    /\ UNCHANGED <<file, records, torn>>

LoadDoneBeyond ==                                               \* mutant
    /\ phase = "load" /\ off >= size
    /\ phase' = "loaded"
    /\ UNCHANGED <<file, batch, size, off, units, records, torn>>

LoadDone ==
    /\ phase = "load" /\ off = size
    /\ phase' = "loaded"
    /\ UNCHANGED <<file, batch, size, off, units, records, torn>>

-----------------------------------------------------------------------------
(* Unit::setProcessed and syncMe                                           *)

\* memcpy of cells into the map.
Overwrite(at, cells) ==
    [c \in DOMAIN file |->
        IF c - at \in DOMAIN cells THEN cells[c - at] ELSE file[c]]

Marked(k) == [units[k].unit EXCEPT !.isProcessed = TRUE]

SyncUnitShifted(k) ==                                           \* mutant
    /\ phase = "loaded" /\ ~units[k].unit.isProcessed
    /\ units' = [units EXCEPT ![k].unit = Marked(k)]
    /\ file' = Overwrite(units[k].at + 1, MarshalUnit(Marked(k)))
    /\ records' = [records EXCEPT ![k].isProcessed = TRUE]
    /\ UNCHANGED <<phase, batch, size, off, torn>>

SyncUnit(k) ==
    /\ phase = "loaded" /\ ~units[k].unit.isProcessed
    /\ units' = [units EXCEPT ![k].unit = Marked(k)]
    /\ file' = Overwrite(units[k].at, MarshalUnit(Marked(k)))
    /\ records' = [records EXCEPT ![k].isProcessed = TRUE]
    /\ UNCHANGED <<phase, batch, size, off, torn>>

\* Killed in the middle of the memcpy, before the flag.
SyncCut(k) ==
    /\ phase = "loaded" /\ ~units[k].unit.isProcessed
    /\ \E n \in 0 .. Len(MarshalUnit(Marked(k))) - 1 :
         file' = Overwrite(units[k].at, SubSeq(MarshalUnit(Marked(k)), 1, n))
    /\ Die
    /\ UNCHANGED <<records, torn>>

Exit ==
    /\ phase # "off"
    /\ Die
    /\ UNCHANGED <<file, records, torn>>

Next ==
    \/ OpenStore \/ WriteUnit \/ WriteCut \/ CloseStore
    \/ InitMmap \/ LoadUnit \/ LoadFaults \/ LoadDone
    \/ \E k \in DOMAIN units : SyncUnit(k) \/ SyncCut(k)
    \/ Exit

Spec == Init /\ [][Next]_vars /\ WF_vars(LoadUnit \/ LoadFaults \/ LoadDone)

-----------------------------------------------------------------------------
(* Properties                                                              *)

\* The file holds cells, the counters stay within the file and its map, and
\* what is loaded lies within the map.
TypeOK ==
    /\ \A c \in DOMAIN file : file[c] \in Nat
    /\ phase \in {"off", "store", "load", "loaded"}
    /\ size \in {0, Len(file)}
    /\ off \in 0 .. MapEnd
    /\ \A k \in DOMAIN units : units[k].at < MapEnd
    /\ torn \in BOOLEAN

Image(recs) == FlattenSeq([k \in DOMAIN recs |-> MarshalUnit(recs[k])])

\* The file is the image of the records written, with their marks, and of
\* nothing else but the beginning of a record that was cut: a whole-record
\* memcpy, even one that is killed half-way, changes no cell but the flag.
FileIsImage ==
    /\ IsPrefix(Image(records), file)
    /\ torn \/ phase = "store" \/ file = Image(records)

\* load() returns exactly the records that were written, with the marks that
\* were synced, in whatever process; over a cut record it never returns, since
\* off steps over size and the unsigned difference does not become 0.
LoadIsExact ==
    phase = "loaded" =>
        /\ ~torn
        /\ [k \in DOMAIN units |-> units[k].unit] = records

\* load() ends, if only by running off the map.
LoadEnds == phase = "load" ~> phase # "load"

\* The state is well-formed and the file is that image.
FileSound == TypeOK /\ FileIsImage
=============================================================================
