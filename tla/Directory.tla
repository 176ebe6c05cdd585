----------------------------- MODULE Directory ------------------------------
(***************************************************************************)
(* How libexfat changes directories: exfat_mknod, exfat_mkdir,             *)
(* exfat_unlink, exfat_rmdir, exfat_rename and exfat_set_label (node.c),   *)
(* with the lookups that lead there (lookup.c), the flush of a directory's *)
(* own entry, unmount, and the mount that reads it all back.               *)
(*                                                                         *)
(* A directory is a sequence of slots in clusters of SLOTS.  A file is a   *)
(* set of them: FILE, INFO, and one or more NAMEs, written one by one.     *)
(* Any write may fail, and the process may die between any two.  Clusters  *)
(* as such are the subject of Allocation: here a directory grows and       *)
(* shrinks by whole steps that succeed or fail.                            *)
(***************************************************************************)
EXTENDS Integers, Sequences, FiniteSets, SequencesExt

CONSTANTS
    Root,
    Ids,            \* nodes other than the root
    Folders,        \* those of them that are directories
    Names,
    Pieces,         \* [Names -> NAME entries of the name]
    Labels,         \* labels other than the empty one
    SLOTS,          \* entries in a cluster
    Volumes,        \* what stands on the medium to begin with
    MaxClusters,    \* bound: clusters of a directory
    MaxCalls,       \* bound: calls of the client
    MaxFaults       \* bound: accesses that fail, and deaths of the process

None == "none"
Directories == Folders \cup {Root}
Nodes == Ids \cup {Root}

ASSUME DirectoryAssumption ==
    /\ Folders \subseteq Ids /\ Root \notin Ids /\ None \notin Nodes
    /\ None \notin Names \cup Labels
    /\ Pieces \in [Names -> Nat \ {0}]
    /\ SLOTS \in Nat \ {0} /\ MaxClusters \in Nat \ {0}
    /\ MaxCalls \in Nat /\ MaxFaults \in Nat

VARIABLES
    slots,          \* [Directories -> the slots of its clusters, on the medium]
    mounted,
    node,           \* [Nodes -> exfat_node, or NoNode]
    refs,           \* [Nodes -> references]
    label,          \* ef->label
    op,             \* the call that runs
    held,           \* nodes the client has a reference of
    calls,
    faults,
    tree,           \* history: [Ids -> where the node was seen last]
    doubt,          \* history: nodes that an interrupted call was changing
    torn,           \* history: directories that it was writing to
    retried,        \* history: a node that is not in its place was used again
    moved           \* history: directories a rename has grown, not flushed since

memory == <<mounted, node, refs, label, held>>
history == <<tree, doubt, torn, retried, moved>>
vars == <<slots, memory, op, calls, faults, history>>

Slot(t, id, name, size, i) == [t |-> t, id |-> id, name |-> name, size |-> size, i |-> i]
Free == Slot("free", None, None, 0, 0)
LabelSlot(text) == IF text = None THEN Free ELSE Slot("label", None, text, 0, 0)

SlotType == [t : {"free", "file", "info", "name", "label"}, id : Ids \cup {None},
             name : Names \cup Labels \cup {None}, size : 0 .. MaxClusters, i : Nat]

\* The FILE entry has the number of continuations, and a checksum over all of
\* the set: what it stands for is the name and the INFO entry's content.
FileSlot(id, name, size) == Slot("file", id, name, size, 1 + Pieces[name])
InfoSlot(id, size) == Slot("info", id, None, size, 0)
NameSlot(name, i) == Slot("name", None, name, 0, i)
Entries(name) == 2 + Pieces[name]
SetOf(id, name, size) ==
    <<FileSlot(id, name, size), InfoSlot(id, size)>> \o
        [i \in 1 .. Pieces[name] |-> NameSlot(name, i)]

NoNode == [state |-> "absent"]
NodeAt(d, pos, name, size, cached) ==
    [state |-> "linked", parent |-> d, name |-> name, at |-> d, pos |-> pos,
     size |-> size, cached |-> cached, dirty |-> FALSE]
RootNode(size) == NodeAt(None, 0, None, size, TRUE)
Nowhere == <<None, None>>
Idle == [pc |-> "idle"]

-----------------------------------------------------------------------------
(* Reading a directory: what ReadDir shows of readdir, for sets as they are *)
(* written here.                                                            *)

WholeAt(s, p) ==
    /\ s[p].t = "file"
    /\ LET set == SetOf(s[p].id, s[p].name, s[p].size)
       IN  /\ p + Len(set) - 1 <= Len(s)
           /\ SubSeq(s, p, p + Len(set) - 1) = set

Covered(s, p) == \E q \in 1 .. p : WholeAt(s, q) /\ p < q + Entries(s[q].name)

\* Every entry that is not free belongs to a set that is whole.
WellFormed(s) ==
    \A p \in DOMAIN s : s[p].t \in {"file", "info", "name"} => Covered(s, p)

\* To begin with there is a tree of two levels: each set of entries is whole, no
\* node has two, and directories are as long as their entries say.
SoundVolume(v) ==
    /\ v \in [Directories -> Seq(SlotType)]
    /\ \A d \in Directories :
         /\ Len(v[d]) % SLOTS = 0 /\ Len(v[d]) <= MaxClusters * SLOTS
         /\ WellFormed(v[d])
         /\ \A p \in DOMAIN v[d] :
              /\ v[d][p].t = "label" => v[d][p].name \in Labels
              /\ v[d][p].t = "file" =>
                   /\ v[d][p].id \in Ids /\ v[d][p].name \in Names
                   /\ v[d][p].id \in Folders => d = Root
                   /\ \A e \in Directories : \A q \in DOMAIN v[e] :
                        v[e][q].t = "file" /\ v[e][q].id = v[d][p].id => e = d /\ q = p
    /\ v[Root] # <<>>
    /\ \A d \in Folders :
         v[d] = <<>> \/ \E p \in DOMAIN v[Root] :
             v[Root][p].t = "file" /\ v[Root][p].id = d /\ Len(v[d]) = v[Root][p].size * SLOTS

ASSUME VolumesAssumption == \A v \in Volumes : SoundVolume(v)

\* The size of a directory is that of its INFO entry, if the chain is as long;
\* the root's is that of its chain.
Visible(d, size) == SubSeq(slots[d], 1, size * SLOTS)
Readable(d, size) ==
    size > 0 /\ size * SLOTS <= Len(slots[d]) /\ WellFormed(Visible(d, size))
RootSize == Len(slots[Root]) \div SLOTS

ChildrenIn(d, size) ==
    IF ~Readable(d, size) THEN {}
    ELSE {[id |-> slots[d][p].id, dir |-> d, pos |-> p, name |-> slots[d][p].name,
           size |-> slots[d][p].size] : p \in {q \in 1 .. size * SLOTS : slots[d][q].t = "file"}}

\* The nodes a mount finds; directories are one level deep.
Found ==
    LET top == ChildrenIn(Root, RootSize)
    IN  top \cup UNION {ChildrenIn(c.id, c.size) : c \in {x \in top : x.id \in Folders}}

NodesFound ==
    [n \in Nodes |->
        IF n = Root THEN RootNode(RootSize)
        ELSE IF \A c \in Found : c.id # n THEN NoNode
        ELSE LET c == CHOOSE x \in Found : x.id = n
             IN  NodeAt(c.dir, c.pos, c.name, c.size,
                        n \in Folders /\ Readable(n, c.size))]

LabelFound ==
    LET at == {p \in DOMAIN slots[Root] : slots[Root][p].t = "label"}
    IN  IF at = {} THEN None ELSE slots[Root][CHOOSE p \in at : \A q \in at : p >= q].name

Place(n) == IF node[n].state = "linked" THEN <<node[n].parent, node[n].name>> ELSE Nowhere

Init ==
    /\ slots \in Volumes
    /\ mounted = TRUE
    /\ node = NodesFound
    /\ refs = [n \in Nodes |-> 0]
    /\ label = LabelFound
    /\ op = Idle /\ held = {}
    /\ calls = 0 /\ faults = 0
    /\ tree = [n \in Ids |-> Place(n)]
    /\ doubt = {} /\ torn = {} /\ retried = FALSE /\ moved = {}

-----------------------------------------------------------------------------
(* Lookups and references                                                  *)

Linked == {n \in Ids : node[n].state = "linked"}
Children(d) == {n \in Linked : node[n].parent = d}
CanEnter(d) == node[d].state = "linked" /\ node[d].cached

\* exfat_lookup: the node of a path.  It is one step: what lookup_name, exfat_lookup
\* and exfat_split get of the nodes that they pass by, they put before they return.
Lookup(d, name) == IF CanEnter(d) THEN {n \in Children(d) : node[n].name = name} ELSE {}

Get(S) == [n \in Nodes |-> refs[n] + (IF n \in S THEN 1 ELSE 0)]
Put(S) == [n \in Nodes |-> refs[n] - (IF n \in S THEN 1 ELSE 0)]

\* The same node may be got, and is then put, more than once.
Count(so) == IF so THEN 1 ELSE 0
GetAll(a, b, c) == [x \in Nodes |-> refs[x] + Count(x = a) + Count(x = b) + Count(x = c)]
PutAll(a, b, c) == [x \in Nodes |-> refs[x] - Count(x = a) - Count(x = b) - Count(x = c)]

Call == mounted /\ op.pc = "idle" /\ calls < MaxCalls /\ calls' = calls + 1
CanFault == faults < MaxFaults
Outcomes == IF CanFault THEN {TRUE, FALSE} ELSE {FALSE}

\* n is the node the call is about, d the directory it goes to, victim the node
\* that is deleted, ok whether the call succeeded so far.
Running(pc, kind, n, d, name, victim) ==
    [pc |-> pc, kind |-> kind, node |-> n, dir |-> d, name |-> name,
     victim |-> victim, pos |-> 0, k |-> 0, ok |-> TRUE, grew |-> FALSE,
     meta |-> <<Free, Free>>, flush |-> None, stage |-> None]

\* The nodes whose sets are being written, and the directories that may not be
\* readable for as long as that lasts.
Erased == IF op.stage = "delete" THEN op.victim ELSE op.node
Changing ==
    CASE op.pc \in {"erase", "detach"} -> {Erased}
      [] op.pc \in {"write", "attach"} -> {op.node} \cap Ids
      [] op.pc \in {"flush1", "flush2"} -> {op.flush} \cap Ids
      [] OTHER -> {}
WritingTo ==
    IF op.pc \in {"idle", "aborted", "unmount", "split"} \/ op.kind = "label" THEN {}
    ELSE ({op.flush, op.dir} \cup {node[n].at : n \in {m \in Changing : node[m].state # "absent"}}
            \cup (IF op.kind = "mkdir" THEN {op.node} ELSE {})) \cap Directories

\* Directories whose INFO entry does not have their size yet.
SlotAt(d, p) == IF p \in DOMAIN slots[d] THEN slots[d][p] ELSE Free
InfoSize(d) == SlotAt(node[d].at, node[d].pos + 1).size
Behind == {d \in Folders : node[d].state = "linked" /\ node[d].size # InfoSize(d)}

Fault(fails) ==
    /\ faults' = faults + Count(fails)
    /\ doubt' = IF fails THEN doubt \cup Changing ELSE doubt
    /\ torn' = IF fails THEN torn \cup WritingTo ELSE torn
NoFault == UNCHANGED <<faults, doubt, torn>>

\* The set of a node, its size aside, is where the node says it is.
InPlace(n) ==
    LET set == SetOf(n, node[n].name, 0)
    IN  /\ node[n].at = node[n].parent
        /\ \A k \in DOMAIN set :
             [SlotAt(node[n].at, node[n].pos + k - 1) EXCEPT !.size = 0] = set[k]
Use(S) == retried' = (retried \/ \E n \in S \cap Linked : ~InPlace(n))

-----------------------------------------------------------------------------
(* The calls of the client                                                 *)

\* exfat_split, when it succeeds: the directory, and the node that has the name.
Existing(d, name) == IF Lookup(d, name) = {} THEN {None} ELSE Lookup(d, name)

\* exfat_mknod and exfat_mkdir, up to create's exfat_split; n is the node that will
\* be made.  Where exfat_split fails, it has put all that it got.
Create(d, name, n) ==
    /\ Call /\ CanEnter(d)
    /\ node[n] = NoNode /\ tree[n] = Nowhere /\ n \notin doubt
    /\ n \in Folders => d = Root
    /\ \E existing \in Existing(d, name) :
         /\ op' = Running("split", IF n \in Folders THEN "mkdir" ELSE "mknod", n, d, name,
                          existing)
         /\ refs' = GetAll(d, None, existing)
    /\ UNCHANGED <<slots, mounted, node, label, held, faults, history>>

Creating ==
    /\ op.pc = "split" /\ op.kind # "rename"
    /\ IF op.victim = None THEN op' = [op EXCEPT !.pc = "slot"] /\ UNCHANGED refs
       ELSE op' = Idle /\ refs' = PutAll(op.victim, op.dir, None)     \* EEXIST
    /\ UNCHANGED <<slots, mounted, node, label, held, calls, faults, history>>

\* A path that names nothing below the root is "impossible" to exfat_split.
SplitRoot ==
    /\ Call
    /\ op' = [pc |-> "aborted", path |-> Root]
    /\ UNCHANGED <<slots, memory, faults, history>>

\* exfat_unlink and exfat_rmdir, with the reference of the lookup and, in
\* delete, that of the parent.
Delete(n) ==
    /\ Call /\ n \in Linked /\ CanEnter(node[n].parent)
    /\ n \in Folders => node[n].cached /\ Children(n) = {}
    /\ op' = [Running("erase", "delete", None, node[n].parent, None, n) EXCEPT !.stage = "delete"]
    /\ refs' = [Get({n}) EXCEPT ![node[n].parent] = @ + 1]
    /\ Use({n})
    /\ UNCHANGED <<slots, mounted, node, label, held, faults, tree, doubt, torn, moved>>

\* What exfat_rename makes of a node that has the new name already.
Replaceable(n, existing) ==
    /\ existing \in Folders <=> n \in Folders
    /\ existing \in Folders => node[existing].cached /\ Children(existing) = {}

\* exfat_rename, up to its exfat_split.  bound: a directory is not moved into
\* another one, since the tree has two levels.
Renamed(n) == n = Root \/ (n \in Linked /\ CanEnter(node[n].parent))
Rename(n, d, name) ==
    /\ Call /\ Renamed(n) /\ CanEnter(d)
    /\ n \in Folders => d \in {Root, n}
    /\ \E existing \in Existing(d, name) :
         /\ op' = Running("split", "rename", n, d, name, existing)
         /\ refs' = GetAll(n, d, existing)
    /\ UNCHANGED <<slots, mounted, node, label, held, faults, history>>

\* There is no such directory, or the name is not allowed.
RenameNowhere(n) ==
    /\ Call /\ Renamed(n)
    /\ op' = Running("split", "rename", n, None, None, None)
    /\ refs' = Get({n})
    /\ UNCHANGED <<slots, mounted, node, label, held, faults, history>>

\* The target is the source or below it.
IntoItself == op.dir # None /\ op.node \in {op.dir, Root}

RenameRefusedKeepsExisting ==   \* mutant: the node that has the name is not put
    /\ op.pc = "split" /\ op.kind = "rename"
    /\ \/ op.dir = None /\ refs' = Put({op.node})
       \/ IntoItself /\ refs' = PutAll(None, op.dir, op.node)
    /\ op' = Idle
    /\ UNCHANGED <<slots, mounted, node, label, held, calls, faults, history>>

RenameRefused ==
    /\ op.pc = "split" /\ op.kind = "rename"
    /\ \/ op.dir = None /\ refs' = Put({op.node})
       \/ IntoItself /\ refs' = PutAll(op.victim, op.dir, op.node)
    /\ op' = Idle
    /\ UNCHANGED <<slots, mounted, node, label, held, calls, faults, history>>

\* A node that has the new name already goes first, unless it is the same one.
RenameGoesOn ==
    /\ op.pc = "split" /\ op.kind = "rename" /\ op.dir # None /\ ~IntoItself
    /\ \/ /\ op.victim = None
          /\ op' = [op EXCEPT !.pc = "slot"]
          /\ UNCHANGED refs
       \/ /\ op.victim = op.node
          /\ op' = [op EXCEPT !.pc = "slot", !.victim = None]
          /\ refs' = Put({op.victim})
       \/ /\ op.victim \notin {None, op.node} /\ Replaceable(op.node, op.victim)
          /\ op' = [op EXCEPT !.pc = "erase", !.stage = "delete"]
          /\ refs' = Get({op.dir})
       \/ /\ op.victim \notin {None, op.node} /\ ~Replaceable(op.node, op.victim)
          /\ op' = [op EXCEPT !.pc = "deleted", !.ok = FALSE]
          /\ UNCHANGED refs
    /\ Use({op.node, op.victim})
    /\ UNCHANGED <<slots, mounted, node, label, held, calls, faults, tree, doubt, torn, moved>>

\* exfat_set_label: in the place of the old one, or in a free slot.
SetLabel(text) ==
    /\ Call
    /\ LET at == {p \in 1 .. node[Root].size * SLOTS : slots[Root][p].t = "label"}
       IN  op' = IF at = {} THEN Running("slot", "label", None, Root, text, None)
                 ELSE [Running("write", "label", None, Root, text, None)
                          EXCEPT !.pos = CHOOSE p \in at : \A q \in at : p <= q]
    /\ UNCHANGED <<slots, memory, faults, history>>

Open(n) ==
    /\ Call /\ n \in Linked \ held /\ CanEnter(node[n].parent)
    /\ held' = held \cup {n} /\ refs' = Get({n})
    /\ UNCHANGED <<slots, mounted, node, label, op, faults, history>>

Close(n) ==
    /\ Call /\ n \in held
    /\ held' = held \ {n} /\ refs' = Put({n})
    /\ UNCHANGED <<slots, mounted, node, label, op, faults, history>>

\* exfat_cleanup_node frees the clusters, and the node also if that fails.
Freed(n) == slots' = IF n \in Folders THEN [slots EXCEPT ![n] = <<>>] ELSE slots

Cleanup(n) ==
    /\ Call /\ node[n].state = "unlinked" /\ n \notin held
    /\ Freed(n)
    /\ node' = [node EXCEPT ![n] = NoNode]
    /\ UNCHANGED <<mounted, refs, label, op, held, faults, history>>

-----------------------------------------------------------------------------
(* find_slot                                                               *)

Need == IF op.kind = "label" THEN 1 ELSE Entries(op.name)

SlotForShort(s, need) ==   \* mutant: a run that is one entry too short will do
    LET free(p, q) == \A i \in p .. q : s[i].t = "free"
        fits == {p \in 1 .. Len(s) - need + 1 : free(p, p + need - 2)}
        tails == {p \in 1 .. Len(s) + 1 : free(p, Len(s))}
        least(S) == CHOOSE p \in S : \A q \in S : p <= q
    IN  IF fits # {} THEN least(fits) ELSE least(tails)

SlotForFiles(s, need) ==   \* mutant: only files are seen
    LET free(p, q) == \A i \in p .. q : s[i].t \in {"free", "label"}
        fits == {p \in 1 .. Len(s) - need + 1 : free(p, p + need - 1)}
        tails == {p \in 1 .. Len(s) + 1 : free(p, Len(s))}
        least(S) == CHOOSE p \in S : \A q \in S : p <= q
    IN  IF fits # {} THEN least(fits) ELSE least(tails)

\* The first run of free entries that is long enough, or those at the end.
SlotFor(s, need) ==
    LET free(p, q) == \A i \in p .. q : s[i].t = "free"
        fits == {p \in 1 .. Len(s) - need + 1 : free(p, p + need - 1)}
        tails == {p \in 1 .. Len(s) + 1 : free(p, Len(s))}
        least(S) == CHOOSE p \in S : \A q \in S : p <= q
    IN  IF fits # {} THEN least(fits) ELSE least(tails)

Clusters(entries) == (entries + SLOTS - 1) \div SLOTS

GiveBack ==     \* what create and exfat_rename put on their way out
    CASE op.kind \in {"mknod", "mkdir"} -> Put({op.dir})
      [] op.kind = "rename" -> Put({op.dir, op.node})
      [] OTHER -> refs

Sought ==
    LET now == Visible(op.dir, node[op.dir].size)
        pos == SlotFor(now, Need)
        fits == pos + Need - 1 <= Len(now)
    IN  [pos |-> pos, grows |-> ~fits,
         size |-> IF fits THEN node[op.dir].size ELSE Clusters(pos + Need - 1)]

\* The slots of d with another size; what a new cluster has is zero.
Resized(d, size) ==
    [p \in 1 .. size * SLOTS |-> IF p <= node[d].size * SLOTS THEN SlotAt(d, p) ELSE Free]

Grown(size) ==
    /\ slots' = [slots EXCEPT ![op.dir] = Resized(op.dir, size)]
    /\ node' = [node EXCEPT ![op.dir].size = size, ![op.dir].dirty = TRUE]

FindSlot ==
    /\ op.pc = "slot" /\ Sought.size <= MaxClusters
    /\ IF Sought.grows THEN Grown(Sought.size) ELSE UNCHANGED <<slots, node>>
    /\ op' = [op EXCEPT !.pc = IF op.kind = "rename" THEN "erase" ELSE "write",
                        !.pos = Sought.pos, !.k = 0, !.grew = Sought.grows,
                        !.meta = IF op.kind = "rename"
                                 THEN LET old == node[op.node]
                                      IN  <<SlotAt(old.at, old.pos), SlotAt(old.at, old.pos + 1)>>
                                 ELSE @]
    /\ UNCHANGED <<mounted, refs, label, held, calls, faults, history>>

\* There is no room, or a read fails, at worst when the directory has grown.
FindSlotFails ==
    /\ op.pc = "slot"
    /\ \/ Sought.size > MaxClusters /\ UNCHANGED <<slots, node, faults, torn>>
       \/ /\ CanFault /\ faults' = faults + 1 /\ torn' = torn \cup WritingTo
          /\ \/ UNCHANGED <<slots, node>>
             \/ Sought.grows /\ Sought.size <= MaxClusters /\ Grown(Sought.size)
    /\ refs' = GiveBack
    /\ op' = Idle
    /\ UNCHANGED <<mounted, label, held, calls, tree, doubt, retried, moved>>

-----------------------------------------------------------------------------
(* write_entry, rename_entry and exfat_set_label                           *)

\* rename_entry writes what it read, with the new name.
MetaOf(k) ==
    IF k = 1 /\ op.meta[1].t = "file"
    THEN Slot("file", op.meta[1].id, op.name, op.meta[2].size, 1 + Pieces[op.name])
    ELSE op.meta[k]

EntryToWrite ==
    IF op.kind = "label" THEN LabelSlot(op.name)
    ELSE IF op.kind = "rename" /\ op.k < 2 THEN MetaOf(op.k + 1)
    ELSE SetOf(op.node, op.name, 0)[op.k + 1]

WriteEntry ==
    /\ op.pc = "write"
    /\ slots' = [slots EXCEPT ![op.dir][op.pos + op.k] = EntryToWrite]
    /\ op' = IF op.k + 1 < Need THEN [op EXCEPT !.k = @ + 1]
             ELSE [op EXCEPT !.pc = "attach"]
    /\ UNCHANGED <<memory, calls, faults, history>>

WriteEntryFails ==
    /\ op.pc = "write" /\ CanFault
    /\ Fault(TRUE)
    /\ refs' = GiveBack
    /\ op' = Idle
    /\ UNCHANGED <<slots, mounted, node, label, held, calls, tree, retried, moved>>

\* exfat_flush_node is called next for what is in op.flush.
FlushNext(d, stage) == [op EXCEPT !.pc = "flush1", !.flush = d, !.stage = stage]

\* The end of write_entry, of rename_entry with exfat_rename, which does not
\* flush the directory, and of exfat_set_label.
Attach ==
    /\ op.pc = "attach"
    /\ CASE op.kind \in {"mknod", "mkdir"} ->
              /\ node' = [node EXCEPT ![op.node] = NodeAt(op.dir, op.pos, op.name, 0, FALSE),
                                      ![op.dir].dirty = TRUE]
              /\ op' = FlushNext(op.dir, "create")
              /\ UNCHANGED <<refs, label, moved>>
         [] op.kind = "rename" ->
              /\ node' = [node EXCEPT ![op.node].name = op.name, ![op.node].parent = op.dir]
              /\ refs' = GiveBack
              /\ op' = Idle
              /\ moved' = IF op.grew THEN moved \cup {op.dir} ELSE moved
              /\ UNCHANGED label
         [] op.kind = "label" ->
              /\ label' = op.name
              /\ op' = Idle
              /\ UNCHANGED <<node, refs, moved>>
    /\ tree' = IF op.kind = "label" THEN tree ELSE [tree EXCEPT ![op.node] = <<op.dir, op.name>>]
    /\ UNCHANGED <<slots, mounted, held, calls, faults, doubt, torn, retried>>

-----------------------------------------------------------------------------
(* delete                                                                  *)

EraseEntryNewName ==   \* mutant: as many entries as the new name has
    /\ op.pc = "erase"
    /\ LET n == node[Erased]
           last == op.k + 1 = Entries(IF op.stage = "delete" THEN n.name ELSE op.name)
       IN  /\ n.pos + op.k <= Len(slots[n.at])
           /\ slots' = [slots EXCEPT ![n.at][n.pos + op.k] = Free]
           /\ op' = IF ~last THEN [op EXCEPT !.k = @ + 1]
                    ELSE [op EXCEPT !.k = 0,
                                    !.pc = IF op.stage = "delete" THEN "detach" ELSE "write"]
           /\ node' = IF last /\ op.stage # "delete"
                      THEN [node EXCEPT ![op.node].at = op.dir, ![op.node].pos = op.pos]
                      ELSE node
    /\ UNCHANGED <<mounted, refs, label, held, calls, faults, history>>

\* erase_entry: as many entries as the name in memory has.  When rename_entry
\* is through with it, the node has its new position and its old name.
EraseEntry ==
    /\ op.pc = "erase"
    /\ LET n == node[Erased]
           last == op.k + 1 = Entries(n.name)
       IN  /\ n.pos + op.k <= Len(slots[n.at])
           /\ slots' = [slots EXCEPT ![n.at][n.pos + op.k] = Free]
           /\ op' = IF ~last THEN [op EXCEPT !.k = @ + 1]
                    ELSE [op EXCEPT !.k = 0,
                                    !.pc = IF op.stage = "delete" THEN "detach" ELSE "write"]
           /\ node' = IF last /\ op.stage # "delete"
                      THEN [node EXCEPT ![op.node].at = op.dir, ![op.node].pos = op.pos]
                      ELSE node
    /\ UNCHANGED <<mounted, refs, label, held, calls, faults, history>>

\* A write fails, or next_entry comes to the end of the chain.
EraseEntryFails ==
    /\ op.pc = "erase"
    /\ LET n == node[Erased] IN Fault(n.pos + op.k <= Len(slots[n.at]))
    /\ faults' <= MaxFaults
    /\ IF op.stage = "delete"
       THEN /\ refs' = Put({node[op.victim].parent})
            /\ op' = [op EXCEPT !.pc = "deleted", !.ok = FALSE]
       ELSE refs' = GiveBack /\ op' = Idle
    /\ UNCHANGED <<slots, mounted, node, label, held, calls, tree, retried, moved>>

\* tree_detach and shrink_directory, which looks at files only: a label that
\* stands behind the last of them is cut off with the clusters.  It takes what
\* each child has for its position, also where a call that failed has left the
\* child without entries there, or with a position in another directory; the
\* size may then be too small for the others, or larger than it was.
Shrunk(d, deleted) ==
    LET rest == Children(d) \ {deleted}
        last == CHOOSE n \in rest : \A m \in rest : node[n].pos >= node[m].pos
        size == IF rest = {} THEN 1
                ELSE Clusters(node[last].pos - 1 + Entries(node[last].name))
    IN  IF \E n \in rest : node[n].pos > node[deleted].pos THEN node[d].size ELSE size

\* Children whose entries are not where they should be in d.
Astray(d) == {n \in Children(d) : ~InPlace(n)}

Detach ==
    /\ op.pc = "detach"
    /\ LET d == node[op.victim].parent
           size == Shrunk(d, op.victim)
       IN  \E fails \in IF size = node[d].size THEN {FALSE}
                        ELSE IF size > MaxClusters THEN {TRUE} ELSE Outcomes :
             /\ Fault(fails /\ size <= MaxClusters)
             /\ node' = [node EXCEPT ![op.victim].state = "unlinked", ![d].dirty = TRUE,
                                     ![d].size = IF fails THEN @ ELSE size]
             /\ slots' = IF fails \/ size = node[d].size THEN slots
                         ELSE [slots EXCEPT ![d] = Resized(d, size)]
             /\ op' = [FlushNext(d, "delete") EXCEPT !.ok = ~fails]
             /\ retried' = (retried \/ Astray(d) \ {op.victim} # {})
    /\ tree' = [tree EXCEPT ![op.victim] = Nowhere]
    /\ UNCHANGED <<mounted, refs, label, held, calls, moved>>

\* What follows delete: exfat_rename goes on with exfat_cleanup_node, which
\* ends the process if the node is in use.
Deleted ==
    /\ op.pc = "deleted" /\ op.kind # "rename"
    /\ refs' = Put({op.victim})
    /\ op' = Idle
    /\ UNCHANGED <<slots, mounted, node, label, held, calls, faults, history>>

InUse == refs[op.victim] # 1
CleanedUp == IF node[op.victim].state = "unlinked" THEN Outcomes ELSE {FALSE}
Replaced ==
    /\ op.pc = "deleted" /\ op.kind = "rename"
    /\ IF InUse
       THEN op' = [pc |-> "aborted", path |-> op.victim] /\ UNCHANGED <<slots, node, refs, faults>>
       ELSE /\ IF node[op.victim].state = "unlinked"
               THEN Freed(op.victim) /\ node' = [node EXCEPT ![op.victim] = NoNode]
               ELSE UNCHANGED <<slots, node>>
            /\ \E fails \in CleanedUp :
                 /\ faults' = faults + Count(fails)
                 /\ IF op.ok /\ ~fails
                    THEN /\ op' = [op EXCEPT !.pc = "slot", !.victim = None,
                                             !.flush = None, !.stage = None]
                         /\ refs' = Put({op.victim})
                    ELSE op' = Idle /\ refs' = PutAll(op.victim, op.dir, op.node)
    /\ UNCHANGED <<mounted, label, held, calls, history>>

-----------------------------------------------------------------------------
(* exfat_flush_node, for directories.  The root has no entry of its own.   *)

Flushed(ok) ==
    CASE op.stage = "create" ->
           /\ op' = IF ok /\ op.kind = "mkdir" THEN [op EXCEPT !.pc = "room"] ELSE Idle
           /\ refs' = IF ok /\ op.kind = "mkdir"
                      THEN [GiveBack EXCEPT ![op.node] = @ + 1] ELSE GiveBack
      [] op.stage = "room" ->
           IF ok THEN op' = Idle /\ refs' = Put({op.node})
           ELSE /\ op' = [op EXCEPT !.pc = "erase", !.victim = op.node, !.k = 0,
                                    !.stage = "delete"]
                /\ refs' = Get({op.dir})
      [] op.stage = "delete" ->
           /\ op' = [op EXCEPT !.pc = "deleted", !.ok = @ /\ ok]
           /\ refs' = Put({op.flush})
      [] op.stage = "unmount" ->
           /\ op' = IF ok THEN [op EXCEPT !.pc = "unmount"]
                    ELSE [pc |-> "aborted", path |-> op.flush]
           /\ UNCHANGED refs

Target == node[op.flush]
NeedsFlushLater ==   \* mutant: create leaves it to the unmount
    Target.dirty /\ op.flush # Root /\ Target.state = "linked" /\ op.stage # "create"
NeedsFlush == Target.dirty /\ op.flush # Root /\ Target.state = "linked"
Corrupt == \/ SlotAt(Target.at, Target.pos).t # "file"
           \/ SlotAt(Target.at, Target.pos + 1).t # "info"

FlushMeta1 ==
    /\ op.pc = "flush1"
    /\ Use(IF NeedsFlush THEN {op.flush} ELSE {})
    /\ IF ~NeedsFlush THEN Flushed(TRUE) /\ UNCHANGED slots
       ELSE IF Corrupt
       THEN op' = [pc |-> "aborted", path |-> op.flush] /\ UNCHANGED <<refs, slots>>
       ELSE /\ slots' = [slots EXCEPT ![Target.at][Target.pos] =
                            FileSlot(op.flush, Target.name, Target.size)]
            /\ op' = [op EXCEPT !.pc = "flush2"]
            /\ UNCHANGED refs
    /\ UNCHANGED <<mounted, node, label, held, calls, faults, tree, doubt, torn, moved>>

\* exfat_flush, which comes last, may fail as well.
FlushMeta2 ==
    /\ op.pc = "flush2"
    /\ slots' = [slots EXCEPT ![Target.at][Target.pos + 1] = InfoSlot(op.flush, Target.size)]
    /\ node' = [node EXCEPT ![op.flush].dirty = FALSE]
    /\ moved' = moved \ {op.flush}
    /\ \E fails \in Outcomes :
         Fault(fails) /\ Flushed(~fails)
    /\ UNCHANGED <<mounted, label, held, calls, tree, retried>>

FlushFails ==
    /\ op.pc \in {"flush1", "flush2"} /\ NeedsFlush /\ CanFault
    /\ Fault(TRUE)
    /\ Flushed(FALSE)
    /\ UNCHANGED <<slots, mounted, node, label, held, calls, tree, retried, moved>>

\* exfat_mkdir: a directory has one cluster at least.
MakeRoom ==
    /\ op.pc = "room"
    /\ \E fails \in Outcomes :
         /\ Fault(fails)
         /\ IF fails
            THEN /\ op' = [op EXCEPT !.pc = "erase", !.victim = op.node, !.k = 0,
                                     !.stage = "delete"]
                 /\ refs' = Get({op.dir})
                 /\ UNCHANGED <<slots, node>>
            ELSE /\ slots' = [slots EXCEPT ![op.node] = [i \in 1 .. SLOTS |-> Free]]
                 /\ node' = [node EXCEPT ![op.node].size = 1, ![op.node].dirty = TRUE,
                                         ![op.node].cached = TRUE]
                 /\ op' = FlushNext(op.node, "room")
                 /\ UNCHANGED refs
    /\ UNCHANGED <<mounted, label, held, calls, tree, retried, moved>>

-----------------------------------------------------------------------------
(* Unmount, mount, death                                                   *)

Absent == [n \in Nodes |-> NoNode]

BeginUnmount ==
    /\ Call /\ held = {}
    /\ \A n \in Ids : node[n].state # "unlinked"
    /\ op' = [Running("unmount", "unmount", None, None, None, None) EXCEPT !.stage = "unmount"]
    /\ UNCHANGED <<slots, memory, faults, history>>

\* exfat_flush_nodes, then exfat_reset_cache: a node that could not be flushed
\* is still dirty, which ends the process.
Unmount ==
    /\ op.pc = "unmount"
    /\ LET dirty == {n \in Linked : node[n].dirty}
       IN  \/ \E n \in dirty : /\ op' = FlushNext(n, "unmount")
                               /\ UNCHANGED <<mounted, node, refs>>
           \/ /\ dirty = {}
              /\ op' = Idle
              /\ mounted' = FALSE /\ node' = Absent /\ refs' = [n \in Nodes |-> 0]
    /\ UNCHANGED <<slots, label, held, calls, faults, history>>

\* The call that runs is interrupted wherever it is; what stands beyond the size
\* a directory has on the medium will not be seen again.
Die ==
    /\ mounted /\ (op.pc = "aborted" \/ CanFault)
    /\ faults' = IF op.pc = "aborted" THEN faults ELSE faults + 1
    /\ doubt' = doubt \cup Changing \cup
          {n \in Linked : node[n].parent \in Behind /\
              node[n].pos + Entries(node[n].name) - 1 > InfoSize(node[n].parent) * SLOTS}
    /\ torn' = torn \cup WritingTo \cup Behind
    /\ mounted' = FALSE /\ node' = Absent /\ held' = {} /\ moved' = {}
    /\ refs' = [n \in Nodes |-> 0]
    /\ op' = Idle
    /\ UNCHANGED <<slots, label, calls, tree, retried>>

\* bound: what is mounted is a tree of two levels in which a node is found once.
OneTree ==
    \A c \in Found :
        /\ c.id \in Folders => c.dir = Root
        /\ \A e \in Found : e.id = c.id => e = c

\* What is read back replaces what was in doubt.
Mount ==
    /\ ~mounted /\ Readable(Root, RootSize) /\ OneTree
    /\ mounted' = TRUE
    /\ node' = NodesFound
    /\ label' = LabelFound
    /\ tree' = [n \in Ids |-> IF n \in doubt THEN Nowhere ELSE tree[n]]
    /\ UNCHANGED <<slots, refs, op, held, calls, faults, doubt, torn, retried, moved>>

Steps ==
    \/ Creating \/ RenameRefused \/ RenameGoesOn
    \/ FindSlot \/ FindSlotFails \/ WriteEntry \/ WriteEntryFails \/ Attach
    \/ EraseEntry \/ EraseEntryFails \/ Detach \/ Deleted \/ Replaced
    \/ FlushMeta1 \/ FlushMeta2 \/ FlushFails \/ MakeRoom \/ Unmount

Calls ==
    \/ \E n \in Nodes :
         \/ \E d \in Directories, name \in Names : Rename(n, d, name)
         \/ RenameNowhere(n)
    \/ \E n \in Ids :
         \/ \E d \in Directories, name \in Names : Create(d, name, n)
         \/ Delete(n) \/ Open(n) \/ Close(n) \/ Cleanup(n)
    \/ \E text \in Labels \cup {None} : SetLabel(text)
    \/ SplitRoot \/ BeginUnmount \/ Mount

Next == Steps \/ Calls \/ Die

Spec == Init /\ [][Next]_vars

-----------------------------------------------------------------------------
(* Properties                                                              *)

\* Each variable has its type; in particular no directory outgrows its clusters.
TypeOK ==
    /\ \A d \in Directories :
         /\ \A p \in DOMAIN slots[d] : slots[d][p] \in SlotType
         /\ Len(slots[d]) % SLOTS = 0
         /\ (mounted /\ node[d].state = "linked" /\ node[d].cached) =>
                node[d].size * SLOTS <= Len(slots[d])
    /\ \A n \in Nodes : node[n].state \in {"absent", "linked", "unlinked"}
    /\ refs \in [Nodes -> Int]
    /\ label \in Labels \cup {None}
    /\ held \subseteq Ids /\ doubt \subseteq Ids
    /\ torn \subseteq Directories /\ moved \subseteq Directories
    /\ calls \in 0 .. MaxCalls /\ faults \in 0 .. MaxFaults

\* Where the sets of a node begin.
FilesOf(n) ==
    {f \in Directories \X (1 .. MaxClusters * SLOTS) :
        SlotAt(f[1], f[2]).t = "file" /\ SlotAt(f[1], f[2]).id = n}

\* A file or directory that no interrupted call was changing keeps its one set of
\* entries, whole, under its name and in its directory - whatever happens to the
\* others: failed writes, deaths, reuse of slots.  One that was deleted has none.
Kept ==
    ~retried => \A n \in Ids \ (doubt \cup Changing) :
        IF tree[n] = Nowhere THEN FilesOf(n) = {}
        ELSE \E f \in FilesOf(n) : /\ FilesOf(n) = {f} /\ f[1] = tree[n][1]
                                  /\ WholeAt(slots[f[1]], f[2])
                                  /\ slots[f[1]][f[2]].name = tree[n][2]

\* No node is listed twice, not even in the middle of a rename.
NeverTwice ==
    ~retried => \A n \in Ids : Cardinality(FilesOf(n)) <= 1

\* A directory is readable unless a call that writes to it runs or was
\* interrupted, or a rename made it grow and nothing has flushed it since.
OthersReadable ==
    ~retried =>
        /\ Root \notin torn \cup WritingTo => Readable(Root, RootSize)
        /\ Readable(Root, RootSize) =>
              \A c \in ChildrenIn(Root, RootSize) :
                  c.id \in Folders \ (torn \cup WritingTo \cup moved) => Readable(c.id, c.size)

\* When a call has returned, a process that dies does not take it back: a mount
\* would find the tree as it is in memory, except for directories that a rename
\* made grow.
ReturnedIsDurable ==
    mounted /\ op.pc = "idle" /\ doubt = {} /\ torn = {} =>
        /\ Behind \subseteq moved
        /\ Readable(Root, RootSize)
        /\ \A n \in Ids :
              LET found == NodesFound[n]
              IN  (n \in Linked /\ node[n].parent \in moved) \/
                  (IF n \in Linked
                   THEN found.state = "linked" /\ <<found.parent, found.name>> = Place(n)
                   ELSE found = NoNode \/ found.parent \in moved)

\* Between calls, the references are those the client holds.
ReferencesBalanced ==
    mounted /\ op.pc = "idle" => \A n \in Nodes : refs[n] = (IF n \in held THEN 1 ELSE 0)

\* exfat_bug ends the process for three reasons: a path without a component, a
\* rename over a node that is in use, and a node that could not be written.  A
\* fourth, exfat_truncate of a node without references, is met by none of the
\* calls that give a directory another size.
AbortsExplained ==
    op.pc = "aborted" /\ ~retried => op.path \in {Root} \cup held \cup doubt
ResizedIsReferenced ==
    LET d == CASE op.pc = "slot" -> op.dir
               [] op.pc = "detach" -> node[op.victim].parent
               [] op.pc = "room" -> op.node
               [] OTHER -> Root
    IN  d # Root => refs[d] > 0

\* The label on the medium goes only when it is set, or when a file is deleted
\* from the root and the clusters behind the last file are cut off.
LabelOnlyCut ==
    [][LabelFound' # LabelFound /\ ~retried =>
          \/ op.kind = "label"
          \/ op.pc = "detach" /\ Len(slots'[Root]) < Len(slots[Root])]_slots

\* Every node has its one set of entries, within directories that hold them.
TreeKept == TypeOK /\ Kept /\ NeverTwice

\* Every way out of a call, also before it has done anything, puts what it got,
\* neither too little, nor so much or so late that exfat_bug finds a node in use or
\* unused that is not.
ReferencesExact == ReferencesBalanced /\ AbortsExplained /\ ResizedIsReferenced
=============================================================================
