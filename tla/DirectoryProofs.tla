-------------------------- MODULE DirectoryProofs --------------------------
(***************************************************************************)
(* Proofs about Directory, for any directories and files, any names and    *)
(* labels, clusters of any size and any number of calls and faults: the    *)
(* types of everything, and the references of every node.                  *)
(*                                                                         *)
(* Types.  What is on the medium stays in its directories, each a whole    *)
(* number of clusters long, through every cut of a call in the middle; so  *)
(* what the next mount finds there has its types again, and a directory in *)
(* memory is never longer than its clusters.  This needs what every call   *)
(* knows at every point where it can be cut: Typed.                        *)
(*                                                                         *)
(* References.  Between two steps, the count of a node is that of the      *)
(* client's own handle and of what the call that is running has yet to put *)
(* on every way out of it: Counted.  Owed names that debt by the call's    *)
(* point; each step moves it, settles it, or takes it on, and a call that  *)
(* is over owes nothing.  exfat_bug ends the process only over a path with *)
(* no component, over a node that the client still holds, or over one that *)
(* the medium failed to take: AbortsExplained.                             *)
(***************************************************************************)
EXTENDS Directory, SequenceTheorems, FiniteSetTheorems, WellFoundedInduction, TLAPS

\* What the variables hold.
Pcs == {"slot", "write", "attach", "erase", "detach", "deleted", "flush1", "flush2", "room",
        "unmount"}
Flushes == {"flush1", "flush2"}
Kinds == {"mknod", "mkdir", "rename", "delete", "label", "unmount"}
Creations == {"mknod", "mkdir"}
Stages == {None, "create", "room", "delete", "unmount"}
Spots == 1 .. MaxClusters * SLOTS
Runs == op.pc \notin {"idle", "aborted", "split"}
Owes == Runs \/ op.pc = "split"

Ops == [pc : Pcs, kind : Kinds, node : Ids \cup {None}, dir : Directories \cup {None},
        name : Names \cup Labels \cup {None}, victim : Ids \cup {None}, pos : Nat, k : Nat,
        ok : BOOLEAN, grew : BOOLEAN, meta : SlotType \X SlotType,
        flush : Nodes \cup {None}, stage : Stages]

\* A call whose path has been looked up, and that has not gone further yet.
Splits ==
    [pc : {"split"}, kind : Creations \cup {"rename"}, node : Nodes,
     dir : Directories \cup {None}, name : Names \cup {None}, victim : Ids \cup {None},
     pos : {0}, k : {0}, ok : {TRUE}, grew : {FALSE}, meta : {<<Free, Free>>},
     flush : {None}, stage : {None}]

NodeTypes ==
    [state : {"linked", "unlinked"}, parent : Directories \cup {None}, name : Names \cup {None},
     at : Directories \cup {None}, pos : Nat, size : 0 .. MaxClusters, cached : BOOLEAN,
     dirty : BOOLEAN]

\* An entry that is read by its type has what it is read for.
SlotSane(s) ==
    /\ s.t = "label" => s.name \in Labels
    /\ s.t = "file" => s.id \in Ids /\ s.name \in Names

\* What is on the medium.
SlotsTyped ==
    /\ slots \in [Directories -> Seq(SlotType)]
    /\ \A d \in Directories :
         /\ Len(slots[d]) % SLOTS = 0 /\ Len(slots[d]) <= MaxClusters * SLOTS
         /\ \A p \in DOMAIN slots[d] : SlotSane(slots[d][p])

OthersTyped ==
    /\ refs \in [Nodes -> Int] /\ label \in Labels \cup {None}
    /\ held \subseteq Ids /\ doubt \subseteq Ids
    /\ torn \subseteq Directories /\ moved \subseteq Directories
    /\ calls \in 0 .. MaxCalls /\ faults \in 0 .. MaxFaults
    /\ mounted \in BOOLEAN /\ retried \in BOOLEAN
    /\ tree \in [Ids -> (Directories \cup {None}) \X (Names \cup {None})]

\* What the nodes of a volume that is mounted are.
Standing(n) ==
    node[n].state = "linked" =>
        /\ node[n].parent \in Directories /\ node[n].at \in Directories
        /\ node[n].name \in Names /\ node[n].pos \in Spots
        /\ n \in Folders => node[n].parent = Root

NodesTyped ==
    /\ node \in [Nodes -> NodeTypes \cup {NoNode}]
    /\ ~mounted => node = Absent /\ op = Idle /\ held = {}
    /\ mounted => /\ CanEnter(Root) /\ node[Root].size * SLOTS = Len(slots[Root])
                  /\ \A n \in Ids : Standing(n)
                  /\ \A d \in Directories : CanEnter(d) => node[d].size * SLOTS <= Len(slots[d])

\* What the parts of a call are, whatever it is at.
CallTyped ==
    /\ op.kind # "unmount" => op.dir \in Directories /\ CanEnter(op.dir)
    /\ op.kind \in Creations \cup {"rename"} => op.node \in Ids /\ op.name \in Names
    /\ op.kind \in Creations => op.victim \in {None, op.node}
    /\ op.kind = "mkdir" => op.node \in Folders /\ op.dir = Root
    /\ op.kind = "mknod" => op.node \notin Folders
    /\ op.kind = "rename" =>
         /\ op.dir # op.node /\ op.victim \notin {op.dir, op.node}
         /\ node[op.node].state = "linked" /\ (op.node \in Folders => op.dir = Root)
    /\ op.kind = "delete" => op.victim \in Ids /\ op.victim # op.dir
    /\ op.kind = "label" => op.dir = Root /\ op.name \in Labels \cup {None} /\ op.victim = None
    /\ op.kind = "unmount" => held = {} /\ op.victim = None

\* What they are at each of its points: where an entry goes, whose entries go,
\* whose node is flushed and on behalf of what.
PointTyped ==
    /\ op.pc \in {"slot", "write", "attach"} =>
         op.kind \notin {"delete", "unmount"} /\ op.stage = None
    /\ op.pc \in {"slot", "write", "attach"} /\ op.kind \in Creations => op.victim = None
    /\ op.pc \in {"write", "attach"} /\ op.kind # "label" => op.pos \in Spots
    /\ op.pc \in {"write", "attach"} /\ op.kind = "rename" => op.victim = None
    /\ op.pc = "erase" /\ op.stage # "delete" =>
         op.kind = "rename" /\ op.stage = None /\ op.pos \in Spots /\ op.victim = None
    /\ op.stage = "delete" /\ op.pc \in {"erase", "detach"} =>
         /\ op.victim \in Ids /\ op.kind \in {"mkdir", "rename", "delete"}
         /\ node[op.victim].state = "linked" /\ node[op.victim].parent = op.dir
    /\ op.pc = "detach" => op.stage = "delete"
    /\ op.pc = "deleted" => op.victim \in Ids /\ op.kind \in {"mkdir", "rename", "delete"}
    /\ op.pc = "slot" /\ op.kind = "rename" => op.victim = None
    /\ op.pc \in Flushes =>
         /\ op.stage # None /\ op.flush \in Nodes
         /\ op.stage = "create" => op.kind \in Creations /\ op.victim = None /\ op.flush = op.dir
         /\ op.stage = "room" => op.kind = "mkdir" /\ op.victim = None /\ op.flush = op.node
         /\ op.stage = "delete" =>
              /\ op.victim \in Ids /\ op.flush = op.dir
              /\ op.kind \in {"mkdir", "rename", "delete"}
         /\ op.stage = "unmount" => op.kind = "unmount" /\ op.flush \in Ids
    /\ op.pc = "flush2" => NeedsFlush
    /\ op.pc = "room" => op.kind = "mkdir" /\ op.victim = None
    /\ op.pc = "room" \/ (op.pc \in Flushes /\ op.stage \in {"create", "room"}) =>
         node[op.node].state = "linked" /\ node[op.node].parent = op.dir
    /\ op.pc = "write" => op.k < Need
    /\ SlotSane(op.meta[1]) /\ SlotSane(op.meta[2])
    /\ op.stage = "unmount" <=> op.kind = "unmount"
    /\ op.pc = "unmount" => op.kind = "unmount"

\* What its parts are until it has checked them.
SplitTyped ==
    /\ op \in Splits
    /\ op.dir # None => CanEnter(op.dir) /\ op.name \in Names
    /\ op.kind \in Creations =>
         /\ op.dir # None /\ op.node \in Ids
         /\ op.kind = "mkdir" <=> op.node \in Folders
         /\ op.kind = "mkdir" => op.dir = Root
    /\ op.kind = "rename" =>
         /\ op.node # Root => node[op.node].state = "linked"
         /\ op.node \in Folders => op.dir \in {None, Root, op.node}
    /\ op.victim # None =>
         /\ op.dir # None /\ op.victim # op.dir
         /\ node[op.victim].state = "linked" /\ node[op.victim].parent = op.dir

OpTyped ==
    /\ op.pc = "idle" => op = Idle
    /\ op.pc = "split" => SplitTyped
    /\ Runs => op \in Ops /\ CallTyped /\ PointTyped

Typed == SlotsTyped /\ OthersTyped /\ NodesTyped /\ OpTyped

\* The references that the call o has: to the directory that was looked up, to
\* the node that is renamed or made room for, to the one that goes, and to its
\* parent while that is written.
DirHeld(o) ==
    \/ o.kind = "rename"
    \/ o.kind \in Creations /\ o.pc \in {"split", "slot", "write", "attach"}
    \/ o.pc \in Flushes /\ o.stage = "create"
NodeHeld(o) == o.kind = "rename" \/ o.pc = "room" \/ (o.pc \in Flushes /\ o.stage = "room")
ParentHeld(o) == o.stage = "delete" /\ o.pc \in {"erase", "detach"} \cup Flushes

One(b) == IF b THEN 1 ELSE 0
Owed(o, n) == One(DirHeld(o) /\ n = o.dir) + One(NodeHeld(o) /\ n = o.node)
              + One(o.victim # None /\ n = o.victim) + One(ParentHeld(o) /\ n = o.dir)

\* A count is the client's handle and what the call owes.
Counted ==
    op.pc # "aborted" =>
        \A n \in Nodes : refs[n] = One(n \in held) + (IF Owes THEN Owed(op, n) ELSE 0)

\* That, and that no process was ended but for these reasons.
Explained == Counted /\ AbortsExplained

-----------------------------------------------------------------------------
(* Sets of numbers                                                         *)

\* A set of natural numbers has a least element: their order is well-founded.
LEMMA LeastElement ==
    ASSUME NEW T, T \subseteq Nat, T # {}
    PROVE  \E m \in T : \A n \in T : m <= n
<1>1. PICK R : /\ IsWellFoundedOn(R, Nat)
               /\ \A n, k \in Nat : n < k => <<n, k>> \in R
  <2>1. \A n, k \in Nat : n < k => <<n, k>> \in OpToRel(<, Nat)
    BY DEF OpToRel
  <2> QED BY <2>1, NatLessThanWellFounded, Zenon
<1>2. PICK m \in T : \A n \in T : ~(<<n, m>> \in R)
  <2>1. IsWellFoundedOn(R, Nat) /\ T \subseteq Nat /\ T # {}
    BY <1>1
  <2>2. \A A, B, C : IsWellFoundedOn(A, B) /\ C \subseteq B /\ C # {} =>
          \E x \in C : \A y \in C : ~(<<y, x>> \in A)
    BY WFMin
  <2> QED BY ONLY <2>1, <2>2, Zenon
<1>3. ASSUME NEW n \in T PROVE m <= n
  <2>1. n \in Nat /\ m \in Nat
    OBVIOUS
  <2>2. ~(n < m)
    BY <1>1, <1>2, <2>1
  <2> QED BY ONLY <2>1, <2>2
<1> QED BY <1>3

-----------------------------------------------------------------------------
(* The operators of the model                                              *)

\* What the assumptions say of the constants.
LEMMA ConstantsAre ==
    /\ Folders \subseteq Ids /\ Root \notin Ids /\ None \notin Ids /\ None \notin Directories
    /\ None \notin Names /\ None \notin Labels
    /\ SLOTS \in Nat /\ SLOTS > 0 /\ MaxClusters \in Nat /\ MaxClusters > 0
    /\ MaxCalls \in Nat /\ MaxFaults \in Nat
    /\ \A name \in Names : Pieces[name] \in Nat /\ Pieces[name] > 0
BY DirectoryAssumption DEF Nodes, Directories

\* A length that is a whole number of clusters is that of its clusters.
LEMMA WholeClusters ==
    ASSUME NEW c \in Nat
    PROVE  (c * SLOTS) % SLOTS = 0 /\ (c * SLOTS) \div SLOTS = c /\ c * SLOTS \in Nat
<1>1. SLOTS \in Nat /\ SLOTS > 0
  BY ConstantsAre
<1>2. \A a, s \in Nat : s > 0 => (a * s) % s = 0 /\ (a * s) \div s = a
  OBVIOUS
<1> QED BY <1>1, <1>2

\* The clusters that a number of entries takes, rounded up.
LEMMA ClustersOf ==
    ASSUME NEW n \in Nat, n % SLOTS = 0
    PROVE  n \div SLOTS \in Nat /\ (n \div SLOTS) * SLOTS = n
<1>1. SLOTS \in Nat /\ SLOTS > 0
  BY ConstantsAre
<1>2. \A a, s \in Nat : s > 0 /\ a % s = 0 => a \div s \in Nat /\ (a \div s) * s = a
  OBVIOUS
<1> QED BY <1>1, <1>2

\* They hold the entries.
LEMMA RoomOf ==
    ASSUME NEW n \in Nat, n > 0
    PROVE  Clusters(n) \in Nat /\ Clusters(n) > 0 /\ n <= Clusters(n) * SLOTS
<1>1. SLOTS \in Nat /\ SLOTS > 0
  BY ConstantsAre
<1>2. \A a, s \in Nat : s > 0 /\ a > 0 =>
        /\ (a + s - 1) \div s \in Nat /\ (a + s - 1) \div s > 0
        /\ a <= ((a + s - 1) \div s) * s
  OBVIOUS
<1> QED BY <1>1, <1>2 DEF Clusters

LEMMA MoreClusters ==
    ASSUME NEW a \in Nat, NEW b \in Nat
    PROVE  /\ a <= b => a * SLOTS <= b * SLOTS
           /\ a < b => a * SLOTS < b * SLOTS
<1>1. SLOTS \in Nat /\ SLOTS > 0
  BY ConstantsAre
<1>2. \A i, j, s \in Nat : s > 0 => (i <= j => i * s <= j * s) /\ (i < j => i * s < j * s)
  OBVIOUS
<1> QED BY <1>1, <1>2

LEMMA FreeTyped == Free \in SlotType /\ SlotSane(Free)
BY ConstantsAre DEF Free, Slot, SlotType, SlotSane

LEMMA SetTyped ==
    ASSUME NEW n \in Ids, NEW name \in Names, NEW size \in 0 .. MaxClusters
    PROVE  /\ SetOf(n, name, size) \in Seq(SlotType)
           /\ DOMAIN SetOf(n, name, size) = 1 .. Entries(name)
           /\ Len(SetOf(n, name, size)) = Entries(name)
           /\ Entries(name) \in Nat /\ Entries(name) > 2
           /\ SetOf(n, name, size)[1] = FileSlot(n, name, size)
           /\ SetOf(n, name, size)[2] = InfoSlot(n, size)
           /\ \A k \in 3 .. Entries(name) : SetOf(n, name, size)[k] = NameSlot(name, k - 2)
<1>1. Pieces[name] \in Nat /\ Pieces[name] > 0
  BY ConstantsAre
<1>2. FileSlot(n, name, size) \in SlotType /\ InfoSlot(n, size) \in SlotType
  BY <1>1, ConstantsAre DEF FileSlot, InfoSlot, Slot, SlotType
<1>3. \A i \in 1 .. Pieces[name] : NameSlot(name, i) \in SlotType
  BY <1>1, ConstantsAre DEF NameSlot, Slot, SlotType
<1> DEFINE A == <<FileSlot(n, name, size), InfoSlot(n, size)>>
           B == [i \in 1 .. Pieces[name] |-> NameSlot(name, i)]
<1>4. A \in Seq(SlotType) /\ Len(A) = 2 /\ A[1] = FileSlot(n, name, size)
      /\ A[2] = InfoSlot(n, size)
  BY <1>2
<1>5. B \in Seq(SlotType) /\ Len(B) = Pieces[name]
      /\ \A i \in 1 .. Pieces[name] : B[i] = NameSlot(name, i)
  BY <1>1, <1>3
<1>6. SetOf(n, name, size) = A \o B
  BY DEF SetOf
<1>7. PICK U : U = SlotType
  OBVIOUS
<1> HIDE DEF A, B
<1>8. \A s, t \in Seq(U) : s \o t \in Seq(U) /\ Len(s \o t) = Len(s) + Len(t)
         /\ DOMAIN (s \o t) = 1 .. Len(s) + Len(t)
         /\ \A i \in 1 .. Len(s) + Len(t) : (s \o t)[i] = IF i <= Len(s) THEN s[i]
            ELSE t[i - Len(s)]
  OBVIOUS
<1>9. A \in Seq(U) /\ B \in Seq(U)
  BY <1>4, <1>5, <1>7
<1>15. /\ A \o B \in Seq(U) /\ Len(A \o B) = Len(A) + Len(B)
       /\ DOMAIN (A \o B) = 1 .. Len(A) + Len(B)
       /\ \A i \in 1 .. Len(A) + Len(B) : (A \o B)[i] = IF i <= Len(A) THEN A[i] ELSE B[i - Len(A)]
  BY ONLY <1>8, <1>9, Zenon
<1>10. /\ A \o B \in Seq(U) /\ Len(A \o B) = 2 + Pieces[name]
          /\ DOMAIN (A \o B) = 1 .. 2 + Pieces[name]
       /\ \A i \in 1 .. 2 + Pieces[name] : (A \o B)[i] = IF i <= 2 THEN A[i] ELSE B[i - 2]
  BY ONLY <1>4, <1>5, <1>15
<1>11. Entries(name) = 2 + Pieces[name]
  BY DEF Entries
<1> PICK S : S = SetOf(n, name, size)
  OBVIOUS
<1>12. /\ S \in Seq(U) /\ Len(S) = 2 + Pieces[name] /\ DOMAIN S = 1 .. 2 + Pieces[name]
       /\ \A i \in 1 .. 2 + Pieces[name] : S[i] = IF i <= 2 THEN A[i] ELSE B[i - 2]
  BY <1>6, <1>10
<1>13. \A k \in 3 .. 2 + Pieces[name] : S[k] = NameSlot(name, k - 2)
  BY ONLY <1>1, <1>5, <1>12
<1>14. S[1] = FileSlot(n, name, size) /\ S[2] = InfoSlot(n, size)
  BY ONLY <1>1, <1>4, <1>12
<1> QED BY <1>1, <1>7, <1>11, <1>12, <1>13, <1>14

-----------------------------------------------------------------------------
(* The slots                                                               *)

\* A slot within or beyond a directory, for what it is.
LEMMA SlotIs ==
    ASSUME SlotsTyped, NEW d \in Directories
    PROVE  /\ slots[d] \in Seq(SlotType) /\ DOMAIN slots[d] = 1 .. Len(slots[d])
           /\ Len(slots[d]) \in Nat
           /\ \A p : SlotAt(d, p) \in SlotType /\ SlotSane(SlotAt(d, p))
           /\ \A p : p \notin DOMAIN slots[d] => SlotAt(d, p) = Free
           /\ \A p \in DOMAIN slots[d] : SlotAt(d, p) = slots[d][p]
<1>1. slots[d] \in Seq(SlotType)
  BY DEF SlotsTyped
<1>2. PICK s : s = slots[d]
  OBVIOUS
<1>3. PICK U : U = SlotType
  OBVIOUS
<1>4. s \in Seq(U)
  BY <1>1, <1>2, <1>3
<1>5. DOMAIN s = 1 .. Len(s) /\ Len(s) \in Nat /\ \A p \in DOMAIN s : s[p] \in U
  BY ONLY <1>4
<1>6. \A p \in DOMAIN slots[d] : SlotSane(slots[d][p])
  BY DEF SlotsTyped
<1>7. /\ \A p : p \notin DOMAIN slots[d] => SlotAt(d, p) = Free
      /\ \A p \in DOMAIN slots[d] : SlotAt(d, p) = slots[d][p]
  BY DEF SlotAt
<1>8. \A p : SlotAt(d, p) \in SlotType /\ SlotSane(SlotAt(d, p))
  BY <1>2, <1>3, <1>5, <1>6, <1>7, FreeTyped
<1> QED BY <1>1, <1>2, <1>5, <1>7, <1>8

\* What a step makes of the slots when one directory gets the slots s.
GetsSlots(d, s) ==
    /\ \A e \in Directories : slots'[e] = IF e = d THEN s ELSE slots[e]
    /\ \A e \in Directories : \A q :
         SlotAt(e, q)' = IF e # d THEN SlotAt(e, q)
                         ELSE IF q \in DOMAIN s THEN s[q] ELSE Free

\* The slots keep their types when one directory gets others that have theirs.
LEMMA Replacing ==
    ASSUME SlotsTyped, NEW d \in Directories, NEW s \in Seq(SlotType),
           slots' = [slots EXCEPT ![d] = s],
           Len(s) % SLOTS = 0, Len(s) <= MaxClusters * SLOTS,
           \A p \in DOMAIN s : SlotSane(s[p])
    PROVE  SlotsTyped' /\ GetsSlots(d, s)
<1>1. slots \in [Directories -> Seq(SlotType)]
  BY DEF SlotsTyped
<1>2. PICK T : T = Seq(SlotType)
  OBVIOUS
<1>3. slots \in [Directories -> T] /\ s \in T
  BY <1>1, <1>2
<1>4. slots' \in [Directories -> T]
      /\ \A e \in Directories : slots'[e] = IF e = d THEN s ELSE slots[e]
  BY ONLY <1>3, slots' = [slots EXCEPT ![d] = s]
<1>5. SlotsTyped'
  BY <1>2, <1>4 DEF SlotsTyped
<1>6. \A e \in Directories : \A q :
         SlotAt(e, q)' = IF e # d THEN SlotAt(e, q)
                         ELSE IF q \in DOMAIN s THEN s[q] ELSE Free
  BY <1>4 DEF SlotAt
<1> QED BY <1>4, <1>5, <1>6 DEF GetsSlots

\* One slot is written.
Writes(d, c, v) ==
    /\ \A e \in Directories : DOMAIN slots'[e] = DOMAIN slots[e] /\ Len(slots'[e]) = Len(slots[e])
    /\ \A e \in Directories : \A q :
         SlotAt(e, q)' = IF e = d /\ q = c /\ c \in DOMAIN slots[d] THEN v ELSE SlotAt(e, q)

LEMMA Writing ==
    ASSUME SlotsTyped, NEW d \in Directories, NEW c, NEW v \in SlotType, SlotSane(v),
           slots' = [slots EXCEPT ![d][c] = v]
    PROVE  SlotsTyped' /\ Writes(d, c, v)
<1>1. PICK s : s = [slots[d] EXCEPT ![c] = v]
  OBVIOUS
<1>2. slots[d] \in Seq(SlotType) /\ DOMAIN slots[d] = 1 .. Len(slots[d]) /\ Len(slots[d]) \in Nat
  BY SlotIs
<1>3. PICK r : r = slots[d]
  OBVIOUS
<1>4. PICK U : U = SlotType
  OBVIOUS
<1>5. r \in Seq(U) /\ v \in U /\ s = [r EXCEPT ![c] = v]
  BY <1>1, <1>2, <1>3, <1>4
<1>6. /\ s \in Seq(U) /\ Len(s) = Len(r) /\ DOMAIN s = DOMAIN r
      /\ \A q \in DOMAIN s : s[q] = IF q = c THEN v ELSE r[q]
  <2>1. \A rr \in Seq(U) : Len(rr) \in Nat /\ DOMAIN rr = 1 .. Len(rr)
        /\ \A q \in DOMAIN rr : rr[q] \in U
    OBVIOUS
  <2>2. DOMAIN s = DOMAIN r /\ \A q \in DOMAIN s : s[q] = IF q = c THEN v ELSE r[q]
    BY ONLY <1>5
  <2>3. PICK m \in Nat : m = Len(r)
    BY ONLY <1>5, <2>1
  <2>4. DOMAIN s = 1 .. m /\ \A q \in 1 .. m : s[q] \in U
    BY ONLY <1>5, <2>1, <2>2, <2>3
  <2>5. s = [q \in 1 .. m |-> s[q]]
    BY ONLY <1>5, <2>4
  <2>6. s \in Seq(U)
    BY ONLY <2>4, <2>5
  <2>7. Len(s) = m
    BY ONLY <2>4, <2>6
  <2> QED BY ONLY <2>2, <2>3, <2>6, <2>7
<1>7. slots' = [slots EXCEPT ![d] = s]
  BY <1>1, SlotsTyped DEF SlotsTyped
<1>8. Len(s) % SLOTS = 0 /\ Len(s) <= MaxClusters * SLOTS /\ \A p \in DOMAIN s : SlotSane(s[p])
  BY <1>3, <1>6 DEF SlotsTyped
<1>9. SlotsTyped' /\ GetsSlots(d, s)
  BY <1>4, <1>6, <1>7, <1>8, Replacing
<1>10. \A e \in Directories : DOMAIN slots'[e] = DOMAIN slots[e] /\ Len(slots'[e]) = Len(slots[e])
  BY <1>3, <1>6, <1>9 DEF GetsSlots
<1>11. \A e \in Directories : \A q :
         SlotAt(e, q)' = IF e = d /\ q = c /\ c \in DOMAIN slots[d] THEN v ELSE SlotAt(e, q)
  BY <1>3, <1>6, <1>9 DEF GetsSlots, SlotAt
<1> QED BY <1>9, <1>10, <1>11 DEF Writes

\* A directory gets another size.
Resizes(d, size) ==
    /\ Len(slots'[d]) = size * SLOTS /\ DOMAIN slots'[d] = 1 .. size * SLOTS
    /\ \A e \in Directories : e # d => slots'[e] = slots[e]
    /\ \A e \in Directories : \A q :
         SlotAt(e, q)' = IF e # d THEN SlotAt(e, q)
                         ELSE IF q \in 1 .. size * SLOTS /\ q <= node[d].size * SLOTS
                              THEN SlotAt(d, q) ELSE Free

LEMMA Resizing ==
    ASSUME SlotsTyped, NEW d \in Directories, NEW size \in 0 .. MaxClusters,
           slots' = [slots EXCEPT ![d] = Resized(d, size)]
    PROVE  SlotsTyped' /\ Resizes(d, size)
<1>1. PICK s : s = Resized(d, size)
  OBVIOUS
<1>2. size \in Nat /\ size * SLOTS \in Nat /\ (size * SLOTS) % SLOTS = 0
      /\ size * SLOTS <= MaxClusters * SLOTS
  BY WholeClusters, MoreClusters, ConstantsAre
<1>3. PICK n \in Nat : n = size * SLOTS
  BY <1>2
<1>4. PICK U : U = SlotType
  OBVIOUS
<1>5. \A p : SlotAt(d, p) \in U /\ SlotSane(SlotAt(d, p)) /\ Free \in U /\ SlotSane(Free)
  BY <1>4, SlotIs, FreeTyped
<1>6. s = [p \in 1 .. n |-> IF p <= node[d].size * SLOTS THEN SlotAt(d, p) ELSE Free]
  BY <1>1, <1>3 DEF Resized
<1>7. /\ s \in [1 .. n -> U]
      /\ \A p \in 1 .. n : s[p] = (IF p <= node[d].size * SLOTS THEN SlotAt(d, p) ELSE Free)
         /\ SlotSane(s[p])
  BY ONLY <1>5, <1>6
<1>8. s \in Seq(U) /\ Len(s) = n /\ DOMAIN s = 1 .. n
  BY ONLY <1>7
<1>9. SlotsTyped' /\ GetsSlots(d, s)
  BY <1>1, <1>2, <1>3, <1>4, <1>7, <1>8, Replacing
<1>10. Len(slots'[d]) = size * SLOTS /\ DOMAIN slots'[d] = 1 .. size * SLOTS
  BY <1>3, <1>8, <1>9 DEF GetsSlots
<1>11. \A e \in Directories : e # d => slots'[e] = slots[e]
  BY <1>9 DEF GetsSlots
<1>12. \A e \in Directories : \A q :
         SlotAt(e, q)' = IF e # d THEN SlotAt(e, q)
                         ELSE IF q \in 1 .. size * SLOTS /\ q <= node[d].size * SLOTS
                              THEN SlotAt(d, q) ELSE Free
  <2> SUFFICES ASSUME NEW e \in Directories, NEW q
               PROVE  SlotAt(e, q)' = IF e # d THEN SlotAt(e, q)
                         ELSE IF q \in 1 .. size * SLOTS /\ q <= node[d].size * SLOTS
                              THEN SlotAt(d, q) ELSE Free
    OBVIOUS
  <2>1. SlotAt(e, q)' = IF e # d THEN SlotAt(e, q)
                         ELSE IF q \in DOMAIN s THEN s[q] ELSE Free
    BY <1>9 DEF GetsSlots
  <2>2. q \in DOMAIN s => s[q] = IF q <= node[d].size * SLOTS THEN SlotAt(d, q) ELSE Free
    BY <1>7, <1>8
  <2>3. q \in DOMAIN s <=> q \in 1 .. size * SLOTS
    BY <1>3, <1>8
  <2> QED BY <2>1, <2>2, <2>3, Zenon
<1> QED BY <1>9, <1>10, <1>11, <1>12 DEF Resizes

\* A directory loses its clusters, or has its first one.
Clears(d, n) ==
    /\ \A e \in Directories : e # d => slots'[e] = slots[e]
    /\ DOMAIN slots'[d] = 1 .. n /\ Len(slots'[d]) = n
    /\ \A e \in Directories : \A q : SlotAt(e, q)' = IF e = d THEN Free ELSE SlotAt(e, q)

LEMMA Clearing ==
    ASSUME SlotsTyped, NEW d \in Directories, NEW n \in {0, SLOTS},
           slots' = [slots EXCEPT ![d] = [i \in 1 .. n |-> Free]]
    PROVE  SlotsTyped' /\ Clears(d, n)
<1>1. PICK s : s = [i \in 1 .. n |-> Free]
  OBVIOUS
<1>2. n \in Nat /\ n % SLOTS = 0 /\ n <= MaxClusters * SLOTS
  <2>1. SLOTS \in Nat /\ SLOTS > 0 /\ 0 * SLOTS = 0 /\ 1 * SLOTS = SLOTS /\ 1 <= MaxClusters
        /\ MaxClusters \in Nat
    BY ConstantsAre
  <2>2. (0 * SLOTS) % SLOTS = 0 /\ (1 * SLOTS) % SLOTS = 0
    BY WholeClusters
  <2>3. 0 * SLOTS <= MaxClusters * SLOTS /\ 1 * SLOTS <= MaxClusters * SLOTS
    BY <2>1, MoreClusters
  <2> QED BY <2>1, <2>2, <2>3
<1>3. PICK U : U = SlotType
  OBVIOUS
<1>4. Free \in U /\ SlotSane(Free)
  BY <1>3, FreeTyped
<1>5. s \in [1 .. n -> U] /\ \A p \in 1 .. n : s[p] = Free
  BY ONLY <1>1, <1>4
<1>6. s \in Seq(U) /\ Len(s) = n /\ DOMAIN s = 1 .. n
  BY ONLY <1>2, <1>5
<1>7. SlotsTyped' /\ GetsSlots(d, s)
  BY <1>1, <1>2, <1>3, <1>4, <1>5, <1>6, Replacing
<1> QED BY <1>5, <1>6, <1>7 DEF GetsSlots, Clears

-----------------------------------------------------------------------------
(* The nodes and the calls                                                 *)

\* A node, for what it is.
LEMMA NodeIs ==
    ASSUME NodesTyped, NEW n \in Nodes
    PROVE  /\ node[n] \in NodeTypes \cup {NoNode}
           /\ node[n].state \in {"absent", "linked", "unlinked"}
           /\ node[n].state # "absent" => node[n] \in NodeTypes
           /\ node[n].state = "absent" => node[n] = NoNode
           /\ node[n].state = "linked" /\ n \in Ids /\ mounted => Standing(n) /\ n \in Nodes
<1>1. node[n] \in NodeTypes \cup {NoNode}
  BY DEF NodesTyped
<1>2. NoNode.state = "absent"
  BY DEF NoNode
<1>3. node[n] \in NodeTypes => node[n].state \in {"linked", "unlinked"}
  BY DEF NodeTypes
<1>4. n \in Ids /\ mounted => Standing(n)
  BY DEF NodesTyped
<1> QED BY <1>1, <1>2, <1>3, <1>4

LEMMA NodeHas ==
    ASSUME NEW r \in NodeTypes
    PROVE  /\ r.state \in {"linked", "unlinked"} /\ r.parent \in Directories \cup {None}
           /\ r.name \in Names \cup {None} /\ r.at \in Directories \cup {None} /\ r.pos \in Nat
           /\ r.size \in 0 .. MaxClusters /\ r.cached \in BOOLEAN /\ r.dirty \in BOOLEAN
BY DEF NodeTypes

\* A call runs on a mounted volume, and its parts have their types.
LEMMA RunsMounted ==
    ASSUME Typed, Runs
    PROVE  /\ mounted /\ op \in Ops /\ CallTyped /\ PointTyped
           /\ op.pc \in Pcs /\ op.kind \in Kinds /\ op.stage \in Stages
           /\ op.node \in Ids \cup {None} /\ op.victim \in Ids \cup {None} /\ op.pos \in Nat
              /\ op.k \in Nat
           /\ op.name \in Names \cup Labels \cup {None}
           /\ op.flush \in Nodes \cup {None} /\ op.dir \in Directories \cup {None}
           /\ op.meta \in SlotType \X SlotType /\ op.ok \in BOOLEAN /\ op.grew \in BOOLEAN
<1>1. Idle.pc = "idle"
  BY DEF Idle
<1>2. mounted
  BY <1>1 DEF Typed, NodesTyped, Runs, OthersTyped
<1>3. op \in Ops /\ CallTyped /\ PointTyped
  BY DEF Typed, OpTyped
<1> QED BY <1>2, <1>3 DEF Ops

\* Nothing that the types of nodes depend on has changed.
LEMMA NodesKept ==
    ASSUME NodesTyped, mounted, mounted' = TRUE, node' = node,
           \A e \in Directories : Len(slots'[e]) = Len(slots[e])
    PROVE  NodesTyped'
<1>1. Root \in Directories
  BY DEF Directories
<1>2. \A n : CanEnter(n)' <=> CanEnter(n)
  BY DEF CanEnter
<1>3. \A n : Standing(n)' <=> Standing(n)
  BY DEF Standing
<1> QED BY <1>1, <1>2, <1>3 DEF NodesTyped

\* The entries of a call: file, info, name; or a label.
LEMMA EntryTyped ==
    ASSUME Typed, op.pc = "write"
    PROVE  /\ op.dir \in Directories
           /\ EntryToWrite \in SlotType /\ SlotSane(EntryToWrite)
<1>0. Runs /\ op.kind \in {"mknod", "mkdir", "rename", "label"}
  BY RunsMounted DEF Runs, PointTyped, Kinds
<1>1. /\ CallTyped /\ PointTyped /\ op.k \in Nat /\ op.meta \in SlotType \X SlotType
      /\ op.name \in Names \cup Labels \cup {None}
  BY <1>0, RunsMounted
<1>2. op.dir \in Directories
  BY <1>0, <1>1 DEF CallTyped
<1>3. CASE op.kind = "label"
  <2>1. op.name \in Labels \cup {None} /\ EntryToWrite = LabelSlot(op.name)
    BY <1>1, <1>3 DEF CallTyped, EntryToWrite
  <2> QED BY <1>2, <2>1, FreeTyped, ConstantsAre DEF LabelSlot, Slot, SlotType, SlotSane
<1>4. CASE op.kind = "rename" /\ op.k < 2
  <2>1. op.k + 1 \in {1, 2} /\ EntryToWrite = MetaOf(op.k + 1)
    BY <1>1, <1>4 DEF EntryToWrite
  <2>2. op.name \in Names
    BY <1>1, <1>4 DEF CallTyped
  <2>3. /\ op.meta[1] \in SlotType /\ op.meta[2] \in SlotType /\ SlotSane(op.meta[1])
           /\ SlotSane(op.meta[2])
    BY <1>1 DEF PointTyped
  <2>4. CASE op.k + 1 = 1 /\ op.meta[1].t = "file"
    <3>1. op.meta[1].id \in Ids /\ op.meta[2].size \in 0 .. MaxClusters
      BY <2>3, <2>4 DEF SlotSane, SlotType
    <3>2. EntryToWrite = Slot("file", op.meta[1].id, op.name, op.meta[2].size, 1 + Pieces[op.name])
      BY <2>1, <2>4 DEF MetaOf
    <3>3. Pieces[op.name] \in Nat
      BY <2>2, ConstantsAre
    <3> QED BY <1>2, <2>2, <3>1, <3>2, <3>3 DEF Slot, SlotType, SlotSane
  <2>5. CASE ~(op.k + 1 = 1 /\ op.meta[1].t = "file")
    <3>1. EntryToWrite = op.meta[op.k + 1]
      BY <2>1, <2>5 DEF MetaOf
    <3> QED BY <1>2, <2>1, <2>3, <3>1
  <2> QED BY <2>4, <2>5
<1>5. CASE op.kind # "label" /\ ~(op.kind = "rename" /\ op.k < 2)
  <2>1. EntryToWrite = SetOf(op.node, op.name, 0)[op.k + 1]
    BY <1>5 DEF EntryToWrite
  <2>2. op.node \in Ids /\ op.name \in Names
    BY <1>0, <1>1, <1>5 DEF CallTyped, Creations
  <2>3. op.k < Entries(op.name)
    BY <1>0, <1>1, <1>5 DEF PointTyped, Need
  <2>4. 0 \in 0 .. MaxClusters
    BY ConstantsAre
  <2>5. Pieces[op.name] \in Nat
    BY <2>2, ConstantsAre
  <2> PICK S : S = SetOf(op.node, op.name, 0)
    OBVIOUS
  <2>6. /\ Entries(op.name) \in Nat /\ Entries(op.name) > 2
        /\ S[1] = FileSlot(op.node, op.name, 0) /\ S[2] = InfoSlot(op.node, 0)
        /\ \A k \in 3 .. Entries(op.name) : S[k] = NameSlot(op.name, k - 2)
    BY <2>2, <2>4, SetTyped
  <2>7. \A k \in 1 .. Entries(op.name) : S[k] \in SlotType /\ SlotSane(S[k])
    <3>1. S[1] \in SlotType /\ SlotSane(S[1]) /\ S[2] \in SlotType /\ SlotSane(S[2])
      BY <2>2, <2>4, <2>5, <2>6 DEF FileSlot, InfoSlot, Slot, SlotType, SlotSane
    <3>2. \A k \in 3 .. Entries(op.name) : S[k] \in SlotType /\ SlotSane(S[k])
      <4>1. \A i \in Nat : NameSlot(op.name, i) \in SlotType /\ SlotSane(NameSlot(op.name, i))
        BY <2>2, <2>4 DEF NameSlot, Slot, SlotType, SlotSane
      <4>2. \A k \in 3 .. Entries(op.name) : k - 2 \in Nat
        BY <2>6
      <4> QED BY <2>6, <4>1, <4>2
    <3> QED BY <2>6, <3>1, <3>2
  <2>8. op.k + 1 \in 1 .. Entries(op.name)
    BY <1>1, <2>3, <2>6
  <2> QED BY <1>2, <2>1, <2>7, <2>8
<1> QED BY <1>3, <1>4, <1>5

LEMMA WriteEntryTyped ==
    ASSUME Typed, WriteEntry
    PROVE  Typed'
<1>1. op.pc = "write" /\ Runs
  BY DEF WriteEntry, Runs
<1>2. mounted /\ op \in Ops /\ CallTyped /\ PointTyped /\ op.k \in Nat
  BY <1>1, RunsMounted
<1>3. /\ slots' = [slots EXCEPT ![op.dir][op.pos + op.k] = EntryToWrite]
      /\ op' = IF op.k + 1 < Need THEN [op EXCEPT !.k = @ + 1] ELSE [op EXCEPT !.pc = "attach"]
      /\ UNCHANGED <<mounted, node, refs, label, held, calls, faults, tree, doubt, torn, retried,
         moved>>
  BY DEF WriteEntry, memory, history
<1>4. SlotsTyped' /\ Writes(op.dir, op.pos + op.k, EntryToWrite)
  <2>1. op.dir \in Directories /\ EntryToWrite \in SlotType /\ SlotSane(EntryToWrite) /\ SlotsTyped
    BY <1>1, EntryTyped DEF Typed
  <2> QED BY <1>3, <2>1, Writing
<1>5. OthersTyped'
  BY <1>3 DEF Typed, OthersTyped
<1>6. NodesTyped'
  <2>1. \A e \in Directories : Len(slots'[e]) = Len(slots[e])
    BY <1>4 DEF Writes
  <2>2. NodesTyped /\ mounted' = TRUE /\ node' = node
    BY <1>2, <1>3 DEF Typed, OthersTyped
  <2> QED BY <1>2, <2>1, <2>2, NodesKept
<1>7. OpTyped'
  <2>1. /\ op' \in Ops /\ op'.kind = op.kind /\ op'.node = op.node /\ op'.dir = op.dir
        /\ op'.name = op.name /\ op'.victim = op.victim /\ op'.pos = op.pos
        /\ op'.meta = op.meta /\ op'.flush = op.flush /\ op'.stage = op.stage
        /\ op'.pc \in {"write", "attach"} /\ op'.k \in Nat
        /\ op'.pc = "write" => op'.k < Need
    BY <1>1, <1>2, <1>3 DEF Ops, Pcs
  <2>2. Need' = Need
    BY <2>1 DEF Need
  <2>3. CallTyped'
    BY <1>2, <1>3, <2>1 DEF CallTyped, CanEnter
  <2>4. PointTyped'
    BY <1>1, <1>2, <1>3, <2>1, <2>2 DEF PointTyped, Flushes
  <2> QED BY <2>1, <2>3, <2>4 DEF OpTyped, Runs
<1> QED BY <1>4, <1>5, <1>6, <1>7 DEF Typed

\* Whose entries a step of the call changes, and in which directory.
LEMMA ChangingIn ==
    ASSUME Typed, Runs
    PROVE  Changing \subseteq Ids /\ WritingTo \subseteq Directories
<1>1. op.pc \in {"erase", "detach"} => Erased \in Ids
  <2>1. CallTyped /\ PointTyped
    BY RunsMounted
  <2> QED BY <2>1 DEF PointTyped, CallTyped, Erased
<1>2. Changing \subseteq Ids
  BY <1>1 DEF Changing
<1>3. WritingTo \subseteq Directories
  BY DEF WritingTo
<1> QED BY <1>2, <1>3

\* A fault leaves what it touches, and the doubt, typed.
LEMMA FaultTyped ==
    ASSUME Typed, Runs, NEW b \in BOOLEAN, Fault(b), b => CanFault
    PROVE  faults' \in 0 .. MaxFaults /\ doubt' \subseteq Ids /\ torn' \subseteq Directories
<1>1. Changing \subseteq Ids /\ WritingTo \subseteq Directories
  BY ChangingIn
<1>2. faults \in 0 .. MaxFaults /\ doubt \subseteq Ids /\ torn \subseteq Directories
      /\ MaxFaults \in Nat
  BY ConstantsAre DEF Typed, OthersTyped
<1>3. doubt' \subseteq Ids /\ torn' \subseteq Directories
  BY <1>1, <1>2 DEF Fault
<1>4. faults' = faults + Count(b) /\ (b => faults < MaxFaults)
  BY DEF Fault, CanFault
<1>5. Count(b) = IF b THEN 1 ELSE 0
  BY DEF Count
<1>6. faults' \in 0 .. MaxFaults
  BY ONLY <1>2, <1>4, <1>5
<1> QED BY <1>3, <1>6

\* exfat_get_node and exfat_put_node, on a set of nodes.
LEMMA GetIs ==
    ASSUME refs \in [Nodes -> Int], NEW S
    PROVE  /\ Get(S) \in [Nodes -> Int] /\ Put(S) \in [Nodes -> Int]
           /\ \A n \in Nodes : Get(S)[n] = refs[n] + One(n \in S)
              /\ Put(S)[n] = refs[n] - One(n \in S)
BY DEF Get, Put, One

LEMMA GetAllIs ==
    ASSUME refs \in [Nodes -> Int], NEW a, NEW b, NEW c
    PROVE  /\ GetAll(a, b, c) \in [Nodes -> Int] /\ PutAll(a, b, c) \in [Nodes -> Int]
           /\ \A n \in Nodes :
                /\ GetAll(a, b, c)[n] = refs[n] + One(n = a) + One(n = b) + One(n = c)
                /\ PutAll(a, b, c)[n] = refs[n] - One(n = a) - One(n = b) - One(n = c)
BY DEF GetAll, PutAll, Count, One

LEMMA GiveBackTyped ==
    ASSUME refs \in [Nodes -> Int]
    PROVE  GiveBack \in [Nodes -> Int]
<1>1. Put({op.dir}) \in [Nodes -> Int] /\ Put({op.dir, op.node}) \in [Nodes -> Int]
  BY GetIs
<1> QED BY <1>1 DEF GiveBack

LEMMA IdleTyped ==
    ASSUME op' = Idle \/ \E p : op' = [pc |-> "aborted", path |-> p]
    PROVE  OpTyped'
BY DEF OpTyped, Idle, Runs

\* What the types of a call depend on in the nodes.
SameNodes ==
    \A n \in Nodes : /\ node'[n].state = node[n].state /\ node'[n].parent = node[n].parent
                     /\ node'[n].cached = node[n].cached

\* One node is replaced, the others stay.
LEMMA OneNode ==
    ASSUME NodesTyped, NEW d \in Nodes, NEW r \in NodeTypes \cup {NoNode},
           node' = [node EXCEPT ![d] = r]
    PROVE  /\ node' \in [Nodes -> NodeTypes \cup {NoNode}]
           /\ node'[d] = r /\ \A n \in Nodes : n # d => node'[n] = node[n]
<1>1. node \in [Nodes -> NodeTypes \cup {NoNode}]
  BY DEF NodesTyped
<1> QED BY <1>1

\* What follows a flush, by what it was for.
LEMMA FlushedTyped ==
    ASSUME Typed, op.pc \in Flushes, NEW ok \in BOOLEAN, Flushed(ok), SameNodes, UNCHANGED held
    PROVE  OpTyped' /\ refs' \in [Nodes -> Int]
<1>1. Runs /\ op.pc # "idle"
  BY DEF Runs, Flushes
<1>2. op \in Ops /\ CallTyped /\ PointTyped /\ mounted /\ op.ok \in BOOLEAN
  BY <1>1, RunsMounted
<1>3. refs \in [Nodes -> Int]
  BY DEF Typed, OthersTyped
<1>4. op.stage \in {"create", "room", "delete", "unmount"} /\ op.flush \in Nodes
  BY <1>2 DEF PointTyped, Ops, Stages
<1>5. CallTyped /\ PointTyped
  BY <1>2
<1>8. \A n \in Nodes : CanEnter(n)' <=> CanEnter(n)
  BY DEF SameNodes, CanEnter
<1>9. op.dir \in Directories /\ Directories \subseteq Nodes => op.dir \in Nodes
  OBVIOUS
<1>10. Directories \subseteq Nodes /\ Ids \subseteq Nodes
  BY ConstantsAre DEF Directories, Nodes
<1>6. ASSUME NEW o \in Ops, op' = o, o.kind = op.kind, o.node = op.node, o.dir = op.dir,
             o.name = op.name,
             o.victim \in {op.victim, op.node}, o.victim = op.victim \/ o.kind = "mkdir"
      PROVE  CallTyped'
  <2>1. op'.kind = op.kind /\ op'.node = op.node /\ op'.dir = op.dir /\ op'.name = op.name
        /\ op'.victim \in {op.victim, op.node} /\ (op'.victim = op.victim \/ op'.kind = "mkdir")
    BY <1>6
  <2>2. op.dir \in Directories =>
          node'[op.dir].state = node[op.dir].state /\ node'[op.dir].cached = node[op.dir].cached
    BY <1>10 DEF SameNodes
  <2>3. op.node \in Ids => node'[op.node].state = node[op.node].state
    BY <1>10 DEF SameNodes
  <2>4. held' = held
    OBVIOUS
  <2> QED BY <1>5, <2>1, <2>2, <2>3, <2>4 DEF CallTyped, Creations, CanEnter
<1>7. CASE op.stage = "create"
  <2>1. /\ op' = IF ok /\ op.kind = "mkdir" THEN [op EXCEPT !.pc = "room"] ELSE Idle
        /\ refs' = IF ok
           /\ op.kind = "mkdir" THEN [GiveBack EXCEPT ![op.node] = @ + 1] ELSE GiveBack
    BY <1>7 DEF Flushed
  <2>2. GiveBack \in [Nodes -> Int]
    BY <1>3, GiveBackTyped
  <2>3. refs' \in [Nodes -> Int]
    <3>1. \A f \in [Nodes -> Int], n \in Nodes : [f EXCEPT ![n] = @ + 1] \in [Nodes -> Int]
      OBVIOUS
    <3>2. op.kind = "mkdir" => [GiveBack EXCEPT ![op.node] = @ + 1] \in [Nodes -> Int]
      BY <1>2, <1>10, <2>2, <3>1 DEF CallTyped, Creations
    <3> QED BY <2>1, <2>2, <3>2
  <2>4. CASE ok /\ op.kind = "mkdir"
    <3>1. PICK o : o = [op EXCEPT !.pc = "room"]
      OBVIOUS
    <3>2. /\ o \in Ops /\ o.kind = op.kind /\ o.node = op.node /\ o.dir = op.dir /\ o.name = op.name
          /\ o.victim = op.victim /\ o.pc = "room" /\ o.stage = op.stage /\ o.meta = op.meta
      BY <1>2, <3>1 DEF Ops, Pcs
    <3>3. op' = o
      BY <2>1, <2>4, <3>1
    <3>4. CallTyped'
      BY <1>6, <3>2, <3>3
    <3>5. node'[op.node].state = "linked" /\ node'[op.node].parent = op.dir
      BY <1>2, <1>7, <1>10, <2>4 DEF PointTyped, CallTyped, Creations, SameNodes
    <3>6. PointTyped'
      BY <1>2, <1>7, <2>4, <3>2, <3>3, <3>5 DEF PointTyped, Flushes
    <3> QED BY <2>3, <3>2, <3>3, <3>4, <3>6 DEF OpTyped, Runs
  <2>5. CASE ~(ok /\ op.kind = "mkdir")
    BY <2>1, <2>3, <2>5, IdleTyped
  <2> QED BY <2>4, <2>5
<1>11. CASE op.stage = "room"
  <2>1. CASE ok
    <3>1. op' = Idle /\ refs' = Put({op.node})
      BY <1>11, <2>1 DEF Flushed
    <3> QED BY <1>3, <3>1, GetIs, IdleTyped
  <2>2. CASE ~ok
    <3>1. PICK o : o = [op EXCEPT !.pc = "erase", !.victim = op.node, !.k = 0, !.stage = "delete"]
      OBVIOUS
    <3>2. op' = o /\ refs' = Get({op.dir})
      BY <1>11, <2>2, <3>1 DEF Flushed
    <3>3. op.kind = "mkdir" /\ op.node \in Ids
      BY <1>2, <1>11 DEF PointTyped, CallTyped, Creations
    <3>4. /\ o \in Ops /\ o.kind = op.kind /\ o.node = op.node /\ o.dir = op.dir /\ o.name = op.name
          /\ o.victim = op.node /\ o.pc = "erase" /\ o.stage = "delete" /\ o.meta = op.meta
      BY <1>2, <3>1, <3>3 DEF Ops, Pcs, Stages
    <3>5. CallTyped'
      BY <1>6, <3>2, <3>3, <3>4
    <3>6. node'[op.node].state = "linked" /\ node'[op.node].parent = op.dir
      BY <1>2, <1>11, <1>10, <3>3 DEF PointTyped, SameNodes
    <3>7. PointTyped'
      BY <1>2, <3>2, <3>3, <3>4, <3>6 DEF PointTyped, Flushes
    <3> QED BY <1>3, <3>2, <3>4, <3>5, <3>7, GetIs DEF OpTyped, Runs
  <2> QED BY <2>1, <2>2
<1>12. CASE op.stage = "delete"
  <2>0. PICK b \in BOOLEAN : b = (op.ok /\ ok)
    OBVIOUS
  <2>1. PICK o : o = [op EXCEPT !.pc = "deleted", !.ok = b]
    OBVIOUS
  <2>2. op' = o /\ refs' = Put({op.flush})
    <3>1. op' = [op EXCEPT !.pc = "deleted", !.ok = op.ok /\ ok] /\ refs' = Put({op.flush})
      BY <1>12 DEF Flushed
    <3> QED BY <2>0, <2>1, <3>1, Zenon
  <2>3. /\ o \in Ops /\ o.kind = op.kind /\ o.node = op.node /\ o.dir = op.dir /\ o.name = op.name
        /\ o.victim = op.victim /\ o.pc = "deleted" /\ o.stage = "delete" /\ o.meta = op.meta
    BY <1>2, <1>12, <2>1 DEF Ops, Pcs
  <2>4. CallTyped'
    BY <1>6, <2>2, <2>3
  <2>5. PointTyped'
    BY <1>2, <1>12, <2>2, <2>3 DEF PointTyped, Flushes
  <2> QED BY <1>3, <2>2, <2>3, <2>4, <2>5, GetIs DEF OpTyped, Runs
<1>13. CASE op.stage = "unmount"
  <2>1. refs' = refs
    BY <1>13 DEF Flushed
  <2>2. CASE ok
    <3>1. PICK o : o = [op EXCEPT !.pc = "unmount"]
      OBVIOUS
    <3>2. op' = o
      BY <1>13, <2>2, <3>1 DEF Flushed
    <3>3. /\ o \in Ops /\ o.kind = op.kind /\ o.node = op.node /\ o.dir = op.dir /\ o.name = op.name
          /\ o.victim = op.victim /\ o.pc = "unmount" /\ o.stage = "unmount" /\ o.meta = op.meta
      BY <1>2, <1>13, <3>1 DEF Ops, Pcs
    <3>4. CallTyped'
      BY <1>6, <3>2, <3>3
    <3>5. PointTyped'
      BY <1>2, <1>13, <3>2, <3>3 DEF PointTyped, Flushes
    <3> QED BY <1>3, <2>1, <3>2, <3>3, <3>4, <3>5 DEF OpTyped, Runs
  <2>3. CASE ~ok
    <3>1. op' = [pc |-> "aborted", path |-> op.flush]
      BY <1>13, <2>3 DEF Flushed
    <3> QED BY <1>3, <2>1, <3>1, IdleTyped
  <2> QED BY <2>2, <2>3
<1> QED BY <1>4, <1>7, <1>11, <1>12, <1>13

-----------------------------------------------------------------------------
(* Types: entries written and erased                                       *)

\* A step that leaves the volume and its nodes alone.
LEMMA QuietTyped ==
    ASSUME Typed, Runs \/ op.pc = "split", UNCHANGED <<slots, mounted, node, label, held, calls, tree, moved>>,
           refs' \in [Nodes -> Int], retried' \in BOOLEAN, OpTyped',
           faults' \in 0 .. MaxFaults, doubt' \subseteq Ids, torn' \subseteq Directories
    PROVE  Typed'
<1>1. mounted
  BY DEF Typed, NodesTyped, OthersTyped, Runs, Idle
<1>2. SlotsTyped'
  BY DEF Typed, SlotsTyped
<1>3. OthersTyped'
  BY DEF Typed, OthersTyped
<1>4. NodesTyped'
  BY <1>1, NodesKept DEF Typed
<1> QED BY <1>2, <1>3, <1>4 DEF Typed

\* The parts of Typed that the steps read.
LEMMA Typing ==
    ASSUME Typed
    PROVE  /\ refs \in [Nodes -> Int] /\ label \in Labels \cup {None}
           /\ held \subseteq Ids /\ doubt \subseteq Ids
           /\ torn \subseteq Directories /\ moved \subseteq Directories
           /\ calls \in 0 .. MaxCalls /\ faults \in 0 .. MaxFaults
           /\ mounted \in BOOLEAN /\ retried \in BOOLEAN
           /\ tree \in [Ids -> (Directories \cup {None}) \X (Names \cup {None})]
           /\ SlotsTyped /\ OthersTyped /\ NodesTyped /\ OpTyped
BY DEF Typed, OthersTyped

LEMMA WriteEntryFailsTyped ==
    ASSUME Typed, WriteEntryFails
    PROVE  Typed'
<1>1. Runs
  BY DEF WriteEntryFails, Runs
<1>2. faults' \in 0 .. MaxFaults /\ doubt' \subseteq Ids /\ torn' \subseteq Directories
  BY <1>1, FaultTyped DEF WriteEntryFails
<1>3. refs' \in [Nodes -> Int]
  BY Typing, GiveBackTyped DEF WriteEntryFails
<1>4. OpTyped'
  BY IdleTyped DEF WriteEntryFails
<1>5. retried' \in BOOLEAN
  BY Typing DEF WriteEntryFails
<1> QED BY <1>1, <1>2, <1>3, <1>4, <1>5, QuietTyped DEF WriteEntryFails

\* The node that is erased.
LEMMA ErasedIs ==
    ASSUME Typed, op.pc \in {"erase", "detach"}
    PROVE  /\ Runs /\ Erased \in Ids /\ Erased \in Nodes /\ node[Erased].state = "linked"
           /\ Standing(Erased) /\ node[Erased] \in NodeTypes /\ mounted
           /\ op.stage = "delete" => op.victim \in Ids /\ Erased = op.victim
                                     /\ node[op.victim].parent = op.dir /\ op.victim # op.dir
           /\ op.stage # "delete" => op.kind = "rename" /\ op.stage = None /\ Erased = op.node
                                     /\ op.pos \in Spots /\ op.pc = "erase" /\ op.victim = None
           /\ op.dir \in Directories
           /\ Entries(node[Erased].name) \in Nat /\ Entries(node[Erased].name) > 2
<1>1. Runs
  BY DEF Runs
<1>2. CallTyped /\ PointTyped /\ mounted /\ op.kind \in Kinds
  BY <1>1, RunsMounted
<1>3. op.stage = "delete" => op.victim \in Ids /\ Erased = op.victim
                                     /\ node[op.victim].parent = op.dir
                                        /\ node[op.victim].state = "linked"
  BY <1>2 DEF PointTyped, Erased
<1>4. op.stage # "delete" => op.kind = "rename" /\ op.stage = None /\ Erased = op.node
                                     /\ op.pos \in Spots /\ op.pc = "erase" /\ op.victim = None
                                     /\ op.node \in Ids /\ node[op.node].state = "linked"
  BY <1>2 DEF PointTyped, CallTyped, Erased
<1>5. op.kind # "unmount" /\ op.kind # "label"
  BY <1>2, <1>3, <1>4, ConstantsAre DEF PointTyped, CallTyped
<1>6. op.dir \in Directories /\ (op.stage = "delete" => op.victim # op.dir)
  <2>1. op.dir \in Directories
    BY <1>2, <1>5 DEF CallTyped
  <2>2. op.stage = "delete" /\ op.kind = "mknod" => op.victim # op.dir
    BY <1>2, <1>3, ConstantsAre DEF CallTyped, Creations, Directories
  <2>3. op.stage = "delete" /\ op.kind = "mkdir" => op.victim # op.dir
    BY <1>2, <1>3, ConstantsAre DEF CallTyped, Creations
  <2>4. op.stage = "delete" /\ op.kind \in {"rename", "delete"} => op.victim # op.dir
    BY <1>2, <1>3 DEF CallTyped
  <2> QED BY <1>2, <1>5, <2>1, <2>2, <2>3, <2>4 DEF Kinds
<1>7. Erased \in Ids /\ node[Erased].state = "linked"
  BY <1>3, <1>4
<1>8. Erased \in Nodes
  BY <1>7 DEF Nodes
<1>9. Standing(Erased) /\ node[Erased] \in NodeTypes
  BY <1>2, <1>7, <1>8, NodeIs, Typing
<1>10. Entries(node[Erased].name) \in Nat /\ Entries(node[Erased].name) > 2
  <2>1. node[Erased].name \in Names
    BY <1>7, <1>9 DEF Standing
  <2>2. Pieces[node[Erased].name] \in Nat /\ Pieces[node[Erased].name] > 0
    BY <2>1, ConstantsAre
  <2> QED BY <2>2 DEF Entries
<1> QED BY <1>1, <1>2, <1>3, <1>4, <1>6, <1>7, <1>8, <1>9, <1>10

LEMMA EraseEntryTyped ==
    ASSUME Typed, EraseEntry
    PROVE  Typed'
<1>1. op.pc = "erase"
  BY DEF EraseEntry
<1>2. PICK e : e = Erased
  OBVIOUS
<1>3. PICK n : n = node[e]
  OBVIOUS
<1>4. PICK last \in BOOLEAN : last = (op.k + 1 = Entries(n.name))
  OBVIOUS
<1>5. /\ slots' = [slots EXCEPT ![n.at][n.pos + op.k] = Free]
      /\ op' = IF ~last THEN [op EXCEPT !.k = @ + 1]
               ELSE [op EXCEPT !.k = 0, !.pc = IF op.stage = "delete" THEN "detach" ELSE "write"]
      /\ node' = IF last /\ op.stage # "delete"
                 THEN [node EXCEPT ![op.node].at = op.dir, ![op.node].pos = op.pos] ELSE node
      /\ UNCHANGED <<mounted, refs, label, held, calls, faults, tree, doubt, torn, retried, moved>>
  BY <1>2, <1>3, <1>4, Zenon DEF EraseEntry, history
<1>6. /\ Runs /\ e \in Ids /\ e \in Nodes /\ n.state = "linked"
      /\ n \in NodeTypes /\ mounted
      /\ n.parent \in Directories /\ n.at \in Directories /\ n.name \in Names /\ n.pos \in Spots
      /\ e \in Folders => n.parent = Root
      /\ op.stage = "delete" => op.victim \in Ids /\ e = op.victim
                                /\ node[op.victim].parent = op.dir /\ op.victim # op.dir
      /\ op.stage # "delete" => op.kind = "rename" /\ op.stage = None /\ e = op.node
                                /\ op.pos \in Spots /\ op.victim = None
      /\ op.dir \in Directories
  BY <1>1, <1>2, <1>3, ErasedIs DEF Standing
<1>7. op \in Ops /\ CallTyped /\ PointTyped /\ op.k \in Nat
  BY <1>6, RunsMounted
<1>8. SlotsTyped' /\ Writes(n.at, n.pos + op.k, Free)
  BY <1>5, <1>6, Typing, Writing, FreeTyped
<1>9. \A d \in Directories : Len(slots'[d]) = Len(slots[d])
  BY <1>8 DEF Writes
<1>10. OthersTyped'
  BY <1>5, Typing DEF OthersTyped
<1>11. SameNodes /\ NodesTyped'
  <2>1. CASE node' = node
    <3>1. NodesTyped'
      BY <1>5, <1>6, <1>9, <2>1, NodesKept, Typing
    <3> QED BY <2>1, <3>1 DEF SameNodes
  <2>2. CASE last /\ op.stage # "delete"
    <3>1. PICK r : r = [n EXCEPT !.at = op.dir, !.pos = op.pos]
      OBVIOUS
    <3>2. op.node = e /\ op.pos \in Spots /\ op.pos \in Nat
      BY <1>6, <2>2, RunsMounted
    <3>3. /\ r \in NodeTypes /\ r.state = n.state /\ r.parent = n.parent /\ r.name = n.name
             /\ r.at = op.dir
          /\ r.pos = op.pos /\ r.size = n.size /\ r.cached = n.cached
      BY <1>6, <3>1, <3>2 DEF NodeTypes
    <3>4. node' = [node EXCEPT ![e] = r]
      <4>1. node \in [Nodes -> NodeTypes \cup {NoNode}]
        BY Typing DEF NodesTyped
      <4>2. node' = [node EXCEPT ![e].at = op.dir, ![e].pos = op.pos]
        BY <1>5, <2>2, <3>2
      <4> QED BY <1>3, <1>6, <3>1, <4>1, <4>2
    <3>5. /\ node' \in [Nodes -> NodeTypes \cup {NoNode}]
          /\ node'[e] = r /\ \A m \in Nodes : m # e => node'[m] = node[m]
      BY <1>6, <3>3, <3>4, OneNode, Typing
    <3>6. SameNodes
      BY <1>3, <3>3, <3>5 DEF SameNodes
    <3>7. Root \in Nodes /\ Root # e /\ Ids \subseteq Nodes /\ Directories \subseteq Nodes
      BY <1>6, ConstantsAre DEF Nodes, Directories
    <3>8. \A m \in Ids : Standing(m)'
      <4> SUFFICES ASSUME NEW m \in Ids PROVE Standing(m)'
        OBVIOUS
      <4>1. Standing(m)
        BY <1>6, Typing DEF NodesTyped
      <4>2. CASE m = e
        BY <1>6, <3>2, <3>3, <3>5, <4>2 DEF Standing
      <4>3. CASE m # e
        <5>1. node'[m] = node[m]
          BY <3>5, <3>7, <4>3
        <5> QED BY <4>1, <5>1 DEF Standing
      <4> QED BY <4>2, <4>3
    <3>9. \A d \in Directories : node'[d].size = node[d].size /\ (CanEnter(d)' <=> CanEnter(d))
      <4>1. \A d \in Nodes : node'[d].size = node[d].size /\ node'[d].state = node[d].state
            /\ node'[d].cached = node[d].cached
        BY <1>3, <3>3, <3>5
      <4> QED BY <3>7, <4>1 DEF CanEnter
    <3>10. mounted' /\ CanEnter(Root) /\ node[Root].size * SLOTS = Len(slots[Root])
           /\ Root \in Directories
          /\ \A d \in Directories : CanEnter(d) => node[d].size * SLOTS <= Len(slots[d])
      BY <1>5, <1>6, Typing DEF NodesTyped, Directories
    <3>11. CanEnter(Root)' /\ node'[Root].size * SLOTS = Len(slots'[Root])
          /\ \A d \in Directories : CanEnter(d)' => node'[d].size * SLOTS <= Len(slots'[d])
      BY <1>9, <3>9, <3>10
    <3> QED BY <3>5, <3>6, <3>8, <3>10, <3>11 DEF NodesTyped
  <2> QED BY <1>5, <2>1, <2>2
<1>12. OpTyped'
  <2>1. PICK o : o = op'
    OBVIOUS
  <2>2. /\ o \in Ops /\ o.kind = op.kind /\ o.node = op.node /\ o.dir = op.dir
        /\ o.name = op.name /\ o.victim = op.victim /\ o.pos = op.pos
        /\ o.meta = op.meta /\ o.flush = op.flush /\ o.stage = op.stage
        /\ (o.pc = "erase" \/ (o.pc = "detach" /\ op.stage = "delete")
              \/ (o.pc = "write" /\ op.stage # "delete" /\ o.k = 0))
    <3>1. CASE ~last
      <4>1. o = [op EXCEPT !.k = op.k + 1]
        BY <1>5, <2>1, <3>1
      <4> QED BY <1>1, <1>7, <4>1 DEF Ops, Pcs
    <3>2. CASE last /\ op.stage = "delete"
      <4>1. o = [op EXCEPT !.k = 0, !.pc = "detach"]
        BY <1>5, <2>1, <3>2
      <4> QED BY <1>1, <1>7, <3>2, <4>1, ZenonT(40) DEF Ops, Pcs
    <3>3. CASE last /\ op.stage # "delete"
      <4>1. o = [op EXCEPT !.k = 0, !.pc = "write"]
        BY <1>5, <2>1, <3>3
      <4> QED BY <1>1, <1>7, <3>3, <4>1, ZenonT(40) DEF Ops, Pcs
    <3> QED BY <3>1, <3>2, <3>3
  <2>3. Directories \subseteq Nodes /\ Ids \subseteq Nodes
    BY ConstantsAre DEF Nodes, Directories
  <2>4. op.dir \in Directories => node'[op.dir].state = node[op.dir].state
        /\ node'[op.dir].cached = node[op.dir].cached
    BY <1>11, <2>3 DEF SameNodes
  <2>5. op.node \in Ids => node'[op.node].state = node[op.node].state
    BY <1>11, <2>3 DEF SameNodes
  <2>6. op.victim \in Ids => node'[op.victim].state = node[op.victim].state
        /\ node'[op.victim].parent = node[op.victim].parent
    BY <1>11, <2>3 DEF SameNodes
  <2>7. CallTyped'
    BY <1>5, <1>7, <2>1, <2>2, <2>4, <2>5 DEF CallTyped, Creations, CanEnter
  <2>8. op.kind = "rename" => op.name \in Names
    BY <1>7 DEF CallTyped
  <2>9. o.pc = "write" => o.k < Need'
    <3>1. o.pc = "write" => op.kind = "rename" /\ op.name \in Names /\ o.k = 0
      BY <1>6, <2>2, <2>8
    <3>2. o.pc = "write" => Need' = Entries(op.name) /\ Entries(op.name) \in Nat
          /\ Entries(op.name) > 2
      <4>1. o.pc = "write" => Pieces[op.name] \in Nat
        BY <3>1, ConstantsAre
      <4>2. o.pc = "write" => Need' = Entries(op.name)
        BY <2>1, <2>2, <3>1 DEF Need
      <4>3. o.pc = "write" => Entries(op.name) \in Nat /\ Entries(op.name) > 0
        BY <4>1 DEF Entries
      <4>4. o.pc = "write" => Pieces[op.name] > 0
        BY <3>1, ConstantsAre
      <4> QED BY <4>1, <4>2, <4>4 DEF Entries
    <3> QED BY <3>1, <3>2
  <2>10. PointTyped'
    BY <1>1, <1>6, <1>7, <2>1, <2>2, <2>6, <2>9 DEF PointTyped, Flushes
  <2> QED BY <2>1, <2>2, <2>7, <2>10 DEF OpTyped, Runs
<1> QED BY <1>8, <1>10, <1>11, <1>12 DEF Typed

LEMMA EraseEntryFailsTyped ==
    ASSUME Typed, EraseEntryFails
    PROVE  Typed'
<1>1. op.pc = "erase" /\ Runs
  BY DEF EraseEntryFails, Runs
<1>2. op \in Ops /\ CallTyped /\ PointTyped
  BY <1>1, RunsMounted
<1>6. faults' \in 0 .. MaxFaults /\ doubt' \subseteq Ids /\ torn' \subseteq Directories
  <2>1. Changing \subseteq Ids /\ WritingTo \subseteq Directories
    BY <1>1, ChangingIn
  <2>2. faults' \in {faults, faults + 1} /\ doubt' \in {doubt, doubt \cup Changing}
        /\ torn' \in {torn, torn \cup WritingTo} /\ faults' <= MaxFaults
    BY Typing DEF EraseEntryFails, Fault, Count
  <2> QED BY <2>1, <2>2, Typing, ConstantsAre
<1>7. retried' \in BOOLEAN
  BY Typing DEF EraseEntryFails
<1>8. OpTyped' /\ refs' \in [Nodes -> Int]
  <2>1. CASE op.stage = "delete"
    <3>1. PICK o : o = [op EXCEPT !.pc = "deleted", !.ok = FALSE]
      OBVIOUS
    <3>2. op' = o /\ refs' = Put({node[op.victim].parent}) /\ UNCHANGED <<node, held>>
      BY <2>1, <3>1 DEF EraseEntryFails
    <3>3. /\ o \in Ops /\ o.kind = op.kind /\ o.node = op.node /\ o.dir = op.dir
          /\ o.name = op.name /\ o.victim = op.victim /\ o.pos = op.pos
          /\ o.meta = op.meta /\ o.flush = op.flush /\ o.stage = op.stage /\ o.pc = "deleted"
      BY <1>2, <3>1 DEF Ops, Pcs
    <3>4. CallTyped'
      BY <1>2, <3>2, <3>3 DEF CallTyped, CanEnter
    <3>5. op.kind \in {"mkdir", "rename", "delete"}
      <4>1. op.kind \in Kinds /\ op.victim \in Ids /\ op.kind # "unmount"
        BY <1>1, <1>2, <2>1, RunsMounted DEF PointTyped
      <4>2. op.kind # "label"
        BY <1>2, <4>1, ConstantsAre DEF CallTyped
      <4> QED BY <1>1, <1>2, <2>1, <4>1, <4>2 DEF PointTyped
    <3>6. PointTyped'
      BY <1>1, <1>2, <2>1, <3>2, <3>3, <3>5 DEF PointTyped, Flushes
    <3> QED BY <3>2, <3>3, <3>4, <3>6, Typing, GetIs DEF OpTyped, Runs
  <2>2. CASE op.stage # "delete"
    <3>1. refs' = GiveBack /\ op' = Idle
      BY <2>2 DEF EraseEntryFails
    <3> QED BY <3>1, Typing, GiveBackTyped, IdleTyped
  <2> QED BY <2>1, <2>2
<1> QED BY <1>1, <1>6, <1>7, <1>8, QuietTyped DEF EraseEntryFails

-----------------------------------------------------------------------------
(* Types: a place for entries                                              *)

\* find_slot: a run of free entries, or what is free at the end.
LEMMA SlotForIs ==
    ASSUME NEW U, NEW s \in Seq(U), NEW need \in Nat, need > 0
    PROVE  /\ SlotFor(s, need) \in 1 .. Len(s) + 1
           /\ \A i \in 1 .. Len(s) : SlotFor(s, need) <= i
              /\ i < SlotFor(s, need) + need => s[i].t = "free"
<1> DEFINE free(p, q) == \A i \in p .. q : s[i].t = "free"
           fits == {p \in 1 .. Len(s) - need + 1 : free(p, p + need - 1)}
           tails == {p \in 1 .. Len(s) + 1 : free(p, Len(s))}
           least(S) == CHOOSE p \in S : \A q \in S : p <= q
<1>1. SlotFor(s, need) = IF fits # {} THEN least(fits) ELSE least(tails)
  BY DEF SlotFor
<1>2. Len(s) \in Nat
  OBVIOUS
<1>3. fits \subseteq Nat /\ tails \subseteq Nat
  BY <1>2
<1>4. Len(s) + 1 \in tails
  BY <1>2
<1>5. \A S : S \subseteq Nat /\ S # {} => least(S) \in S
  <2> SUFFICES ASSUME NEW S, S \subseteq Nat, S # {} PROVE least(S) \in S
    OBVIOUS
  <2>1. \E p \in S : \A q \in S : p <= q
    BY LeastElement
  <2> QED BY <2>1, Zenon
<1>6. CASE fits # {}
  <2>1. PICK p : p = least(fits)
    OBVIOUS
  <2>2. p \in fits /\ SlotFor(s, need) = p
    BY <1>1, <1>3, <1>5, <1>6, <2>1
  <2>3. p \in 1 .. Len(s) - need + 1 /\ \A i \in p .. p + need - 1 : s[i].t = "free"
    BY <2>2
  <2> HIDE DEF fits, tails, least, free
  <2>4. p \in 1 .. Len(s) + 1 /\ \A i \in 1 .. Len(s) : p <= i
        /\ i < p + need => i \in p .. p + need - 1
    BY <1>2, <2>3
  <2> QED BY <2>2, <2>3, <2>4
<1>7. CASE fits = {}
  <2>1. PICK p : p = least(tails)
    OBVIOUS
  <2>2. p \in tails /\ SlotFor(s, need) = p
    BY <1>1, <1>3, <1>4, <1>5, <1>7, <2>1
  <2>3. p \in 1 .. Len(s) + 1 /\ \A i \in p .. Len(s) : s[i].t = "free"
    BY <2>2
  <2> HIDE DEF fits, tails, least, free
  <2>4. \A i \in 1 .. Len(s) : p <= i => i \in p .. Len(s)
    BY <1>2, <2>3
  <2> QED BY <2>2, <2>3, <2>4
<1> QED BY <1>6, <1>7

\* The slots that a search sees of a directory.
LEMMA VisibleIs ==
    ASSUME SlotsTyped, NEW d \in Directories, NEW c \in Nat, c * SLOTS <= Len(slots[d])
    PROVE  /\ Visible(d, c) \in Seq(SlotType) /\ Len(Visible(d, c)) = c * SLOTS
           /\ \A i \in 1 .. c * SLOTS : Visible(d, c)[i] = SlotAt(d, i)
<1>1. slots[d] \in Seq(SlotType) /\ DOMAIN slots[d] = 1 .. Len(slots[d])
      /\ \A p \in DOMAIN slots[d] : SlotAt(d, p) = slots[d][p]
  BY SlotIs
<1>2. PICK U : U = SlotType
  OBVIOUS
<1>3. PICK s : s = slots[d]
  OBVIOUS
<1>4. PICK n : n = c * SLOTS
  OBVIOUS
<1>5. n \in Nat
  BY <1>4, WholeClusters
<1>6. s \in Seq(U) /\ n <= Len(s)
  BY <1>1, <1>2, <1>3, <1>4
<1>7. SubSeq(s, 1, n) \in Seq(U) /\ Len(SubSeq(s, 1, n)) = n
      /\ \A i \in 1 .. n : SubSeq(s, 1, n)[i] = s[i]
  BY ONLY <1>5, <1>6
<1>8. Visible(d, c) = SubSeq(s, 1, n)
  BY <1>3, <1>4 DEF Visible
<1>9. \A i \in 1 .. n : i \in 1 .. Len(s)
  BY <1>5, <1>6
<1> QED BY <1>1, <1>2, <1>3, <1>4, <1>7, <1>8, <1>9

LEMMA NeedIs ==
    ASSUME Typed, op.pc \in {"slot", "write", "attach"}
    PROVE  /\ Need \in Nat /\ Need > 0 /\ op.dir \in Directories /\ CanEnter(op.dir)
           /\ op.kind \in {"mknod", "mkdir", "rename", "label"}
           /\ op.kind # "label" => op.node \in Ids /\ op.name \in Names
              /\ Need = Entries(op.name) /\ Need > 2
           /\ op.kind = "label" => op.dir = Root
<1>1. Runs
  BY DEF Runs
<1>2. CallTyped /\ PointTyped /\ op.kind \in Kinds
  BY <1>1, RunsMounted
<1>3. op.kind \in {"mknod", "mkdir", "rename", "label"}
  BY <1>2 DEF PointTyped, Kinds
<1>4. op.kind # "label" => op.node \in Ids /\ op.name \in Names
  BY <1>2, <1>3 DEF CallTyped, Creations
<1>5. op.kind # "label" => Pieces[op.name] \in Nat /\ Pieces[op.name] > 0
  BY <1>4, ConstantsAre
<1>6. Need \in Nat /\ Need > 0 /\ (op.kind # "label" => Need = Entries(op.name) /\ Need > 2)
  BY <1>5 DEF Need, Entries
<1>7. op.dir \in Directories /\ CanEnter(op.dir) /\ (op.kind = "label" => op.dir = Root)
  BY <1>2, <1>3 DEF CallTyped
<1> QED BY <1>3, <1>4, <1>6, <1>7

\* The size of a directory that is cached.
LEMMA SizeIs ==
    ASSUME NodesTyped, mounted, NEW d \in Directories, CanEnter(d)
    PROVE  /\ d \in Nodes /\ node[d] \in NodeTypes
           /\ node[d].size \in 0 .. MaxClusters /\ node[d].size \in Nat
              /\ node[d].size * SLOTS \in Nat
           /\ node[d].size * SLOTS <= Len(slots[d])
<1>1. d \in Nodes
  BY ConstantsAre DEF Directories, Nodes
<1>2. node[d].state = "linked" /\ node[d].size * SLOTS <= Len(slots[d])
  BY DEF NodesTyped, CanEnter
<1>3. node[d] \in NodeTypes
  BY <1>1, <1>2, NodeIs
<1>4. node[d].size \in 0 .. MaxClusters
  BY <1>3, NodeHas
<1>5. node[d].size \in Nat
  BY <1>4, ConstantsAre
<1> QED BY <1>1, <1>2, <1>3, <1>4, <1>5, WholeClusters

\* find_slot finds a place within the directory as it is or as it grows.
LEMMA SoughtIs ==
    ASSUME Typed, op.pc = "slot"
    PROVE  /\ Sought.pos \in Nat /\ Sought.pos > 0 /\ Sought.size \in Nat
              /\ Sought.grows \in BOOLEAN
           /\ Sought.pos + Need - 1 <= Sought.size * SLOTS
           /\ Sought.grows => node[op.dir].size < Sought.size
           /\ ~Sought.grows => Sought.size = node[op.dir].size
           /\ \A i \in 1 .. node[op.dir].size * SLOTS :
                Sought.pos <= i /\ i < Sought.pos + Need => SlotAt(op.dir, i).t = "free"
<1>1. Need \in Nat /\ Need > 0 /\ op.dir \in Directories /\ CanEnter(op.dir)
  BY NeedIs
<1>2. PICK d : d = op.dir
  OBVIOUS
<1>3. PICK c : c = node[op.dir].size
  OBVIOUS
<1>4. mounted
  BY RunsMounted DEF Runs
<1>5. c \in Nat /\ c * SLOTS \in Nat /\ c * SLOTS <= Len(slots[d]) /\ d \in Directories
  BY <1>1, <1>2, <1>3, <1>4, SizeIs, Typing
<1>6. PICK s : s = Visible(d, c)
  OBVIOUS
<1>7. s \in Seq(SlotType) /\ Len(s) = c * SLOTS /\ \A i \in 1 .. c * SLOTS : s[i] = SlotAt(d, i)
  BY <1>5, <1>6, VisibleIs, Typing
<1>8. PICK p : p = SlotFor(s, Need)
  OBVIOUS
<1>9. p \in 1 .. Len(s) + 1 /\ \A i \in 1 .. Len(s) : p <= i /\ i < p + Need => s[i].t = "free"
  BY <1>1, <1>7, <1>8, SlotForIs
<1>10. p \in Nat /\ p > 0 /\ p + Need - 1 \in Nat /\ p + Need - 1 > 0
  BY <1>1, <1>5, <1>7, <1>9
<1>11. PICK e : e = p + Need - 1
  OBVIOUS
<1>12. Clusters(e) \in Nat /\ e <= Clusters(e) * SLOTS
  BY <1>10, <1>11, RoomOf
<1>13. PICK fits \in BOOLEAN : fits <=> (e <= Len(s))
  OBVIOUS
<1>14. Sought = [pos |-> p, grows |-> ~fits, size |-> IF fits THEN c ELSE Clusters(e)]
  <2>1. Sought = [pos |-> p, grows |-> ~(e <= Len(s)),
        size |-> IF e <= Len(s) THEN c ELSE Clusters(e)]
    BY <1>2, <1>3, <1>6, <1>8, <1>11 DEF Sought
  <2> QED BY <1>13, <2>1
<1>15. Sought.pos = p /\ Sought.grows = (~fits) /\ Sought.size = IF fits THEN c ELSE Clusters(e)
  BY <1>14
<1>16. CASE fits
  <2>1. e <= c * SLOTS
    BY <1>7, <1>13, <1>16
  <2> QED BY <1>2, <1>3, <1>5, <1>7, <1>9, <1>10, <1>11, <1>15, <1>16, <2>1
<1>17. CASE ~fits
  <2>1. c * SLOTS < e
    BY <1>5, <1>7, <1>10, <1>11, <1>13, <1>17
  <2>2. c < Clusters(e)
    <3>1. SUFFICES ASSUME Clusters(e) <= c PROVE FALSE
      BY <1>5, <1>12
    <3>2. Clusters(e) * SLOTS <= c * SLOTS
      BY <1>5, <1>12, <3>1, MoreClusters
    <3>3. Clusters(e) * SLOTS \in Nat
      BY <1>12, WholeClusters
    <3> QED BY <1>5, <1>10, <1>11, <1>12, <2>1, <3>2, <3>3
  <2> QED BY <1>2, <1>3, <1>5, <1>7, <1>9, <1>10, <1>11, <1>12, <1>15, <1>17, <2>2
<1> QED BY <1>16, <1>17

\* A directory that grows keeps its types, in memory and on the medium.
LEMMA GrownTyped ==
    ASSUME Typed, op.pc = "slot", NEW size \in 0 .. MaxClusters, Grown(size), UNCHANGED mounted
    PROVE  /\ SlotsTyped' /\ NodesTyped' /\ SameNodes /\ Resizes(op.dir, size)
           /\ \A n \in Nodes : n # op.dir => node'[n] = node[n]
           /\ \A n \in Nodes : /\ node'[n].name = node[n].name /\ node'[n].at = node[n].at
                               /\ node'[n].pos = node[n].pos
           /\ node'[op.dir].size = size /\ node'[op.dir].dirty = TRUE
<1>1. PICK d : d = op.dir
  OBVIOUS
<1>2. mounted /\ mounted' = TRUE
  BY RunsMounted, Typing DEF Runs
<1>3. d \in Directories /\ CanEnter(d) /\ d \in Nodes /\ node[d] \in NodeTypes
  BY <1>1, <1>2, NeedIs, SizeIs, Typing
<1>4. slots' = [slots EXCEPT ![d] = Resized(d, size)]
      /\ node' = [node EXCEPT ![d].size = size, ![d].dirty = TRUE]
  BY <1>1 DEF Grown
<1>5. SlotsTyped' /\ Resizes(d, size)
  BY <1>3, <1>4, Resizing, Typing
<1>6. PICK r : r = [node[d] EXCEPT !.size = size, !.dirty = TRUE]
  OBVIOUS
<1>7. /\ r \in NodeTypes /\ r.state = node[d].state /\ r.parent = node[d].parent
         /\ r.name = node[d].name
      /\ r.at = node[d].at /\ r.pos = node[d].pos /\ r.size = size /\ r.cached = node[d].cached
         /\ r.dirty = TRUE
  BY <1>3, <1>6 DEF NodeTypes
<1>8. node' = [node EXCEPT ![d] = r]
  <2>1. node \in [Nodes -> NodeTypes \cup {NoNode}]
    BY Typing DEF NodesTyped
  <2> QED BY <1>3, <1>4, <1>6, <2>1
<1>9. /\ node' \in [Nodes -> NodeTypes \cup {NoNode}]
      /\ node'[d] = r /\ \A m \in Nodes : m # d => node'[m] = node[m]
  BY <1>3, <1>7, <1>8, OneNode, Typing
<1>10. SameNodes
  BY <1>7, <1>9 DEF SameNodes
<1>11. \A n \in Nodes : /\ node'[n].name = node[n].name /\ node'[n].at = node[n].at
                        /\ node'[n].pos = node[n].pos
  BY <1>7, <1>9
<1>12. Directories \subseteq Nodes /\ Ids \subseteq Nodes /\ Root \in Directories
  BY ConstantsAre DEF Nodes, Directories
<1>13. /\ CanEnter(Root) /\ node[Root].size * SLOTS = Len(slots[Root]) /\ \A m \in Ids : Standing(m)
       /\ \A e \in Directories : CanEnter(e) => node[e].size * SLOTS <= Len(slots[e])
  BY <1>2, Typing DEF NodesTyped
<1>14. \A m \in Ids : Standing(m)'
  <2> SUFFICES ASSUME NEW m \in Ids PROVE Standing(m)'
    OBVIOUS
  <2>1. node'[m].state = node[m].state /\ node'[m].parent = node[m].parent
    BY <1>10, <1>12 DEF SameNodes
  <2>2. node'[m].name = node[m].name /\ node'[m].at = node[m].at /\ node'[m].pos = node[m].pos
    BY <1>11, <1>12
  <2> QED BY <1>13, <2>1, <2>2 DEF Standing
<1>15. \A e \in Directories : CanEnter(e)' <=> CanEnter(e)
  BY <1>10, <1>12 DEF SameNodes, CanEnter
<1>16. Len(slots'[d]) = size * SLOTS /\ \A e \in Directories : e # d => slots'[e] = slots[e]
  BY <1>5 DEF Resizes
<1>17. \A e \in Directories : IF e = d THEN node'[e].size * SLOTS = Len(slots'[e])
                             ELSE node'[e] = node[e] /\ slots'[e] = slots[e]
  BY <1>7, <1>9, <1>12, <1>16
<1>18. \A e \in Directories : Len(slots'[e]) \in Nat
  BY <1>5, SlotIs
<1>19. CanEnter(Root)' /\ node'[Root].size * SLOTS = Len(slots'[Root])
  BY <1>12, <1>13, <1>15, <1>17
<1>20. \A e \in Directories : CanEnter(e)' => node'[e].size * SLOTS <= Len(slots'[e])
  <2> SUFFICES ASSUME NEW e \in Directories, CanEnter(e)'
               PROVE node'[e].size * SLOTS <= Len(slots'[e])
    OBVIOUS
  <2>1. CASE e = d
    <3>1. size * SLOTS \in Nat
      BY WholeClusters, ConstantsAre
    <3>2. node'[e].size * SLOTS = size * SLOTS /\ Len(slots'[e]) = size * SLOTS
      BY <1>7, <1>9, <1>16, <2>1
    <3> QED BY <3>1, <3>2
  <2>2. CASE e # d
    BY <1>13, <1>15, <1>17, <2>2
  <2> QED BY <2>1, <2>2
<1>21. NodesTyped'
  BY <1>2, <1>9, <1>14, <1>19, <1>20 DEF NodesTyped
<1> QED BY <1>1, <1>5, <1>7, <1>9, <1>10, <1>11, <1>21

LEMMA Sorts == Directories \subseteq Nodes /\ Ids \subseteq Nodes /\ Root \in Directories
/\ Root \in Nodes
               /\ Folders \subseteq Directories /\ Folders \subseteq Ids /\ Root \notin Ids
               /\ \A d \in Directories : d # Root => d \in Folders
BY ConstantsAre DEF Nodes, Directories

\* The types of the nodes, from those of the nodes that changed.
LEMMA NodesFrom ==
    ASSUME NodesTyped, mounted, mounted' = TRUE, node' \in [Nodes -> NodeTypes \cup {NoNode}],
           CanEnter(Root)',
           \A d \in Directories : CanEnter(d)' => CanEnter(d) /\ node'[d].size = node[d].size,
           \A d \in Directories : Len(slots'[d]) = Len(slots[d]),
           \A m \in Ids : Standing(m)'
    PROVE  NodesTyped'
<1>1. Root \in Directories
  BY Sorts
<1>2. /\ CanEnter(Root) /\ node[Root].size * SLOTS = Len(slots[Root])
      /\ \A e \in Directories : CanEnter(e) => node[e].size * SLOTS <= Len(slots[e])
  BY DEF NodesTyped
<1>3. node'[Root].size * SLOTS = Len(slots'[Root])
  BY <1>1, <1>2
<1>4. \A e \in Directories : CanEnter(e)' => node'[e].size * SLOTS <= Len(slots'[e])
  BY <1>2
<1> QED BY <1>3, <1>4 DEF NodesTyped

LEMMA TwoNodes ==
    ASSUME NodesTyped, NEW d \in Nodes, NEW r \in NodeTypes \cup {NoNode},
           NEW e \in Nodes, NEW q \in NodeTypes \cup {NoNode}, e # d,
           node' = [node EXCEPT ![d] = r, ![e] = q]
    PROVE  /\ node' \in [Nodes -> NodeTypes \cup {NoNode}]
           /\ node'[d] = r /\ node'[e] = q /\ \A n \in Nodes : n # d /\ n # e => node'[n] = node[n]
<1>1. node \in [Nodes -> NodeTypes \cup {NoNode}]
  BY DEF NodesTyped
<1> QED BY <1>1

LEMMA FindSlotTyped ==
    ASSUME Typed, FindSlot
    PROVE  Typed'
<1>1. op.pc = "slot" /\ Runs /\ Sought.size <= MaxClusters
  BY DEF FindSlot, Runs
<1>2. op \in Ops /\ CallTyped /\ PointTyped /\ mounted
  BY <1>1, RunsMounted
<1>3. UNCHANGED <<mounted, refs, label, held, calls, faults, tree, doubt, torn, retried, moved>>
  BY DEF FindSlot, history
<1>4. /\ op.dir \in Directories /\ CanEnter(op.dir)
         /\ op.kind \in {"mknod", "mkdir", "rename", "label"}
      /\ Need \in Nat /\ Need > 0
      /\ op.kind # "label" => op.node \in Ids /\ op.name \in Names
  BY <1>1, NeedIs
<1>5. /\ Sought.pos \in Nat /\ Sought.pos > 0 /\ Sought.size \in Nat /\ Sought.grows \in BOOLEAN
      /\ Sought.pos + Need - 1 <= Sought.size * SLOTS
  BY <1>1, SoughtIs
<1>6. SlotsTyped' /\ NodesTyped' /\ SameNodes
  <2>1. CASE Sought.grows
    <3>1. Grown(Sought.size) /\ Sought.size \in 0 .. MaxClusters
      BY <1>1, <1>5, <2>1, ConstantsAre DEF FindSlot
    <3> QED BY <1>1, <1>3, <3>1, GrownTyped
  <2>2. CASE ~Sought.grows
    <3>1. slots' = slots /\ node' = node /\ mounted' = TRUE
      BY <1>2, <1>3, <2>2, Typing DEF FindSlot
    <3>2. SlotsTyped'
      BY <3>1, Typing DEF SlotsTyped
    <3> QED BY <1>2, <3>1, <3>2, NodesKept, Typing DEF SameNodes
  <2> QED BY <1>5, <2>1, <2>2
<1>7. OthersTyped'
  BY <1>3, Typing DEF OthersTyped
<1>8. PICK g \in BOOLEAN : g = Sought.grows
  BY <1>5
<1>9. PICK p : p = Sought.pos
  OBVIOUS
<1>10. PICK meta : meta = IF op.kind = "rename"
                          THEN <<SlotAt(node[op.node].at, node[op.node].pos),
                                 SlotAt(node[op.node].at, node[op.node].pos + 1)>>
                          ELSE op.meta
  OBVIOUS
<1>11. meta \in SlotType \X SlotType /\ SlotSane(meta[1]) /\ SlotSane(meta[2])
  <2>1. CASE op.kind = "rename"
    <3>1. node[op.node].state = "linked" /\ op.node \in Nodes
      BY <1>2, <1>4, <2>1, Sorts DEF CallTyped
    <3>2. node[op.node].at \in Directories
      BY <1>2, <1>4, <2>1, <3>1, NodeIs, Typing DEF Standing
    <3>3. \A q : SlotAt(node[op.node].at, q) \in SlotType /\ SlotSane(SlotAt(node[op.node].at, q))
      BY <3>2, SlotIs, Typing
    <3>4. PICK a \in SlotType, b \in SlotType : /\ SlotSane(a) /\ SlotSane(b) /\ meta = <<a, b>>
      BY <1>10, <2>1, <3>3
    <3> QED BY <3>4
  <2>2. CASE op.kind # "rename"
    BY <1>1, <1>2, <1>10, <2>2, RunsMounted DEF PointTyped
  <2> QED BY <2>1, <2>2
<1>12. PICK c : c = IF op.kind = "rename" THEN "erase" ELSE "write"
  OBVIOUS
<1>13. op' = [op EXCEPT !.pc = c, !.pos = p, !.k = 0, !.grew = g, !.meta = meta]
  <2>1. op' = [op EXCEPT !.pc = IF op.kind = "rename" THEN "erase" ELSE "write",
                        !.pos = Sought.pos, !.k = 0, !.grew = Sought.grows,
                        !.meta = IF op.kind = "rename"
                                 THEN <<SlotAt(node[op.node].at, node[op.node].pos),
                                        SlotAt(node[op.node].at, node[op.node].pos + 1)>>
                                 ELSE op.meta]
    BY DEF FindSlot
  <2> QED BY <1>8, <1>9, <1>10, <1>12, <2>1
<1>14. PICK o : o = op'
  OBVIOUS
<1>15. /\ o \in Ops /\ o.kind = op.kind /\ o.node = op.node /\ o.dir = op.dir
       /\ o.name = op.name /\ o.victim = op.victim /\ o.pos = p /\ o.k = 0
       /\ o.meta = meta /\ o.flush = op.flush /\ o.stage = op.stage /\ o.pc = c
       /\ c \in {"erase", "write"}
  <2>1. o = [op EXCEPT !.pc = c, !.pos = p, !.k = 0, !.grew = g, !.meta = meta]
    BY <1>13, <1>14
  <2>2. c \in {"erase", "write"} /\ p \in Nat
    BY <1>5, <1>9, <1>12
  <2> QED BY <1>2, <1>8, <1>11, <2>1, <2>2, ZenonT(40) DEF Ops, Pcs
<1>16. op.dir \in Nodes /\ (op.node \in Ids => op.node \in Nodes)
  BY <1>4, Sorts
<1>17. CallTyped'
  BY <1>2, <1>3, <1>4, <1>6, <1>14, <1>15, <1>16 DEF CallTyped, Creations, CanEnter, SameNodes
<1>18. p \in Spots
  <2>1. Sought.size * SLOTS <= MaxClusters * SLOTS /\ MaxClusters * SLOTS \in Nat
        /\ Sought.size * SLOTS \in Nat
    BY <1>1, <1>5, MoreClusters, ConstantsAre, WholeClusters
  <2>2. p <= MaxClusters * SLOTS
    BY <1>4, <1>5, <1>9, <2>1
  <2> QED BY <1>5, <1>9, <2>1, <2>2 DEF Spots
<1>19. Need' = Need
  BY <1>14, <1>15 DEF Need
<1>20. PointTyped'
  <2>1. op.stage = None /\ op.victim = None
    BY <1>1, <1>2, <1>4 DEF PointTyped, CallTyped, Creations
  <2>2. op'.k < Need'
    BY <1>4, <1>14, <1>15, <1>19
  <2>3. /\ op'.kind = op.kind /\ op'.victim = None /\ op'.stage = None /\ op'.pos \in Spots
           /\ op'.meta = meta
        /\ op'.pc = IF op.kind = "rename" THEN "erase" ELSE "write"
    BY <1>12, <1>14, <1>15, <1>18, <2>1
  <2>4. SlotSane(op'.meta[1]) /\ SlotSane(op'.meta[2])
    BY <1>11, <2>3
  <2> QED BY ONLY <1>4, <2>2, <2>3, <2>4 DEF PointTyped, Flushes, Creations, None
<1>21. OpTyped'
  BY <1>14, <1>15, <1>17, <1>20 DEF OpTyped, Runs
<1> QED BY <1>6, <1>7, <1>21 DEF Typed

LEMMA FindSlotFailsTyped ==
    ASSUME Typed, FindSlotFails
    PROVE  Typed'
<1>1. op.pc = "slot" /\ Runs
  BY DEF FindSlotFails, Runs
<1>2. mounted /\ WritingTo \subseteq Directories
  BY <1>1, RunsMounted, ChangingIn
<1>3. /\ UNCHANGED <<mounted, label, held, calls, tree, doubt, retried, moved>>
      /\ refs' = GiveBack /\ op' = Idle
      /\ \/ UNCHANGED <<slots, node, faults, torn>>
         \/ /\ faults < MaxFaults /\ faults' = faults + 1 /\ torn' = torn \cup WritingTo
            /\ UNCHANGED <<slots, node>> \/ (Sought.size <= MaxClusters /\ Grown(Sought.size))
  BY DEF FindSlotFails, CanFault
<1>4. refs' \in [Nodes -> Int] /\ OpTyped'
  BY <1>3, GiveBackTyped, Typing, IdleTyped
<1>5. OthersTyped'
  BY <1>2, <1>3, <1>4, Typing, ConstantsAre DEF OthersTyped
<1>6. SlotsTyped' /\ NodesTyped'
  <2>1. CASE UNCHANGED <<slots, node>>
    <3>1. mounted' = TRUE
      BY <1>2, <1>3, Typing
    <3>2. SlotsTyped'
      BY <2>1, Typing DEF SlotsTyped
    <3> QED BY <1>2, <2>1, <3>1, <3>2, NodesKept, Typing
  <2>2. CASE Sought.size <= MaxClusters /\ Grown(Sought.size)
    <3>1. Sought.size \in 0 .. MaxClusters
      BY <1>1, <2>2, SoughtIs, ConstantsAre
    <3> QED BY <1>1, <1>3, <2>2, <3>1, GrownTyped
  <2> QED BY <1>3, <2>1, <2>2
<1> QED BY <1>4, <1>5, <1>6 DEF Typed

LEMMA AttachTyped ==
    ASSUME Typed, Attach
    PROVE  Typed'
<1>1. op.pc = "attach" /\ Runs
  BY DEF Attach, Runs
<1>2. op \in Ops /\ CallTyped /\ PointTyped /\ mounted
  BY <1>1, RunsMounted
<1>3. UNCHANGED <<slots, mounted, held, calls, faults, doubt, torn, retried>>
  BY DEF Attach
<1>4. /\ op.dir \in Directories /\ CanEnter(op.dir)
         /\ op.kind \in {"mknod", "mkdir", "rename", "label"}
      /\ op.kind # "label" => op.node \in Ids /\ op.name \in Names
  BY <1>1, NeedIs
<1>5. op.dir \in Nodes /\ (op.node \in Ids => op.node \in Nodes)
  BY <1>4, Sorts
<1>6. SlotsTyped' /\ mounted' = TRUE /\ \A e \in Directories : Len(slots'[e]) = Len(slots[e])
  BY <1>2, <1>3, Typing DEF SlotsTyped
<1>7. tree' = (IF op.kind = "label" THEN tree ELSE [tree EXCEPT ![op.node] = <<op.dir, op.name>>])
  BY DEF Attach
<1>8. tree' \in [Ids -> (Directories \cup {None}) \X (Names \cup {None})]
  BY <1>4, <1>7, Typing
<1>9. \A m \in Ids : Standing(m)
  BY <1>2, Typing DEF NodesTyped
<1>10. CASE op.kind \in {"mknod", "mkdir"}
  <2>1. /\ node' = [node EXCEPT ![op.node] = NodeAt(op.dir, op.pos, op.name, 0, FALSE),
           ![op.dir].dirty = TRUE]
        /\ op' = FlushNext(op.dir, "create")
        /\ UNCHANGED <<refs, label, moved>>
    BY <1>10 DEF Attach
  <2>2. op.node # op.dir /\ op.pos \in Spots /\ op.victim = None
        /\ (op.node \in Folders => op.dir = Root)
    BY <1>1, <1>2, <1>4, <1>10, Sorts DEF CallTyped, PointTyped, Creations
  <2>3. PICK r : r = NodeAt(op.dir, op.pos, op.name, 0, FALSE)
    OBVIOUS
  <2>4. /\ r \in NodeTypes /\ r.state = "linked" /\ r.parent = op.dir /\ r.name = op.name
           /\ r.at = op.dir
        /\ r.pos = op.pos /\ r.size = 0 /\ r.cached = FALSE
    BY <1>2, <1>4, <1>10, <2>2, <2>3, ConstantsAre DEF NodeAt, NodeTypes, Ops
  <2>5. node[op.dir] \in NodeTypes
    BY <1>2, <1>4, SizeIs, Typing
  <2>6. PICK q : q = [node[op.dir] EXCEPT !.dirty = TRUE]
    OBVIOUS
  <2>7. /\ q \in NodeTypes /\ q.state = node[op.dir].state /\ q.parent = node[op.dir].parent
        /\ q.name = node[op.dir].name /\ q.at = node[op.dir].at /\ q.pos = node[op.dir].pos
        /\ q.size = node[op.dir].size /\ q.cached = node[op.dir].cached
    BY <2>5, <2>6 DEF NodeTypes
  <2>8. node' = [node EXCEPT ![op.node] = r, ![op.dir] = q]
    <3>1. node \in [Nodes -> NodeTypes \cup {NoNode}]
      BY Typing DEF NodesTyped
    <3> QED BY <1>4, <1>5, <1>10, <2>1, <2>2, <2>3, <2>6, <3>1
  <2>9. /\ node' \in [Nodes -> NodeTypes \cup {NoNode}]
        /\ node'[op.node] = r /\ node'[op.dir] = q
        /\ \A n \in Nodes : n # op.node /\ n # op.dir => node'[n] = node[n]
    BY <1>4, <1>5, <1>10, <2>2, <2>4, <2>7, <2>8, TwoNodes, Typing, ZenonT(40)
  <2>10. \A m \in Ids : Standing(m)'
    <3> SUFFICES ASSUME NEW m \in Ids PROVE Standing(m)'
      OBVIOUS
    <3>1. Standing(m)
      BY <1>9
    <3>2. CASE m = op.node
      BY <1>4, <1>10, <2>2, <2>4, <2>9, <3>2 DEF Standing
    <3>3. CASE m = op.dir /\ m # op.node
      BY <2>7, <2>9, <3>1, <3>3 DEF Standing
    <3>4. CASE m # op.dir /\ m # op.node
      <4>1. node'[m] = node[m]
        BY <2>9, <3>4, Sorts
      <4> QED BY <3>1, <4>1 DEF Standing
    <3> QED BY <3>2, <3>3, <3>4
  <2>11. \A d \in Directories : CanEnter(d)' => CanEnter(d) /\ node'[d].size = node[d].size
    <3> SUFFICES ASSUME NEW d \in Directories, CanEnter(d)'
                 PROVE CanEnter(d) /\ node'[d].size = node[d].size
      OBVIOUS
    <3>1. d # op.node
      BY <2>4, <2>9 DEF CanEnter
    <3>2. CASE d = op.dir
      BY <2>7, <2>9, <3>2 DEF CanEnter
    <3>3. CASE d # op.dir
      <4>1. node'[d] = node[d]
        BY <2>9, <3>1, <3>3, Sorts
      <4> QED BY <4>1 DEF CanEnter
    <3> QED BY <3>2, <3>3
  <2>12. node'[op.dir].state = "linked" /\ node'[op.dir].cached
    BY <1>4, <2>7, <2>9 DEF CanEnter
  <2>13. CanEnter(Root)'
    <3>1. Root # op.node /\ CanEnter(Root)
      BY <1>2, <1>4, <1>10, Sorts, Typing DEF NodesTyped
    <3>2. CASE Root = op.dir
      <4>1. node'[Root].state = node[Root].state /\ node'[Root].cached = node[Root].cached
        BY <2>7, <2>9, <3>2
      <4> QED BY <3>1, <4>1 DEF CanEnter
    <3>3. CASE Root # op.dir
      <4>1. node'[Root] = node[Root]
        BY <2>9, <3>1, <3>3, Sorts
      <4> QED BY <3>1, <4>1 DEF CanEnter
    <3> QED BY <3>2, <3>3
  <2>14. NodesTyped'
    BY <1>2, <1>6, <2>9, <2>10, <2>11, <2>13, NodesFrom, Typing
  <2>15. PICK o : o = op'
    OBVIOUS
  <2>16. o = [op EXCEPT !.pc = "flush1", !.flush = op.dir, !.stage = "create"]
    BY <2>1, <2>15 DEF FlushNext
  <2>17. /\ o \in Ops /\ o.kind = op.kind /\ o.node = op.node /\ o.dir = op.dir
         /\ o.name = op.name /\ o.victim = op.victim /\ o.pos = op.pos /\ o.k = op.k
         /\ o.meta = op.meta /\ o.flush = op.dir /\ o.stage = "create" /\ o.pc = "flush1"
    BY <1>2, <1>5, <2>16 DEF Ops, Pcs, Stages
  <2>18. CallTyped'
    BY <1>2, <1>3, <1>4, <1>10, <2>12, <2>15, <2>17 DEF CallTyped, Creations, CanEnter
  <2>19. node'[op.node].state = "linked" /\ node'[op.node].parent = op.dir
    BY <2>4, <2>9
  <2>20. PointTyped'
    <3>1. /\ op'.kind = op.kind /\ op'.victim = None /\ op'.stage = "create" /\ op'.meta = op.meta
          /\ op'.pc = "flush1" /\ op'.flush = op.dir /\ op'.node = op.node /\ op'.dir = op.dir
      BY <2>2, <2>15, <2>17
    <3>2. SlotSane(op.meta[1]) /\ SlotSane(op.meta[2])
      BY <1>2 DEF PointTyped
    <3>3. SlotSane(op'.meta[1]) /\ SlotSane(op'.meta[2])
      BY <3>1, <3>2
    <3>4. "create" # None
      BY DEF None
    <3> QED BY ONLY <1>4, <1>5, <1>10, <2>19, <3>1, <3>3, <3>4 DEF PointTyped, Flushes, Creations
  <2>21. OthersTyped'
    BY <1>3, <1>8, <2>1, Typing DEF OthersTyped
  <2> QED BY <1>6, <2>14, <2>15, <2>17, <2>18, <2>20, <2>21 DEF Typed, OpTyped, Runs
<1>11. CASE op.kind = "rename"
  <2>1. /\ node' = [node EXCEPT ![op.node].name = op.name, ![op.node].parent = op.dir]
        /\ refs' = GiveBack /\ op' = Idle
        /\ moved' = IF op.grew THEN moved \cup {op.dir} ELSE moved
        /\ UNCHANGED label
    BY <1>11 DEF Attach
  <2>2. node[op.node].state = "linked" /\ (op.node \in Folders => op.dir = Root)
        /\ node[op.node] \in NodeTypes
    BY <1>2, <1>4, <1>5, <1>11, NodeIs, Typing DEF CallTyped
  <2>3. PICK r : r = [node[op.node] EXCEPT !.name = op.name, !.parent = op.dir]
    OBVIOUS
  <2>4. LET n == node[op.node] IN
        /\ r \in NodeTypes /\ r.state = "linked" /\ r.parent = op.dir /\ r.name = op.name
           /\ r.at = n.at
        /\ r.pos = n.pos /\ r.size = n.size /\ r.cached = n.cached
    BY <1>4, <1>11, <2>2, <2>3 DEF NodeTypes
  <2>5. node' = [node EXCEPT ![op.node] = r]
    <3>1. node \in [Nodes -> NodeTypes \cup {NoNode}]
      BY Typing DEF NodesTyped
    <3> QED BY <1>4, <1>5, <1>11, <2>1, <2>3, <3>1
  <2>6. /\ node' \in [Nodes -> NodeTypes \cup {NoNode}]
        /\ node'[op.node] = r /\ \A n \in Nodes : n # op.node => node'[n] = node[n]
    BY <1>4, <1>5, <1>11, <2>4, <2>5, OneNode, Typing
  <2>7. \A m \in Ids : Standing(m)'
    <3> SUFFICES ASSUME NEW m \in Ids PROVE Standing(m)'
      OBVIOUS
    <3>1. Standing(m)
      BY <1>9
    <3>2. CASE m = op.node
      BY <1>4, <1>11, <2>2, <2>4, <2>6, <3>1, <3>2 DEF Standing
    <3>3. CASE m # op.node
      <4>1. node'[m] = node[m]
        BY <2>6, <3>3, Sorts
      <4> QED BY <3>1, <4>1 DEF Standing
    <3> QED BY <3>2, <3>3
  <2>8. \A d \in Nodes : node'[d].state = node[d].state /\ node'[d].cached = node[d].cached
        /\ node'[d].size = node[d].size
    BY <2>2, <2>4, <2>6
  <2>9. \A d \in Directories : CanEnter(d)' <=> CanEnter(d)
    BY <2>8, Sorts DEF CanEnter
  <2>10. CanEnter(Root)
    BY <1>2, Typing DEF NodesTyped
  <2>11. NodesTyped'
    BY <1>2, <1>6, <2>6, <2>7, <2>8, <2>9, <2>10, NodesFrom, Typing, Sorts
  <2>12. OthersTyped'
    BY <1>3, <1>4, <1>8, <2>1, Typing, GiveBackTyped DEF OthersTyped
  <2>13. OpTyped'
    BY <2>1, IdleTyped
  <2> QED BY <1>6, <2>11, <2>12, <2>13 DEF Typed
<1>12. CASE op.kind = "label"
  <2>1. label' = op.name /\ op' = Idle /\ UNCHANGED <<node, refs, moved>>
    BY <1>12 DEF Attach
  <2>2. OthersTyped'
    BY <1>2, <1>3, <1>8, <1>12, <2>1, Typing DEF OthersTyped, CallTyped
  <2> QED BY <1>2, <1>6, <2>1, <2>2, IdleTyped, NodesKept, Typing DEF Typed
<1> QED BY <1>4, <1>10, <1>11, <1>12

-----------------------------------------------------------------------------
(* Types: entries detached and nodes deleted                               *)

\* A bounded set of natural numbers has a greatest element.
LEMMA GreatestElement ==
    ASSUME NEW B \in Nat, NEW T, T \subseteq 0 .. B, T # {}
    PROVE  \E m \in T : \A n \in T : n <= m
<1>1. PICK S : S = {B - x : x \in T}
  OBVIOUS
<1>2. S \subseteq Nat /\ S # {}
  <2>1. \A x \in T : B - x \in Nat
    OBVIOUS
  <2>2. \E x : x \in T
    OBVIOUS
  <2> QED BY <1>1, <2>1, <2>2
<1>3. PICK s \in S : \A u \in S : s <= u
  BY <1>2, LeastElement
<1>4. PICK m \in T : s = B - m
  BY <1>1, <1>3
<1>5. \A n \in T : n <= m
  <2> SUFFICES ASSUME NEW n \in T PROVE n <= m
    OBVIOUS
  <2>1. B - n \in S
    BY <1>1
  <2>2. s <= B - n
    BY <1>3, <2>1
  <2>3. n \in Nat /\ m \in Nat
    OBVIOUS
  <2> QED BY <1>4, <2>2, <2>3
<1> QED BY <1>5

\* shrink_directory: the size stays, or is what the last of the others takes.
LEMMA ShrunkIs ==
    ASSUME Typed, mounted, NEW d \in Directories, CanEnter(d), NEW v
    PROVE  /\ Shrunk(d, v) \in Nat
           /\ \/ Shrunk(d, v) = node[d].size
              \/ /\ \A n \in Children(d) \ {v} : ~(node[n].pos > node[v].pos)
                 /\ \/ Children(d) \ {v} = {} /\ Shrunk(d, v) = 1
                    \/ \E l \in Children(d) \ {v} :
                         /\ \A m \in Children(d) \ {v} : node[l].pos >= node[m].pos
                         /\ Shrunk(d, v) = Clusters(node[l].pos - 1 + Entries(node[l].name))
                         /\ Shrunk(d, v) > 0
                         /\ node[l].pos - 1 + Entries(node[l].name) <= Shrunk(d, v) * SLOTS
<1> DEFINE rest == Children(d) \ {v}
           last == CHOOSE n \in rest : \A m \in rest : node[n].pos >= node[m].pos
<1>1. node[d].size \in Nat
  BY SizeIs, Typing
<1>2. \A n \in rest : node[n].pos \in Spots /\ node[n].name \in Names
  BY Typing DEF Children, Linked, NodesTyped, Standing
<1>3. CASE rest = {}
  <2>1. Shrunk(d, v) = 1
    BY <1>3 DEF Shrunk
  <2> QED BY <1>3, <2>1
<1>4. CASE rest # {}
  <2>1. \E n \in rest : \A m \in rest : node[n].pos >= node[m].pos
    <3>1. PICK B : B = MaxClusters * SLOTS
      OBVIOUS
    <3>2. B \in Nat
      BY <3>1, WholeClusters, ConstantsAre
    <3>3. PICK T : T = {node[n].pos : n \in rest}
      OBVIOUS
    <3>4. T # {} /\ T \subseteq 0 .. B
      BY <1>2, <1>4, <3>1, <3>2, <3>3 DEF Spots
    <3>5. PICK m \in T : \A u \in T : u <= m
      BY <3>2, <3>4, GreatestElement
    <3>6. PICK n \in rest : m = node[n].pos
      BY <3>3, <3>5
    <3>7. \A u \in rest : node[u].pos <= m
      BY <3>3, <3>5
    <3>8. \A u \in rest : node[u].pos \in Nat
      BY <1>2, <3>1, <3>2 DEF Spots
    <3> QED BY <3>6, <3>7, <3>8
  <2>2. last \in rest /\ \A m \in rest : node[last].pos >= node[m].pos
    BY <2>1, Zenon
  <2>3. PICK l : l = last
    OBVIOUS
  <2>4. l \in rest /\ \A m \in rest : node[l].pos >= node[m].pos
    BY <2>2, <2>3
  <2>5. Shrunk(d, v) = IF \E n \in rest : node[n].pos > node[v].pos THEN node[d].size
                       ELSE Clusters(node[l].pos - 1 + Entries(node[l].name))
    BY <1>4, <2>3 DEF Shrunk
  <2>6. node[l].pos \in Nat /\ node[l].pos > 0 /\ Entries(node[l].name) \in Nat
        /\ Entries(node[l].name) > 2
    <3>1. node[l].pos \in Spots /\ Pieces[node[l].name] \in Nat /\ Pieces[node[l].name] > 0
      BY <1>2, <2>4, ConstantsAre
    <3>2. MaxClusters * SLOTS \in Nat
      BY WholeClusters, ConstantsAre
    <3> QED BY <3>1, <3>2 DEF Spots, Entries
  <2>7. PICK e : e = node[l].pos - 1 + Entries(node[l].name)
    OBVIOUS
  <2>8. e \in Nat /\ e > 0
    BY <2>6, <2>7
  <2>9. Clusters(e) \in Nat /\ Clusters(e) > 0 /\ e <= Clusters(e) * SLOTS
    BY <2>8, RoomOf
  <2> HIDE DEF rest, last
  <2>10. CASE \E n \in rest : node[n].pos > node[v].pos
    BY <1>1, <2>5, <2>10
  <2>11. CASE ~\E n \in rest : node[n].pos > node[v].pos
    <3>1. Shrunk(d, v) = Clusters(e)
      BY <2>5, <2>7, <2>11
    <3>2. /\ \A n \in rest : ~(node[n].pos > node[v].pos)
          /\ \A m \in rest : node[l].pos >= node[m].pos
          /\ Shrunk(d, v) = Clusters(node[l].pos - 1 + Entries(node[l].name))
          /\ Shrunk(d, v) > 0 /\ Shrunk(d, v) \in Nat
          /\ node[l].pos - 1 + Entries(node[l].name) <= Shrunk(d, v) * SLOTS
      BY <2>4, <2>7, <2>9, <2>11, <3>1
    <3> QED BY <2>4, <3>2 DEF rest
  <2> QED BY <2>10, <2>11
<1> QED BY <1>3, <1>4

\* What a step of Detach is, for the directory and the node that it takes from it.
LEMMA DetachIs ==
    ASSUME Typed, Detach
    PROVE  \E size \in Nat, fails \in BOOLEAN :
             /\ size = Shrunk(op.dir, op.victim)
             /\ fails => size # node[op.dir].size
             /\ ~fails => size \in 0 .. MaxClusters
             /\ Fault(fails /\ size <= MaxClusters) /\ (fails /\ size <= MaxClusters => CanFault)
             /\ SlotsTyped' /\ NodesTyped'
             /\ IF fails \/ size = node[op.dir].size THEN slots' = slots ELSE Resizes(op.dir, size)
             /\ node'[op.victim] = [node[op.victim] EXCEPT !.state = "unlinked"]
             /\ node'[op.dir] = [node[op.dir] EXCEPT !.dirty = TRUE,
                !.size = IF fails THEN node[op.dir].size ELSE size]
             /\ \A n \in Nodes : n # op.victim /\ n # op.dir => node'[n] = node[n]
             /\ op' = [op EXCEPT !.pc = "flush1", !.flush = op.dir, !.stage = "delete",
                !.ok = ~fails]
<1>1. op.pc = "detach"
  BY Zenon DEF Detach
<1>2. /\ Runs /\ op.stage = "delete" /\ Erased = op.victim /\ mounted
      /\ op.victim \in Ids /\ node[op.victim].parent = op.dir /\ op.victim # op.dir
         /\ op.dir \in Directories
      /\ node[op.victim].state = "linked" /\ node[op.victim] \in NodeTypes
  BY <1>1, ErasedIs
<1>3. CallTyped /\ op.kind # "unmount"
  BY <1>1, <1>2, RunsMounted DEF PointTyped
<1>4. CanEnter(op.dir)
  BY <1>3 DEF CallTyped
<1>5. PICK d : d = op.dir
  OBVIOUS
<1>6. PICK v : v = op.victim
  OBVIOUS
<1>7. PICK size : size = Shrunk(d, v)
  OBVIOUS
<1>8. size \in Nat /\ node[d].size \in 0 .. MaxClusters /\ node[d] \in NodeTypes /\ d \in Nodes
      /\ v \in Nodes
  BY <1>2, <1>4, <1>5, <1>6, <1>7, ShrunkIs, SizeIs, Typing, Sorts, SMTT(30)
<1>9. PICK fails \in IF size = node[d].size THEN {FALSE} ELSE IF size > MaxClusters THEN {TRUE}
      ELSE Outcomes :
             /\ Fault(fails /\ size <= MaxClusters)
             /\ node' = [node EXCEPT ![v].state = "unlinked", ![d].dirty = TRUE,
                                     ![d].size = IF fails THEN @ ELSE size]
             /\ slots' = IF fails \/ size = node[d].size THEN slots
                         ELSE [slots EXCEPT ![d] = Resized(d, size)]
             /\ op' = [FlushNext(d, "delete") EXCEPT !.ok = ~fails]
             /\ retried' = (retried \/ Astray(d) \ {v} # {})
  BY <1>2, <1>5, <1>6, <1>7, ZenonT(40) DEF Detach
<1>10. fails \in BOOLEAN /\ (fails => size # node[d].size)
       /\ (fails /\ size <= MaxClusters => CanFault)
  <2>1. size <= MaxClusters => ~(size > MaxClusters)
    BY <1>8, ConstantsAre
  <2> QED BY <1>9, <2>1 DEF Outcomes
<1>11. ~fails => size \in 0 .. MaxClusters
  <2>1. CASE size = node[d].size
    BY <1>8, <2>1
  <2>2. CASE size # node[d].size /\ ~fails
    <3>1. ~(size > MaxClusters)
      BY <1>9, <2>2
    <3> QED BY <1>8, <3>1, ConstantsAre
  <2> QED BY <2>1, <2>2
<1>12. SlotsTyped' /\ IF fails \/ size = node[d].size THEN slots' = slots ELSE Resizes(d, size)
  <2>1. CASE fails \/ size = node[d].size
    BY <1>9, <2>1, Typing DEF SlotsTyped
  <2>2. CASE ~(fails \/ size = node[d].size)
    <3>1. slots' = [slots EXCEPT ![d] = Resized(d, size)] /\ size \in 0 .. MaxClusters
      BY <1>9, <1>11, <2>2
    <3>2. SlotsTyped' /\ Resizes(d, size)
      BY <1>2, <1>5, <3>1, Resizing, Typing
    <3> QED BY <2>2, <3>2
  <2> QED BY <2>1, <2>2
<1>13. PICK new : new = IF fails THEN node[d].size ELSE size
  OBVIOUS
<1>14. new \in 0 .. MaxClusters
  BY <1>8, <1>11, <1>13
<1>15. PICK r : r = [node[v] EXCEPT !.state = "unlinked"]
  OBVIOUS
<1>16. PICK q : q = [node[d] EXCEPT !.dirty = TRUE, !.size = new]
  OBVIOUS
<1>17. r \in NodeTypes /\ r.state = "unlinked"
  BY <1>2, <1>6, <1>15 DEF NodeTypes
<1>18. /\ q \in NodeTypes /\ q.state = node[d].state /\ q.parent = node[d].parent
          /\ q.name = node[d].name
       /\ q.at = node[d].at /\ q.pos = node[d].pos /\ q.size = new /\ q.cached = node[d].cached
  BY <1>8, <1>14, <1>16 DEF NodeTypes
<1>19. d # v
  BY <1>2, <1>5, <1>6
<1>20. node' = [node EXCEPT ![v] = r, ![d] = q]
  <2>1. node \in [Nodes -> NodeTypes \cup {NoNode}]
    BY Typing DEF NodesTyped
  <2>2. node' = [node EXCEPT ![v].state = "unlinked", ![d].dirty = TRUE, ![d].size = new]
    BY <1>8, <1>9, <1>13, <1>19, <2>1
  <2> QED BY <1>8, <1>15, <1>16, <1>19, <2>1, <2>2
<1>21. /\ node' \in [Nodes -> NodeTypes \cup {NoNode}]
       /\ node'[v] = r /\ node'[d] = q /\ \A n \in Nodes : n # v /\ n # d => node'[n] = node[n]
  BY <1>8, <1>17, <1>18, <1>19, <1>20, TwoNodes, Typing
<1>22. op' = [op EXCEPT !.pc = "flush1", !.flush = d, !.stage = "delete", !.ok = ~fails]
  BY <1>9 DEF FlushNext
<1>23. mounted' = TRUE
  BY <1>2, Typing DEF Detach
<1>24. \A m \in Ids : Standing(m)'
  <2> SUFFICES ASSUME NEW m \in Ids PROVE Standing(m)'
    OBVIOUS
  <2>1. Standing(m)
    BY <1>2, Typing DEF NodesTyped
  <2>2. CASE m = v
    BY <1>17, <1>21, <2>2 DEF Standing
  <2>3. CASE m = d
    BY <1>18, <1>21, <2>1, <2>3 DEF Standing
  <2>4. CASE m # v /\ m # d
    <3>1. node'[m] = node[m]
      BY <1>21, <2>4, Sorts
    <3> QED BY <2>1, <3>1 DEF Standing
  <2> QED BY <2>2, <2>3, <2>4
<1>25. NodesTyped'
  <2>1. \A e \in Directories : CanEnter(e)' => CanEnter(e) /\ e # v /\ (e # d => node'[e] = node[e])
    <3> SUFFICES ASSUME NEW e \in Directories, CanEnter(e)'
                 PROVE  CanEnter(e) /\ e # v /\ (e # d => node'[e] = node[e])
      OBVIOUS
    <3>1. e # v
      BY <1>17, <1>21 DEF CanEnter
    <3>2. CASE e = d
      BY <1>4, <1>5, <3>1, <3>2
    <3>3. CASE e # d
      <4>1. node'[e] = node[e]
        BY <1>21, <3>1, <3>3, Sorts
      <4> QED BY <3>1, <4>1 DEF CanEnter
    <3> QED BY <3>2, <3>3
  <2>2. /\ CanEnter(Root) /\ node[Root].size * SLOTS = Len(slots[Root])
        /\ \A e \in Directories : CanEnter(e) => node[e].size * SLOTS <= Len(slots[e])
    BY <1>2, Typing DEF NodesTyped
  <2>3. CanEnter(Root)'
    <3>1. Root # v
      BY <1>2, <1>6, Sorts
    <3>2. CASE Root = d
      <4>1. node'[Root].state = node[Root].state /\ node'[Root].cached = node[Root].cached
        BY <1>18, <1>21, <3>2
      <4> QED BY <2>2, <4>1 DEF CanEnter
    <3>3. CASE Root # d
      <4>1. node'[Root] = node[Root]
        BY <1>21, <3>1, <3>3, Sorts
      <4> QED BY <2>2, <4>1 DEF CanEnter
    <3> QED BY <3>2, <3>3
  <2>4. \A e \in Directories : e # d => slots'[e] = slots[e]
    BY <1>12 DEF Resizes
  <2>5. node'[d].size = new
        /\ ((slots'[d] = slots[d] /\ new = node[d].size) \/ Len(slots'[d]) = new * SLOTS)
    BY <1>12, <1>13, <1>18, <1>21 DEF Resizes
  <2>6. Root \in Directories
    BY Sorts
  <2>7. node'[Root].size * SLOTS = Len(slots'[Root])
    <3>1. CASE Root = d
      BY <2>2, <2>5, <3>1
    <3>2. CASE Root # d
      BY <2>1, <2>2, <2>3, <2>4, <2>6, <3>2
    <3> QED BY <3>1, <3>2
  <2>8. \A e \in Directories : CanEnter(e)' => node'[e].size * SLOTS <= Len(slots'[e])
    <3> SUFFICES ASSUME NEW e \in Directories, CanEnter(e)'
                 PROVE node'[e].size * SLOTS <= Len(slots'[e])
      OBVIOUS
    <3>1. CASE e = d
      <4>1. new * SLOTS \in Nat
        BY <1>14, WholeClusters, ConstantsAre
      <4>2. CASE slots'[d] = slots[d] /\ new = node[d].size
        BY <1>4, <1>5, <2>2, <2>5, <3>1, <4>2
      <4>3. CASE Len(slots'[d]) = new * SLOTS
        BY <2>5, <3>1, <4>1, <4>3
      <4> QED BY <2>5, <4>2, <4>3
    <3>2. CASE e # d
      BY <2>1, <2>2, <2>4, <3>2
    <3> QED BY <3>1, <3>2
  <2> QED BY <1>21, <1>23, <1>24, <2>3, <2>7, <2>8 DEF NodesTyped
<1>26. Fault(fails /\ size <= MaxClusters)
  BY <1>9
<1> QED BY <1>5, <1>6, <1>7, <1>8, <1>10, <1>11, <1>12, <1>13, <1>15, <1>16, <1>21, <1>22, <1>25,
           <1>26, ZenonT(40)

LEMMA DetachTyped ==
    ASSUME Typed, Detach
    PROVE  Typed'
<1>1. op.pc = "detach"
  BY DEF Detach
<1>2. /\ Runs /\ op.stage = "delete" /\ Erased = op.victim /\ mounted
      /\ op.victim \in Ids /\ node[op.victim].parent = op.dir /\ op.victim # op.dir
         /\ op.dir \in Directories
      /\ node[op.victim].state = "linked" /\ node[op.victim] \in NodeTypes
  BY <1>1, ErasedIs
<1>3. op \in Ops /\ CallTyped /\ PointTyped
  BY <1>2, RunsMounted
<1>4. PICK size \in Nat, fails \in BOOLEAN :
             /\ size = Shrunk(op.dir, op.victim)
             /\ fails => size # node[op.dir].size
             /\ ~fails => size \in 0 .. MaxClusters
             /\ Fault(fails /\ size <= MaxClusters) /\ (fails /\ size <= MaxClusters => CanFault)
             /\ SlotsTyped' /\ NodesTyped'
             /\ IF fails \/ size = node[op.dir].size THEN slots' = slots ELSE Resizes(op.dir, size)
             /\ node'[op.victim] = [node[op.victim] EXCEPT !.state = "unlinked"]
             /\ node'[op.dir] = [node[op.dir] EXCEPT !.dirty = TRUE,
                !.size = IF fails THEN node[op.dir].size ELSE size]
             /\ \A n \in Nodes : n # op.victim /\ n # op.dir => node'[n] = node[n]
             /\ op' = [op EXCEPT !.pc = "flush1", !.flush = op.dir, !.stage = "delete",
                !.ok = ~fails]
  BY DetachIs, ZenonT(40)
<1>5. /\ tree' = [tree EXCEPT ![op.victim] = Nowhere]
      /\ UNCHANGED <<mounted, refs, label, held, calls, moved>> /\ retried' \in BOOLEAN
  BY Zenon DEF Detach
<1>6. faults' \in 0 .. MaxFaults /\ doubt' \subseteq Ids /\ torn' \subseteq Directories
  <2>1. PICK b \in BOOLEAN : b = (fails /\ size <= MaxClusters)
    OBVIOUS
  <2>2. Fault(b) /\ (b => CanFault)
    BY <1>4, <2>1
  <2> QED BY <1>2, <2>2, FaultTyped
<1>7. tree' \in [Ids -> (Directories \cup {None}) \X (Names \cup {None})]
  <2>1. Nowhere \in (Directories \cup {None}) \X (Names \cup {None})
    BY DEF Nowhere
  <2> QED BY <1>5, <2>1, Typing
<1>8. OthersTyped'
  BY <1>5, <1>6, <1>7, Typing DEF OthersTyped
<1>9. PICK o : o = op'
  OBVIOUS
<1>10. /\ o \in Ops /\ o.kind = op.kind /\ o.node = op.node /\ o.dir = op.dir
       /\ o.name = op.name /\ o.victim = op.victim /\ o.meta = op.meta /\ o.flush = op.dir
       /\ o.stage = "delete" /\ o.pc = "flush1"
  <2>1. o = [op EXCEPT !.pc = "flush1", !.flush = op.dir, !.stage = "delete", !.ok = ~fails]
    BY <1>4, <1>9
  <2>2. PICK b \in BOOLEAN : b = ~fails
    OBVIOUS
  <2>3. o = [op EXCEPT !.pc = "flush1", !.flush = op.dir, !.stage = "delete", !.ok = b]
    BY <2>1, <2>2
  <2>4. op.dir \in Nodes
    BY <1>2, Sorts
  <2> QED BY <1>3, <2>3, <2>4, ZenonT(40) DEF Ops, Pcs, Stages
<1>11. op.kind \in {"mkdir", "rename", "delete"}
  BY <1>1, <1>2, <1>3 DEF PointTyped
<1>12. CanEnter(op.dir)
  BY <1>3, <1>11 DEF CallTyped
<1>13. node'[op.dir].state = "linked" /\ node'[op.dir].cached
  <2>1. PICK s : s = IF fails THEN node[op.dir].size ELSE size
    OBVIOUS
  <2>2. node[op.dir] \in NodeTypes
    BY <1>2, <1>12, SizeIs, Typing
  <2>3. node'[op.dir] = [node[op.dir] EXCEPT !.dirty = TRUE, !.size = s]
    BY <1>4, <2>1
  <2>4. node'[op.dir].state = node[op.dir].state /\ node'[op.dir].cached = node[op.dir].cached
    BY <2>2, <2>3 DEF NodeTypes
  <2> QED BY <1>12, <2>4 DEF CanEnter
<1>14. op.kind = "rename" => node'[op.node].state = "linked"
  <2>1. op.kind = "rename" => op.node # op.victim /\ op.node # op.dir
        /\ node[op.node].state = "linked" /\ op.node \in Ids
    BY <1>2, <1>3 DEF CallTyped
  <2>2. op.kind = "rename" => node'[op.node] = node[op.node]
    BY <1>4, <2>1, Sorts
  <2> QED BY <2>1, <2>2
<1>15. CallTyped'
  BY <1>3, <1>5, <1>9, <1>10, <1>11, <1>13, <1>14 DEF CallTyped, Creations, CanEnter
<1>16. PointTyped'
  <2>1. /\ op'.kind = op.kind /\ op'.victim = op.victim /\ op'.stage = "delete"
           /\ op'.meta = op.meta
        /\ op'.pc = "flush1" /\ op'.flush = op.dir /\ op'.dir = op.dir
    BY <1>9, <1>10
  <2>2. SlotSane(op'.meta[1]) /\ SlotSane(op'.meta[2])
    BY <1>3, <1>9, <1>10 DEF PointTyped
  <2>3. op.dir \in Nodes
    BY <1>2, Sorts
  <2> QED BY ONLY <1>2, <1>11, <2>1, <2>2, <2>3 DEF PointTyped, Flushes, None, Creations
<1>17. OpTyped'
  BY <1>9, <1>10, <1>15, <1>16 DEF OpTyped, Runs
<1> QED BY <1>4, <1>8, <1>17 DEF Typed

LEMMA FreedTyped ==
    ASSUME Typed, NEW n \in Ids, Freed(n)
    PROVE  /\ SlotsTyped' /\ \A e \in Directories : e # n => slots'[e] = slots[e]
           /\ IF n \in Folders THEN Clears(n, 0) ELSE slots' = slots
<1>1. CASE n \in Folders
  <2>1. slots' = [slots EXCEPT ![n] = <<>>]
    BY <1>1 DEF Freed
  <2>2. <<>> = [i \in 1 .. 0 |-> Free]
    OBVIOUS
  <2>3. slots' = [slots EXCEPT ![n] = [i \in 1 .. 0 |-> Free]]
    BY <2>1, <2>2
  <2>4. SlotsTyped' /\ Clears(n, 0)
    BY <1>1, <2>3, Clearing, Typing, Sorts
  <2> QED BY <1>1, <2>4 DEF Clears
<1>2. CASE n \notin Folders
  BY <1>2, Typing DEF Freed, SlotsTyped
<1> QED BY <1>1, <1>2

\* exfat_cleanup_node of a node that is unlinked.
LEMMA CleanedTyped ==
    ASSUME Typed, mounted, mounted' = TRUE, NEW n \in Ids, ~CanEnter(n), Freed(n),
           node' = [node EXCEPT ![n] = NoNode]
    PROVE  /\ SlotsTyped' /\ NodesTyped'
           /\ node'[n] = NoNode /\ \A m \in Nodes : m # n => node'[m] = node[m]
<1>1. SlotsTyped' /\ \A e \in Directories : e # n => slots'[e] = slots[e]
  BY FreedTyped
<1>2. /\ node' \in [Nodes -> NodeTypes \cup {NoNode}]
      /\ node'[n] = NoNode /\ \A m \in Nodes : m # n => node'[m] = node[m]
  BY OneNode, Typing, Sorts
<1>3. NoNode.state = "absent"
  BY DEF NoNode
<1>4. \A m \in Ids : Standing(m)'
  <2> SUFFICES ASSUME NEW m \in Ids PROVE Standing(m)'
    OBVIOUS
  <2>1. Standing(m)
    BY Typing DEF NodesTyped
  <2>2. CASE m = n
    BY <1>2, <1>3, <2>2 DEF Standing
  <2>3. CASE m # n
    <3>1. node'[m] = node[m]
      BY <1>2, <2>3, Sorts
    <3> QED BY <2>1, <3>1 DEF Standing
  <2> QED BY <2>2, <2>3
<1>5. \A e \in Directories : CanEnter(e)' => e # n /\ node'[e] = node[e] /\ CanEnter(e)
  <2> SUFFICES ASSUME NEW e \in Directories, CanEnter(e)'
               PROVE e # n /\ node'[e] = node[e] /\ CanEnter(e)
    OBVIOUS
  <2>1. e # n
    BY <1>2, <1>3 DEF CanEnter
  <2>2. node'[e] = node[e]
    BY <1>2, <2>1, Sorts
  <2> QED BY <2>1, <2>2 DEF CanEnter
<1>6. /\ CanEnter(Root) /\ node[Root].size * SLOTS = Len(slots[Root])
      /\ \A e \in Directories : CanEnter(e) => node[e].size * SLOTS <= Len(slots[e])
  BY Typing DEF NodesTyped
<1>7. Root # n /\ node'[Root] = node[Root] /\ slots'[Root] = slots[Root]
  BY <1>1, <1>2, Sorts
<1>8. CanEnter(Root)' /\ node'[Root].size * SLOTS = Len(slots'[Root])
  BY <1>6, <1>7 DEF CanEnter
<1>9. \A e \in Directories : CanEnter(e)' => node'[e].size * SLOTS <= Len(slots'[e])
  BY <1>1, <1>5, <1>6
<1> QED BY <1>1, <1>2, <1>4, <1>8, <1>9 DEF NodesTyped

LEMMA DeletedTyped ==
    ASSUME Typed, Deleted
    PROVE  Typed'
<1>1. Runs
  BY DEF Deleted, Runs
<1>2. /\ refs' = Put({op.victim}) /\ op' = Idle
      /\ UNCHANGED <<slots, mounted, node, label, held, calls, faults, tree, doubt, torn, retried,
         moved>>
  BY DEF Deleted, history
<1> QED BY <1>1, <1>2, QuietTyped, IdleTyped, GetIs, Typing

LEMMA ReplacedTyped ==
    ASSUME Typed, Replaced
    PROVE  Typed'
<1>1. op.pc = "deleted" /\ op.kind = "rename" /\ Runs
  BY DEF Replaced, Runs
<1>2. op \in Ops /\ CallTyped /\ PointTyped /\ mounted /\ op.victim \in Ids
  BY <1>1, RunsMounted DEF PointTyped
<1>3. UNCHANGED <<mounted, label, held, calls, tree, doubt, torn, retried, moved>>
  BY DEF Replaced, history
<1>4. CASE InUse
  <2>1. op' = [pc |-> "aborted", path |-> op.victim] /\ UNCHANGED <<slots, node, refs, faults>>
    BY <1>1, <1>4 DEF Replaced
  <2> QED BY <1>1, <1>3, <2>1, QuietTyped, IdleTyped, Typing
<1>5. CASE ~InUse
  <2>1. /\ IF node[op.victim].state = "unlinked"
               THEN Freed(op.victim) /\ node' = [node EXCEPT ![op.victim] = NoNode]
               ELSE UNCHANGED <<slots, node>>
        /\ \/ /\ op' = [op EXCEPT !.pc = "slot", !.victim = None, !.flush = None, !.stage = None]
              /\ refs' = Put({op.victim})
           \/ op' = Idle /\ refs' = PutAll(op.victim, op.dir, op.node)
    BY <1>1, <1>5, Zenon DEF Replaced
  <2>6. faults' \in 0 .. MaxFaults
    <3>1. PICK b \in CleanedUp : faults' = faults + Count(b)
      BY <1>1, <1>5, Zenon DEF Replaced
    <3>2. b \in BOOLEAN /\ (b => faults < MaxFaults)
      BY <3>1 DEF CleanedUp, Outcomes, CanFault
    <3>3. faults \in 0 .. MaxFaults /\ MaxFaults \in Nat
      BY Typing, ConstantsAre
    <3> QED BY <3>1, <3>2, <3>3 DEF Count
  <2>2. SlotsTyped' /\ NodesTyped' /\ \A m \in Nodes : m # op.victim => node'[m] = node[m]
    <3>1. mounted' = TRUE
      BY <1>2, <1>3, Typing
    <3>2. CASE node[op.victim].state = "unlinked"
      <4>1. ~CanEnter(op.victim)
        BY <3>2 DEF CanEnter
      <4> QED BY <1>2, <2>1, <3>1, <3>2, <4>1, CleanedTyped
    <3>3. CASE UNCHANGED <<slots, node>>
      BY <1>2, <3>1, <3>3, NodesKept, Typing DEF SlotsTyped
    <3> QED BY <2>1, <3>2, <3>3
  <2>3. refs' \in [Nodes -> Int]
    BY <2>1, GetIs, GetAllIs, Typing
  <2>4. OthersTyped'
    BY <1>3, <2>3, <2>6, Typing DEF OthersTyped
  <2>5. OpTyped'
    <3>1. CASE op' = Idle
      BY <3>1, IdleTyped
    <3>2. CASE op' = [op EXCEPT !.pc = "slot", !.victim = None, !.flush = None, !.stage = None]
      <4>1. PICK o : o = op'
        OBVIOUS
      <4>2. /\ o \in Ops /\ o.kind = op.kind /\ o.node = op.node /\ o.dir = op.dir
            /\ o.name = op.name /\ o.victim = None /\ o.meta = op.meta
            /\ o.stage = None /\ o.pc = "slot"
        BY <1>2, <3>2, <4>1 DEF Ops, Pcs, Stages
      <4>3. /\ op.dir \in Directories /\ CanEnter(op.dir) /\ op.node \in Ids /\ op.name \in Names
            /\ op.dir # op.node /\ op.victim \notin {op.dir, op.node}
            /\ node[op.node].state = "linked" /\ (op.node \in Folders => op.dir = Root)
        BY <1>1, <1>2 DEF CallTyped
      <4>4. node'[op.dir] = node[op.dir] /\ node'[op.node] = node[op.node]
        BY <2>2, <4>3, Sorts
      <4>5. CallTyped'
        BY <1>1, <4>1, <4>2, <4>3, <4>4, ConstantsAre, Sorts DEF CallTyped, CanEnter, Creations
      <4>6. SlotSane(o.meta[1]) /\ SlotSane(o.meta[2])
        BY <1>2, <4>2 DEF PointTyped
      <4>7. op' = o /\ o.kind = "rename" /\ o.pc = "slot" /\ o.stage = None /\ o.victim = None
        BY <1>1, <4>1, <4>2
      <4>8. PointTyped'
        BY ONLY <4>6, <4>7 DEF PointTyped, Flushes, Creations, None
      <4> QED BY <4>1, <4>2, <4>5, <4>8 DEF OpTyped, Runs
    <3> QED BY <2>1, <3>1, <3>2
  <2> QED BY <2>2, <2>4, <2>5 DEF Typed
<1> QED BY <1>4, <1>5

-----------------------------------------------------------------------------
(* Types: flushes, and the first cluster of a directory                    *)

\* The node that is flushed.
LEMMA FlushIs ==
    ASSUME Typed, op.pc \in Flushes
    PROVE  /\ Runs /\ mounted /\ op \in Ops /\ CallTyped /\ PointTyped
           /\ op.flush \in Nodes
           /\ op.stage \in {"create", "room", "delete", "unmount"}
           /\ NeedsFlush => /\ op.flush \in Ids /\ Standing(op.flush)
                            /\ node[op.flush].state = "linked" /\ node[op.flush] \in NodeTypes
                            /\ node[op.flush].size \in 0 .. MaxClusters
<1>1. Runs
  BY DEF Runs, Flushes
<1>2. mounted /\ op \in Ops /\ CallTyped /\ PointTyped /\ op.stage \in Stages
  BY <1>1, RunsMounted
<1>3. op.flush \in Nodes /\ op.stage \in {"create", "room", "delete", "unmount"}
  BY <1>2 DEF PointTyped, Stages
<1>4. op.flush \in Nodes
  BY <1>3, Sorts
<1>5. NeedsFlush => node[op.flush].state = "linked" /\ op.flush # Root
  BY DEF NeedsFlush, Target
<1>6. NeedsFlush => op.flush \in Ids
  BY <1>3, <1>5 DEF Nodes
<1>7. NeedsFlush => Standing(op.flush) /\ node[op.flush] \in NodeTypes
  BY <1>2, <1>4, <1>5, <1>6, NodeIs, Typing
<1>8. NeedsFlush => node[op.flush].size \in 0 .. MaxClusters
  BY <1>7, NodeHas
<1> QED BY <1>1, <1>2, <1>3, <1>4, <1>5, <1>6, <1>7, <1>8

LEMMA FlushMeta1Typed ==
    ASSUME Typed, FlushMeta1
    PROVE  Typed'
<1>1. op.pc = "flush1" /\ op.pc \in Flushes
  BY DEF FlushMeta1, Flushes
<1>2. /\ Runs /\ mounted /\ op \in Ops /\ CallTyped /\ PointTyped
      /\ NeedsFlush => /\ op.flush \in Ids /\ Standing(op.flush)
                       /\ node[op.flush].state = "linked"
                          /\ node[op.flush].size \in 0 .. MaxClusters
  BY <1>1, FlushIs
<1>3. UNCHANGED <<mounted, node, label, held, calls, faults, tree, doubt, torn, moved>>
  BY DEF FlushMeta1
<1>4. retried' \in BOOLEAN
  BY Typing DEF FlushMeta1, Use
<1>5. SameNodes
  BY <1>3 DEF SameNodes
<1>6. CASE ~NeedsFlush
  <2>1. Flushed(TRUE) /\ slots' = slots
    BY <1>6 DEF FlushMeta1
  <2>2. OpTyped' /\ refs' \in [Nodes -> Int]
    BY <1>1, <1>3, <1>5, <2>1, FlushedTyped
  <2> QED BY <1>2, <1>3, <1>4, <2>1, <2>2, QuietTyped, Typing
<1>7. CASE NeedsFlush /\ Corrupt
  <2>1. op' = [pc |-> "aborted", path |-> op.flush] /\ UNCHANGED <<refs, slots>>
    BY <1>7 DEF FlushMeta1
  <2> QED BY <1>2, <1>3, <1>4, <2>1, IdleTyped, QuietTyped, Typing
<1>8. CASE NeedsFlush /\ ~Corrupt
  <2>1. /\ slots' = [slots EXCEPT ![Target.at][Target.pos] =
                            FileSlot(op.flush, Target.name, Target.size)]
        /\ op' = [op EXCEPT !.pc = "flush2"] /\ refs' = refs
    BY <1>8 DEF FlushMeta1
  <2>2. /\ Target.at \in Directories /\ Target.name \in Names /\ Target.size \in 0 .. MaxClusters
        /\ Pieces[Target.name] \in Nat
    BY <1>2, <1>8, ConstantsAre DEF Target, Standing
  <2>3. FileSlot(op.flush, Target.name, Target.size) \in SlotType
        /\ SlotSane(FileSlot(op.flush, Target.name, Target.size))
    BY <1>2, <1>8, <2>2 DEF FileSlot, Slot, SlotType, SlotSane
  <2>4. SlotsTyped' /\ Writes(Target.at, Target.pos, FileSlot(op.flush, Target.name, Target.size))
    BY <2>1, <2>2, <2>3, Writing, Typing
  <2>5. NodesTyped'
    <3>1. mounted' = TRUE /\ node' = node /\ \A e \in Directories : Len(slots'[e]) = Len(slots[e])
      BY <1>2, <1>3, <2>4, Typing DEF Writes
    <3> QED BY <1>2, <3>1, NodesKept, Typing
  <2>6. OthersTyped'
    BY <1>3, <1>4, <2>1, Typing DEF OthersTyped
  <2>7. PICK o : o = op'
    OBVIOUS
  <2>8. /\ o \in Ops /\ o.kind = op.kind /\ o.node = op.node /\ o.dir = op.dir /\ o.name = op.name
        /\ o.victim = op.victim /\ o.pc = "flush2" /\ o.stage = op.stage /\ o.meta = op.meta
           /\ o.flush = op.flush
    BY <1>2, <2>1, <2>7 DEF Ops, Pcs
  <2>9. CallTyped'
    BY <1>2, <1>3, <2>7, <2>8 DEF CallTyped, CanEnter
  <2>10. NeedsFlush'
    BY <1>3, <1>8, <2>7, <2>8 DEF NeedsFlush, Target
  <2>11. PointTyped'
    BY <1>1, <1>2, <1>3, <2>7, <2>8, <2>10 DEF PointTyped, Flushes
  <2> QED BY <2>4, <2>5, <2>6, <2>7, <2>8, <2>9, <2>11 DEF Typed, OpTyped, Runs
<1> QED BY <1>6, <1>7, <1>8

LEMMA FlushFailsTyped ==
    ASSUME Typed, FlushFails
    PROVE  Typed'
<1>1. op.pc \in Flushes /\ Runs
  BY DEF FlushFails, Flushes, Runs
<1>2. UNCHANGED <<slots, mounted, node, label, held, calls, tree, retried, moved>> /\ Fault(TRUE)
      /\ Flushed(FALSE) /\ CanFault
  BY DEF FlushFails
<1>3. SameNodes
  BY <1>2 DEF SameNodes
<1>4. OpTyped' /\ refs' \in [Nodes -> Int]
  BY <1>1, <1>2, <1>3, FlushedTyped
<1>5. faults' \in 0 .. MaxFaults /\ doubt' \subseteq Ids /\ torn' \subseteq Directories
  BY <1>1, <1>2, FaultTyped
<1>6. retried' \in BOOLEAN
  BY <1>2, Typing
<1> QED BY <1>1, <1>2, <1>4, <1>5, <1>6, QuietTyped

\* The INFO entry is written, and the node is clean.
LEMMA FlushMeta2Is ==
    ASSUME Typed, FlushMeta2
    PROVE  /\ SlotsTyped' /\ NodesTyped' /\ SameNodes
           /\ Writes(Target.at, Target.pos + 1, InfoSlot(op.flush, Target.size))
           /\ node'[op.flush] = [node[op.flush] EXCEPT !.dirty = FALSE]
           /\ \A n \in Nodes : n # op.flush => node'[n] = node[n]
           /\ \A n \in Nodes : /\ node'[n].name = node[n].name /\ node'[n].at = node[n].at
                               /\ node'[n].pos = node[n].pos /\ node'[n].size = node[n].size
<1>1. op.pc \in Flushes /\ op.pc = "flush2"
  BY DEF FlushMeta2, Flushes
<1>2. /\ mounted /\ PointTyped /\ op.flush \in Nodes
  BY <1>1, FlushIs
<1>3. NeedsFlush
  BY <1>1, <1>2 DEF PointTyped
<1>4. /\ op.flush \in Ids /\ Standing(op.flush)
      /\ node[op.flush].state = "linked" /\ node[op.flush] \in NodeTypes
         /\ node[op.flush].size \in 0 .. MaxClusters
  BY <1>1, <1>3, FlushIs
<1>5. /\ slots' = [slots EXCEPT ![Target.at][Target.pos + 1] = InfoSlot(op.flush, Target.size)]
      /\ node' = [node EXCEPT ![op.flush].dirty = FALSE]
      /\ mounted' = mounted
  BY DEF FlushMeta2
<1>6. InfoSlot(op.flush, Target.size) \in SlotType /\ SlotSane(InfoSlot(op.flush, Target.size))
      /\ Target.at \in Directories
  BY <1>4 DEF Target, Standing, InfoSlot, Slot, SlotType, SlotSane
<1>7. SlotsTyped' /\ Writes(Target.at, Target.pos + 1, InfoSlot(op.flush, Target.size))
  BY <1>5, <1>6, Writing, Typing
<1>8. PICK f : f = op.flush
  OBVIOUS
<1>9. PICK r : r = [node[f] EXCEPT !.dirty = FALSE]
  OBVIOUS
<1>10. /\ r \in NodeTypes /\ r.state = node[f].state /\ r.parent = node[f].parent
          /\ r.name = node[f].name
       /\ r.at = node[f].at /\ r.pos = node[f].pos /\ r.size = node[f].size
          /\ r.cached = node[f].cached
  BY <1>4, <1>8, <1>9 DEF NodeTypes
<1>11. node' = [node EXCEPT ![f] = r]
  <2>1. node \in [Nodes -> NodeTypes \cup {NoNode}]
    BY Typing DEF NodesTyped
  <2> QED BY <1>2, <1>5, <1>8, <1>9, <2>1
<1>12. /\ node' \in [Nodes -> NodeTypes \cup {NoNode}]
       /\ node'[f] = r /\ \A m \in Nodes : m # f => node'[m] = node[m]
  BY <1>2, <1>8, <1>10, <1>11, OneNode, Typing
<1>13. SameNodes
  BY <1>10, <1>12 DEF SameNodes
<1>14. \A n \in Nodes : /\ node'[n].name = node[n].name /\ node'[n].at = node[n].at
                        /\ node'[n].pos = node[n].pos /\ node'[n].size = node[n].size
  BY <1>10, <1>12
<1>15. \A m \in Ids : Standing(m)'
  <2> SUFFICES ASSUME NEW m \in Ids PROVE Standing(m)'
    OBVIOUS
  <2>1. node'[m].state = node[m].state /\ node'[m].parent = node[m].parent
    BY <1>13, Sorts DEF SameNodes
  <2>2. node'[m].name = node[m].name /\ node'[m].at = node[m].at /\ node'[m].pos = node[m].pos
    BY <1>14, Sorts
  <2>3. Standing(m)
    BY <1>2, Typing DEF NodesTyped
  <2> QED BY <2>1, <2>2, <2>3 DEF Standing
<1>16. \A e \in Directories : (CanEnter(e)' <=> CanEnter(e)) /\ node'[e].size = node[e].size
  BY <1>13, <1>14, Sorts DEF SameNodes, CanEnter
<1>17. CanEnter(Root) /\ mounted' = TRUE
  BY <1>2, <1>5, Typing DEF NodesTyped
<1>18. \A e \in Directories : Len(slots'[e]) = Len(slots[e])
  BY <1>7 DEF Writes
<1>19. NodesTyped'
  BY <1>2, <1>12, <1>15, <1>16, <1>17, <1>18, NodesFrom, Typing, Sorts
<1> QED BY <1>7, <1>8, <1>9, <1>12, <1>13, <1>14, <1>19

LEMMA FlushMeta2Typed ==
    ASSUME Typed, FlushMeta2
    PROVE  Typed'
<1>1. op.pc \in Flushes /\ Runs
  BY DEF FlushMeta2, Flushes, Runs
<1>2. SlotsTyped' /\ NodesTyped' /\ SameNodes
  BY FlushMeta2Is
<1>3. /\ UNCHANGED <<mounted, label, held, calls, tree, retried>>
      /\ moved' = moved \ {op.flush}
      /\ \E fails \in Outcomes : Fault(fails) /\ Flushed(~fails)
  BY DEF FlushMeta2
<1>4. PICK fails \in Outcomes : Fault(fails) /\ Flushed(~fails)
  BY <1>3
<1>5. fails \in BOOLEAN /\ (fails => CanFault)
  BY DEF Outcomes
<1>6. PICK ok \in BOOLEAN : ok = ~fails
  OBVIOUS
<1>7. Flushed(ok)
  BY <1>4, <1>6
<1>8. OpTyped' /\ refs' \in [Nodes -> Int]
  BY <1>1, <1>2, <1>3, <1>7, FlushedTyped
<1>9. faults' \in 0 .. MaxFaults /\ doubt' \subseteq Ids /\ torn' \subseteq Directories
  BY <1>1, <1>4, <1>5, FaultTyped
<1>10. OthersTyped'
  BY <1>3, <1>8, <1>9, Typing DEF OthersTyped
<1> QED BY <1>2, <1>8, <1>10 DEF Typed

\* The first cluster of a directory.
LEMMA RoomIs ==
    ASSUME Typed, op.pc = "room", MakeRoom
    PROVE  \E fails \in Outcomes :
             /\ Fault(fails)
             /\ SlotsTyped' /\ NodesTyped'
             /\ IF fails THEN
                /\ op' = [op EXCEPT !.pc = "erase", !.victim = op.node, !.k = 0, !.stage = "delete"]
                              /\ refs' = Get({op.dir}) /\ UNCHANGED <<slots, node>>
                ELSE /\ Clears(op.node, SLOTS)
                     /\ node'[op.node] = [node[op.node] EXCEPT !.size = 1, !.dirty = TRUE,
                        !.cached = TRUE]
                     /\ \A n \in Nodes : n # op.node => node'[n] = node[n]
                     /\ op' = FlushNext(op.node, "room") /\ refs' = refs
<1>1. Runs
  BY DEF Runs
<1>2. mounted /\ op \in Ops /\ CallTyped /\ PointTyped
  BY <1>1, RunsMounted
<1>3. op.kind = "mkdir" /\ op.node \in Folders /\ op.node \in Ids /\ node[op.node].state = "linked"
  BY <1>2 DEF PointTyped, CallTyped, Creations
<1>4. PICK n : n = op.node
  OBVIOUS
<1>5. n \in Folders /\ n \in Ids /\ n \in Nodes /\ n \in Directories /\ node[n].state = "linked"
      /\ node[n] \in NodeTypes /\ n # Root
  BY <1>3, <1>4, Sorts, NodeIs, Typing
<1>6. PICK fails \in Outcomes :
         /\ Fault(fails)
         /\ IF fails
            THEN /\ op' = [op EXCEPT !.pc = "erase", !.victim = op.node, !.k = 0,
                                     !.stage = "delete"]
                 /\ refs' = Get({op.dir})
                 /\ UNCHANGED <<slots, node>>
            ELSE /\ slots' = [slots EXCEPT ![n] = [i \in 1 .. SLOTS |-> Free]]
                 /\ node' = [node EXCEPT ![n].size = 1, ![n].dirty = TRUE, ![n].cached = TRUE]
                 /\ op' = FlushNext(op.node, "room")
                 /\ UNCHANGED refs
  BY <1>4 DEF MakeRoom
<1>7. mounted' = TRUE
  BY <1>2, Typing DEF MakeRoom
<1>8. CASE fails
  <2>1. UNCHANGED <<slots, node>>
    BY <1>6, <1>8
  <2>2. SlotsTyped' /\ NodesTyped'
    BY <1>2, <1>7, <2>1, NodesKept, Typing DEF SlotsTyped
  <2> QED BY <1>6, <1>8, <2>2
<1>9. CASE ~fails
  <2>1. SlotsTyped' /\ Clears(n, SLOTS)
    BY <1>5, <1>6, <1>9, Clearing, Typing
  <2>2. PICK r : r = [node[n] EXCEPT !.size = 1, !.dirty = TRUE, !.cached = TRUE]
    OBVIOUS
  <2>3. 1 \in 0 .. MaxClusters
    BY ConstantsAre
  <2>4. /\ r \in NodeTypes /\ r.state = node[n].state /\ r.parent = node[n].parent
           /\ r.name = node[n].name
        /\ r.at = node[n].at /\ r.pos = node[n].pos /\ r.size = 1
    BY <1>5, <2>2, <2>3 DEF NodeTypes
  <2>5. node' = [node EXCEPT ![n] = r]
    <3>1. node \in [Nodes -> NodeTypes \cup {NoNode}]
      BY Typing DEF NodesTyped
    <3> QED BY <1>5, <1>6, <1>9, <2>2, <3>1
  <2>6. /\ node' \in [Nodes -> NodeTypes \cup {NoNode}]
        /\ node'[n] = r /\ \A m \in Nodes : m # n => node'[m] = node[m]
    BY <1>5, <2>4, <2>5, OneNode, Typing
  <2>7. \A m \in Ids : Standing(m)'
    <3> SUFFICES ASSUME NEW m \in Ids PROVE Standing(m)'
      OBVIOUS
    <3>1. Standing(m)
      BY <1>2, Typing DEF NodesTyped
    <3>2. CASE m = n
      BY <2>4, <2>6, <3>1, <3>2 DEF Standing
    <3>3. CASE m # n
      <4>1. node'[m] = node[m]
        BY <2>6, <3>3, Sorts
      <4> QED BY <3>1, <4>1 DEF Standing
    <3> QED BY <3>2, <3>3
  <2>8. /\ CanEnter(Root) /\ node[Root].size * SLOTS = Len(slots[Root])
        /\ \A e \in Directories : CanEnter(e) => node[e].size * SLOTS <= Len(slots[e])
    BY <1>2, Typing DEF NodesTyped
  <2>9. node'[Root] = node[Root] /\ slots'[Root] = slots[Root]
    BY <1>5, <2>1, <2>6, Sorts DEF Clears
  <2>10. \A e \in Directories : CanEnter(e)' => node'[e].size * SLOTS <= Len(slots'[e])
    <3> SUFFICES ASSUME NEW e \in Directories, CanEnter(e)'
                 PROVE node'[e].size * SLOTS <= Len(slots'[e])
      OBVIOUS
    <3>1. CASE e = n
      <4>1. 1 * SLOTS = SLOTS /\ SLOTS \in Nat
        BY ConstantsAre
      <4> QED BY <2>1, <2>4, <2>6, <3>1, <4>1 DEF Clears
    <3>2. CASE e # n
      <4>1. node'[e] = node[e] /\ slots'[e] = slots[e]
        BY <2>1, <2>6, <3>2, Sorts DEF Clears
      <4> QED BY <2>8, <4>1 DEF CanEnter
    <3> QED BY <3>1, <3>2
  <2>11. NodesTyped'
    BY <1>7, <2>6, <2>7, <2>8, <2>9, <2>10 DEF NodesTyped, CanEnter
  <2> QED BY <1>4, <1>6, <1>9, <2>1, <2>2, <2>6, <2>11
<1> QED BY <1>8, <1>9

LEMMA MakeRoomTyped ==
    ASSUME Typed, MakeRoom
    PROVE  Typed'
<1>1. op.pc = "room" /\ Runs
  BY DEF MakeRoom, Runs
<1>2. mounted /\ op \in Ops /\ CallTyped /\ PointTyped
  BY <1>1, RunsMounted
<1>3. /\ op.kind = "mkdir" /\ op.node \in Folders /\ op.node \in Ids
         /\ node[op.node].state = "linked"
      /\ node[op.node].parent = op.dir /\ op.dir = Root /\ op.victim = None /\ CanEnter(Root)
      /\ op.name \in Names /\ op.node \in Directories /\ op.node \in Nodes /\ op.node # Root
  BY <1>1, <1>2, Sorts DEF PointTyped, CallTyped, Creations
<1>4. PICK fails \in Outcomes :
             /\ Fault(fails)
             /\ SlotsTyped' /\ NodesTyped'
             /\ IF fails THEN
                /\ op' = [op EXCEPT !.pc = "erase", !.victim = op.node, !.k = 0, !.stage = "delete"]
                              /\ refs' = Get({op.dir}) /\ UNCHANGED <<slots, node>>
                ELSE /\ Clears(op.node, SLOTS)
                     /\ node'[op.node] = [node[op.node] EXCEPT !.size = 1, !.dirty = TRUE,
                        !.cached = TRUE]
                     /\ \A n \in Nodes : n # op.node => node'[n] = node[n]
                     /\ op' = FlushNext(op.node, "room") /\ refs' = refs
  BY <1>1, RoomIs
<1>5. fails \in BOOLEAN /\ (fails => CanFault)
  BY DEF Outcomes
<1>6. faults' \in 0 .. MaxFaults /\ doubt' \subseteq Ids /\ torn' \subseteq Directories
  BY <1>1, <1>4, <1>5, FaultTyped
<1>7. UNCHANGED <<mounted, label, held, calls, tree, retried, moved>>
  BY DEF MakeRoom
<1>8. refs' \in [Nodes -> Int]
  BY <1>4, GetIs, Typing
<1>9. OthersTyped'
  BY <1>6, <1>7, <1>8, Typing DEF OthersTyped
<1>10. PICK o : o = op'
  OBVIOUS
<1>11. node'[Root].state = "linked" /\ node'[Root].cached
       /\ node'[op.node].state = "linked" /\ node'[op.node].parent = op.dir
  <2>1. node[op.node] \in NodeTypes /\ op.node \in Nodes /\ Root \in Nodes
    BY <1>3, NodeIs, Typing, Sorts
  <2>2. node'[op.node].state = node[op.node].state /\ node'[op.node].parent = node[op.node].parent
    BY <1>4, <2>1, ConstantsAre, ZenonT(40) DEF NodeTypes
  <2>3. node'[Root] = node[Root]
    BY <1>3, <1>4, <2>1
  <2> QED BY <1>3, <2>2, <2>3 DEF CanEnter
<1>12. /\ o \in Ops /\ o.kind = op.kind /\ o.node = op.node /\ o.dir = op.dir /\ o.name = op.name
       /\ o.meta = op.meta
       /\ \/ o.pc = "erase" /\ o.victim = op.node /\ o.stage = "delete"
          \/ o.pc = "flush1" /\ o.victim = None /\ o.stage = "room" /\ o.flush = op.node
  <2>1. CASE fails
    <3>1. o = [op EXCEPT !.pc = "erase", !.victim = op.node, !.k = 0, !.stage = "delete"]
      BY <1>4, <1>10, <2>1
    <3>2. op \in Ops /\ op.node \in Ids
      BY <1>2, <1>3
    <3> QED BY ONLY <3>1, <3>2, ZenonT(40) DEF Ops, Pcs, Stages
  <2>2. CASE ~fails
    <3>1. o = [op EXCEPT !.pc = "flush1", !.flush = op.node, !.stage = "room"]
      BY <1>4, <1>10, <2>2 DEF FlushNext
    <3> QED BY <1>2, <1>3, <3>1, ZenonT(40) DEF Ops, Pcs, Stages
  <2> QED BY <2>1, <2>2
<1>13. CallTyped'
  BY <1>3, <1>7, <1>10, <1>11, <1>12, ConstantsAre, Sorts DEF CallTyped, CanEnter, Creations
<1>14. SlotSane(o.meta[1]) /\ SlotSane(o.meta[2])
  BY <1>2, <1>12 DEF PointTyped
<1>15. PointTyped'
  <2>1. /\ op'.kind = "mkdir" /\ op'.meta = o.meta /\ op'.node = op.node /\ op'.dir = op.dir
        /\ \/ op'.pc = "erase" /\ op'.victim = op.node /\ op'.stage = "delete"
           \/ op'.pc = "flush1" /\ op'.victim = None /\ op'.stage = "room" /\ op'.flush = op.node
    BY <1>3, <1>10, <1>12
  <2>2. SlotSane(op'.meta[1]) /\ SlotSane(op'.meta[2])
    BY <1>14, <2>1
  <2> QED BY ONLY <1>3, <1>11, <2>1, <2>2 DEF PointTyped, Flushes, None, Creations
<1> QED BY <1>4, <1>9, <1>10, <1>12, <1>13, <1>15 DEF Typed, OpTyped, Runs

-----------------------------------------------------------------------------
(* Types: what a mount finds                                               *)

\* What the entries on the medium stand for.
LEMMA ChildrenAre ==
    ASSUME SlotsTyped, NEW d \in Directories, NEW size \in Nat, NEW c \in ChildrenIn(d, size)
    PROVE  /\ c.id \in Ids /\ c.dir = d /\ c.pos \in Spots /\ c.pos \in 1 .. size * SLOTS
           /\ c.name \in Names /\ c.size \in 0 .. MaxClusters
           /\ size * SLOTS <= Len(slots[d]) /\ Readable(d, size)
           /\ SlotAt(d, c.pos).t = "file" /\ c.id = SlotAt(d, c.pos).id
              /\ c.name = SlotAt(d, c.pos).name
           /\ c.size = SlotAt(d, c.pos).size
           /\ c = [id |-> SlotAt(d, c.pos).id, dir |-> d, pos |-> c.pos,
              name |-> SlotAt(d, c.pos).name,
                   size |-> SlotAt(d, c.pos).size]
<1>1. Readable(d, size)
  BY DEF ChildrenIn
<1>2. PICK p \in 1 .. size * SLOTS :
         /\ slots[d][p].t = "file"
         /\ c = [id |-> slots[d][p].id, dir |-> d, pos |-> p, name |-> slots[d][p].name,
            size |-> slots[d][p].size]
  BY <1>1 DEF ChildrenIn
<1>3. size * SLOTS \in Nat /\ size * SLOTS <= Len(slots[d])
  BY <1>1, WholeClusters DEF Readable
<1>4. Len(slots[d]) \in Nat /\ Len(slots[d]) <= MaxClusters * SLOTS /\ MaxClusters * SLOTS \in Nat
      /\ DOMAIN slots[d] = 1 .. Len(slots[d])
  BY SlotIs, WholeClusters, ConstantsAre DEF SlotsTyped
<1>5. p \in DOMAIN slots[d] /\ p \in Spots
  BY <1>3, <1>4 DEF Spots
<1>6. SlotAt(d, p) = slots[d][p] /\ SlotAt(d, p) \in SlotType /\ SlotSane(SlotAt(d, p))
  BY <1>5, SlotIs
<1>7. SlotAt(d, p).id \in Ids /\ SlotAt(d, p).name \in Names
      /\ SlotAt(d, p).size \in 0 .. MaxClusters
  BY <1>2, <1>6 DEF SlotSane, SlotType
<1>8. c.pos = p /\ c.id = slots[d][p].id /\ c.dir = d /\ c.name = slots[d][p].name
      /\ c.size = slots[d][p].size
  BY <1>2
<1> QED BY <1>1, <1>2, <1>3, <1>5, <1>6, <1>7, <1>8

LEMMA RootSizeIs ==
    ASSUME SlotsTyped
    PROVE  RootSize \in 0 .. MaxClusters /\ RootSize \in Nat /\ RootSize * SLOTS = Len(slots[Root])
<1>1. Len(slots[Root]) \in Nat /\ Len(slots[Root]) % SLOTS = 0
      /\ Len(slots[Root]) <= MaxClusters * SLOTS
  BY SlotIs, Sorts DEF SlotsTyped
<1>2. RootSize \in Nat /\ RootSize * SLOTS = Len(slots[Root])
  BY <1>1, ClustersOf DEF RootSize
<1>3. RootSize <= MaxClusters
  <2> SUFFICES ASSUME MaxClusters < RootSize PROVE FALSE
    BY <1>2, ConstantsAre
  <2>1. MaxClusters * SLOTS < RootSize * SLOTS
    BY <1>2, MoreClusters, ConstantsAre
  <2>2. MaxClusters * SLOTS \in Nat
    BY WholeClusters, ConstantsAre
  <2> QED BY <1>1, <1>2, <2>1, <2>2
<1> QED BY <1>2, <1>3, ConstantsAre

LEMMA FoundAre ==
    ASSUME SlotsTyped, NEW c \in Found
    PROVE  /\ c.dir \in Directories
           /\ \E size \in Nat : /\ c \in ChildrenIn(c.dir, size)
                                /\ IF c.dir = Root THEN size = RootSize
                                   ELSE \E x \in ChildrenIn(Root, RootSize) : x.id = c.dir
                                   /\ x.size = size
           /\ c.id \in Ids /\ c.pos \in Spots /\ c.name \in Names /\ c.size \in 0 .. MaxClusters
           /\ SlotAt(c.dir, c.pos).t = "file" /\ c.id = SlotAt(c.dir, c.pos).id
           /\ c.name = SlotAt(c.dir, c.pos).name /\ c.size = SlotAt(c.dir, c.pos).size
           /\ c = [id |-> SlotAt(c.dir, c.pos).id, dir |-> c.dir, pos |-> c.pos,
                   name |-> SlotAt(c.dir, c.pos).name, size |-> SlotAt(c.dir, c.pos).size]
<1>1. \E d \in Directories, size \in Nat :
         /\ c \in ChildrenIn(d, size)
         /\ IF d = Root THEN size = RootSize ELSE \E x \in ChildrenIn(Root, RootSize) : x.id = d
            /\ x.size = size
  <2>1. CASE c \in ChildrenIn(Root, RootSize)
    BY <2>1, RootSizeIs, Sorts
  <2>2. CASE c \notin ChildrenIn(Root, RootSize)
    <3>1. PICK x \in ChildrenIn(Root, RootSize) : x.id \in Folders /\ c \in ChildrenIn(x.id, x.size)
      BY <2>2 DEF Found
    <3>2. x.size \in Nat
      BY <3>1, ChildrenAre, RootSizeIs, Sorts, ConstantsAre
    <3> QED BY <3>1, <3>2, Sorts
  <2> QED BY <2>1, <2>2
<1>2. PICK d \in Directories, size \in Nat :
         /\ c \in ChildrenIn(d, size)
         /\ IF d = Root THEN size = RootSize ELSE \E x \in ChildrenIn(Root, RootSize) : x.id = d
            /\ x.size = size
  BY <1>1
<1>3. c.dir = d
  BY <1>2, ChildrenAre
<1> QED BY <1>2, <1>3, ChildrenAre

LEMMA NodesFoundAre ==
    ASSUME SlotsTyped, OneTree
    PROVE  /\ NodesFound \in [Nodes -> NodeTypes \cup {NoNode}]
           /\ NodesFound[Root] = RootNode(RootSize)
           /\ \A n \in Ids :
                \/ NodesFound[n] = NoNode /\ \A c \in Found : c.id # n
                \/ \E c \in Found : /\ c.id = n
                                    /\ n \in Folders => c.dir = Root
                                    /\ NodesFound[n] = NodeAt(c.dir, c.pos, c.name, c.size,
                                                              n \in Folders /\ Readable(n, c.size))
<1>1. NodesFound[Root] = RootNode(RootSize)
  BY Sorts DEF NodesFound
<1>2. RootNode(RootSize) \in NodeTypes
  <2>1. RootSize \in 0 .. MaxClusters
    BY RootSizeIs
  <2> QED BY <2>1 DEF RootNode, NodeAt, NodeTypes
<1>3. ASSUME NEW n \in Ids
      PROVE  /\ NodesFound[n] \in NodeTypes \cup {NoNode}
             /\ \/ NodesFound[n] = NoNode /\ \A c \in Found : c.id # n
                \/ \E c \in Found : /\ c.id = n
                                    /\ n \in Folders => c.dir = Root
                                    /\ NodesFound[n] = NodeAt(c.dir, c.pos, c.name, c.size,
                                                              n \in Folders /\ Readable(n, c.size))
  <2>1. NodesFound[n] = IF \A c \in Found : c.id # n THEN NoNode
         ELSE LET c == CHOOSE x \in Found : x.id = n
              IN  NodeAt(c.dir, c.pos, c.name, c.size, n \in Folders /\ Readable(n, c.size))
    BY <1>3, Sorts DEF NodesFound
  <2>2. CASE \A c \in Found : c.id # n
    BY <2>1, <2>2
  <2>3. CASE ~\A c \in Found : c.id # n
    <3>1. PICK c : c = CHOOSE x \in Found : x.id = n
      OBVIOUS
    <3>2. c \in Found /\ c.id = n
      BY <2>3, <3>1
    <3>3. PICK b \in BOOLEAN : b = (n \in Folders /\ Readable(n, c.size))
      OBVIOUS
    <3>4. NodesFound[n] = NodeAt(c.dir, c.pos, c.name, c.size, b)
      BY <2>1, <2>3, <3>1, <3>3
    <3>5. c.dir \in Directories /\ c.pos \in Spots /\ c.name \in Names
          /\ c.size \in 0 .. MaxClusters
      BY <3>2, FoundAre
    <3>6. c.pos \in Nat
      BY <3>5 DEF Spots
    <3>7. NodeAt(c.dir, c.pos, c.name, c.size, b) \in NodeTypes
      BY <3>5, <3>6 DEF NodeAt, NodeTypes
    <3>8. n \in Folders => c.dir = Root
      BY <3>2 DEF OneTree
    <3> QED BY <3>2, <3>3, <3>4, <3>7, <3>8
  <2> QED BY <2>2, <2>3
<1>4. \A n \in Nodes : NodesFound[n] \in NodeTypes \cup {NoNode}
  <2> SUFFICES ASSUME NEW n \in Nodes PROVE NodesFound[n] \in NodeTypes \cup {NoNode}
    OBVIOUS
  <2>1. n = Root \/ n \in Ids
    BY DEF Nodes
  <2> QED BY <1>1, <1>2, <1>3, <2>1
<1>5. NodesFound = [n \in Nodes |-> NodesFound[n]]
  BY DEF NodesFound
<1>6. NodesFound \in [Nodes -> NodeTypes \cup {NoNode}]
  BY <1>4, <1>5
<1> QED BY <1>1, <1>3, <1>6

\* The nodes that a mount finds have their types.
LEMMA FoundTyped ==
    ASSUME SlotsTyped, OneTree, node = NodesFound, mounted
    PROVE  NodesTyped
           /\ \A n \in Ids : Place(n) \in (Directories \cup {None}) \X (Names \cup {None})
<1>1. node \in [Nodes -> NodeTypes \cup {NoNode}] /\ node[Root] = RootNode(RootSize)
  BY NodesFoundAre
<1>2. CanEnter(Root) /\ node[Root].size * SLOTS = Len(slots[Root])
  <2>1. node[Root].state = "linked" /\ node[Root].cached /\ node[Root].size = RootSize
    BY <1>1 DEF RootNode, NodeAt
  <2> QED BY <2>1, RootSizeIs DEF CanEnter
<1>3. NoNode.state = "absent"
  BY DEF NoNode
<1>4. ASSUME NEW n \in Ids
      PROVE  /\ Standing(n) /\ Place(n) \in (Directories \cup {None}) \X (Names \cup {None})
             /\ n \in Directories /\ CanEnter(n) => node[n].size * SLOTS <= Len(slots[n])
  <2>1. CASE node[n] = NoNode
    BY <1>3, <2>1 DEF Standing, Place, Nowhere, CanEnter
  <2>2. CASE node[n] # NoNode
    <3>1. PICK c \in Found : /\ c.id = n
                             /\ n \in Folders => c.dir = Root
                             /\ node[n] = NodeAt(c.dir, c.pos, c.name, c.size,
                                n \in Folders /\ Readable(n, c.size))
      BY <1>4, <2>2, NodesFoundAre
    <3>2. c.dir \in Directories /\ c.pos \in Spots /\ c.name \in Names
          /\ c.size \in 0 .. MaxClusters
      BY <3>1, FoundAre
    <3>3. PICK b \in BOOLEAN : b = (n \in Folders /\ Readable(n, c.size))
      OBVIOUS
    <3>4. node[n] = NodeAt(c.dir, c.pos, c.name, c.size, b)
      BY <3>1, <3>3
    <3>5. /\ node[n].state = "linked" /\ node[n].parent = c.dir /\ node[n].at = c.dir
             /\ node[n].name = c.name
          /\ node[n].pos = c.pos /\ node[n].size = c.size /\ node[n].cached = b
      BY <3>4 DEF NodeAt
    <3>6. Standing(n)
      BY <3>1, <3>2, <3>5 DEF Standing
    <3>7. Place(n) \in (Directories \cup {None}) \X (Names \cup {None})
      BY <3>2, <3>5 DEF Place
    <3>8. CanEnter(n) => Readable(n, c.size)
      BY <3>3, <3>5 DEF CanEnter
    <3>9. CanEnter(n) => c.size * SLOTS <= Len(slots[n])
      BY <3>8 DEF Readable
    <3> QED BY <3>5, <3>6, <3>7, <3>9
  <2> QED BY <2>1, <2>2
<1>5. \A d \in Directories : CanEnter(d) => node[d].size * SLOTS <= Len(slots[d])
  <2> SUFFICES ASSUME NEW d \in Directories, CanEnter(d) PROVE node[d].size * SLOTS <= Len(slots[d])
    OBVIOUS
  <2>1. CASE d = Root
    <3>1. Len(slots[Root]) \in Nat
      BY SlotIs, Sorts
    <3> QED BY <1>2, <2>1, <3>1
  <2>2. CASE d # Root
    BY <1>4, <2>2, Sorts
  <2> QED BY <2>1, <2>2
<1>6. NodesTyped
  BY <1>1, <1>2, <1>4, <1>5 DEF NodesTyped
<1> QED BY <1>4, <1>6

LEMMA LabelFoundIs ==
    ASSUME SlotsTyped
    PROVE  LabelFound \in Labels \cup {None}
<1> DEFINE at == {p \in DOMAIN slots[Root] : slots[Root][p].t = "label"}
           last == CHOOSE p \in at : \A q \in at : p >= q
<1>1. LabelFound = IF at = {} THEN None ELSE slots[Root][last].name
  BY DEF LabelFound
<1>2. CASE at = {}
  BY <1>1, <1>2
<1>3. CASE at # {}
  <2>1. Len(slots[Root]) \in Nat /\ DOMAIN slots[Root] = 1 .. Len(slots[Root])
    BY SlotIs, Sorts
  <2>2. at \subseteq 0 .. Len(slots[Root])
    BY <2>1
  <2>3. \E p \in at : \A q \in at : q <= p
    BY <1>3, <2>1, <2>2, GreatestElement
  <2>4. \E p \in at : \A q \in at : p >= q
    BY <2>1, <2>3
  <2>5. last \in at
    BY <2>4, Zenon
  <2>6. PICK l : l = last
    OBVIOUS
  <2>7. l \in DOMAIN slots[Root] /\ slots[Root][l].t = "label"
    BY <2>5, <2>6
  <2>8. SlotSane(slots[Root][l])
    BY <2>7, Sorts DEF SlotsTyped
  <2> QED BY <1>1, <1>3, <2>6, <2>7, <2>8 DEF SlotSane
<1> QED BY <1>2, <1>3

LEMMA MountTyped ==
    ASSUME Typed, Mount
    PROVE  Typed'
<1>1. ~mounted /\ OneTree /\ op = Idle /\ held = {}
  BY Typing DEF Mount, NodesTyped
<1>2. /\ mounted' = TRUE /\ node' = NodesFound /\ label' = LabelFound
      /\ tree' = [n \in Ids |-> IF n \in doubt THEN Nowhere ELSE tree[n]]
      /\ UNCHANGED <<slots, refs, op, held, calls, faults, doubt, torn, retried, moved>>
  BY DEF Mount
<1>3. SlotsTyped'
  BY <1>2, Typing DEF SlotsTyped
<1>4. OneTree' /\ NodesFound' = NodesFound
  <2>1. Found' = Found
    BY <1>2 DEF Found, ChildrenIn, Readable, Visible, RootSize
  <2>2. OneTree'
    BY <1>1, <2>1 DEF OneTree
  <2>3. NodesFound' = NodesFound
    BY <1>2, <2>1 DEF NodesFound, RootSize, Readable, Visible
  <2> QED BY <2>2, <2>3
<1>5. NodesTyped'
  <2>1. SlotsTyped' /\ OneTree' /\ (node = NodesFound)' /\ mounted'
    BY <1>2, <1>3, <1>4
  <2> QED BY <2>1, FoundTyped, PTL
<1>6. label' \in Labels \cup {None}
  BY <1>2, LabelFoundIs, Typing
<1>7. tree' \in [Ids -> (Directories \cup {None}) \X (Names \cup {None})]
  <2>1. Nowhere \in (Directories \cup {None}) \X (Names \cup {None})
    BY DEF Nowhere
  <2> QED BY <1>2, <2>1, Typing
<1>8. OthersTyped'
  BY <1>2, <1>6, <1>7, Typing DEF OthersTyped
<1>9. OpTyped'
  BY <1>1, <1>2, IdleTyped
<1> QED BY <1>3, <1>5, <1>8, <1>9 DEF Typed

LEMMA InitTyped ==
    ASSUME Init
    PROVE  Typed
<1>1. SoundVolume(slots)
  BY VolumesAssumption DEF Init
<1>2. SlotsTyped
  <2>1. /\ slots \in [Directories -> Seq(SlotType)]
        /\ \A d \in Directories :
             /\ Len(slots[d]) % SLOTS = 0 /\ Len(slots[d]) <= MaxClusters * SLOTS
             /\ \A p \in DOMAIN slots[d] :
                  /\ slots[d][p].t = "label" => slots[d][p].name \in Labels
                  /\ slots[d][p].t = "file" => slots[d][p].id \in Ids /\ slots[d][p].name \in Names
    BY <1>1 DEF SoundVolume
  <2> QED BY <2>1 DEF SlotsTyped, SlotSane
<1>3. OneTree
  <2> SUFFICES ASSUME NEW c \in Found
               PROVE  /\ c.id \in Folders => c.dir = Root
                      /\ \A e \in Found : e.id = c.id => e = c
    BY DEF OneTree
  <2>1. \A x \in Found : /\ x.dir \in Directories /\ x.pos \in DOMAIN slots[x.dir]
                         /\ slots[x.dir][x.pos].t = "file" /\ x.id = slots[x.dir][x.pos].id
    <3> SUFFICES ASSUME NEW x \in Found
                 PROVE  /\ x.dir \in Directories /\ x.pos \in DOMAIN slots[x.dir]
                        /\ slots[x.dir][x.pos].t = "file" /\ x.id = slots[x.dir][x.pos].id
      OBVIOUS
    <3>1. x.dir \in Directories /\ SlotAt(x.dir, x.pos).t = "file" /\ x.id = SlotAt(x.dir, x.pos).id
      BY <1>2, FoundAre
    <3>2. x.pos \in DOMAIN slots[x.dir]
      <4>1. Free.t # "file"
        BY DEF Free, Slot
      <4> QED BY <3>1, <4>1 DEF SlotAt
    <3> QED BY <3>1, <3>2 DEF SlotAt
  <2>2. c.id \in Folders => c.dir = Root
    BY <1>1, <2>1 DEF SoundVolume
  <2>3. ASSUME NEW e \in Found, e.id = c.id PROVE e = c
    <3>1. e.dir = c.dir /\ e.pos = c.pos
      BY <1>1, <2>1, <2>3 DEF SoundVolume
    <3> QED BY <1>2, <3>1, FoundAre
  <2> QED BY <2>2, <2>3
<1>4. NodesTyped /\ \A n \in Ids : Place(n) \in (Directories \cup {None}) \X (Names \cup {None})
  BY <1>2, <1>3, FoundTyped DEF Init
<1>5. label \in Labels \cup {None}
  BY <1>2, LabelFoundIs DEF Init
<1>6. OthersTyped
  <2>1. PICK T : T = (Directories \cup {None}) \X (Names \cup {None})
    OBVIOUS
  <2>2. tree = [n \in Ids |-> Place(n)] /\ \A n \in Ids : Place(n) \in T
    BY <1>4, <2>1 DEF Init
  <2>3. tree \in [Ids -> T]
    BY ONLY <2>2
  <2>6. [n \in Nodes |-> 0] \in [Nodes -> Int]
    OBVIOUS
  <2>4. refs \in [Nodes -> Int] /\ held \subseteq Ids /\ doubt \subseteq Ids
        /\ torn \subseteq Directories
        /\ moved \subseteq Directories /\ mounted \in BOOLEAN /\ retried \in BOOLEAN
    BY <2>6 DEF Init
  <2>5. calls \in 0 .. MaxCalls /\ faults \in 0 .. MaxFaults
    BY ConstantsAre DEF Init
  <2> QED BY <1>5, <2>1, <2>3, <2>4, <2>5 DEF OthersTyped
<1>7. OpTyped
  BY DEF Init, OpTyped, Idle, Runs
<1> QED BY <1>2, <1>4, <1>6, <1>7 DEF Typed

-----------------------------------------------------------------------------
(* Types: the calls                                                        *)

\* A call begins, or is over at once.
LEMMA CallBegins ==
    ASSUME Typed, Call, UNCHANGED <<mounted, node, slots, label, faults, tree, doubt, torn, moved>>,
           refs' \in [Nodes -> Int], held' \subseteq Ids, retried' \in BOOLEAN, OpTyped'
    PROVE  Typed'
<1>1. mounted /\ mounted' = TRUE /\ calls' \in 0 .. MaxCalls
  <2>1. mounted /\ calls < MaxCalls /\ calls' = calls + 1
    BY DEF Call
  <2> QED BY <2>1, Typing, ConstantsAre
<1>2. SlotsTyped'
  BY Typing DEF SlotsTyped
<1>3. OthersTyped'
  BY <1>1, Typing DEF OthersTyped
<1>4. NodesTyped'
  BY <1>1, NodesKept, Typing
<1> QED BY <1>2, <1>3, <1>4 DEF Typed

Begins(r, pc, kind, n, d, name, victim) ==
    /\ pc \in Pcs /\ kind \in Kinds /\ n \in Ids \cup {None} /\ d \in Directories \cup {None}
    /\ name \in Names \cup Labels \cup {None} /\ victim \in Ids \cup {None}
    /\ r = Running(pc, kind, n, d, name, victim)

LEMMA RunningIs ==
    ASSUME NEW r, NEW pc, NEW kind, NEW n, NEW d, NEW name, NEW victim,
           Begins(r, pc, kind, n, d, name, victim)
    PROVE  r \in Ops
BY FreeTyped DEF Begins, Running, Ops, Stages

LEMMA SplitRootTyped ==
    ASSUME Typed, SplitRoot
    PROVE  Typed'
<1>1. /\ Call /\ op' = [pc |-> "aborted", path |-> Root]
      /\ UNCHANGED <<slots, mounted, node, refs, label, held, faults, tree, doubt, torn, retried,
         moved>>
  BY DEF SplitRoot, memory, history
<1> QED BY <1>1, IdleTyped, CallBegins, Typing

LEMMA LinkedIs ==
    ASSUME Typed, mounted, NEW n \in Linked
    PROVE  /\ n \in Ids /\ n \in Nodes /\ node[n].state = "linked" /\ node[n] \in NodeTypes
           /\ node[n].parent \in Directories /\ node[n].at \in Directories
           /\ node[n].name \in Names /\ node[n].pos \in Spots
              /\ (n \in Folders => node[n].parent = Root)
           /\ node[n].parent # n
<1>1. n \in Ids /\ n \in Nodes /\ node[n].state = "linked"
  BY Sorts DEF Linked
<1>2. node[n] \in NodeTypes /\ Standing(n)
  BY <1>1, NodeIs, Typing
<1>3. node[n].parent # n
  BY <1>1, <1>2, Sorts DEF Standing
<1> QED BY <1>1, <1>2, <1>3 DEF Standing

LEMMA DeleteTyped ==
    ASSUME Typed, NEW n \in Ids, Delete(n)
    PROVE  Typed'
<1>1. /\ Call /\ n \in Linked /\ CanEnter(node[n].parent)
      /\ op' = [Running("erase", "delete", None, node[n].parent, None, n) EXCEPT !.stage = "delete"]
      /\ refs' = [Get({n}) EXCEPT ![node[n].parent] = @ + 1]
      /\ Use({n})
      /\ UNCHANGED <<slots, mounted, node, label, held, faults, tree, doubt, torn, moved>>
  BY DEF Delete
<1>2. mounted
  BY <1>1 DEF Call
<1>3. n \in Nodes /\ node[n].state = "linked" /\ node[n].parent \in Directories
      /\ node[n].parent # n
  BY <1>1, <1>2, LinkedIs
<1>4. PICK d : d = node[n].parent
  OBVIOUS
<1>5. PICK r : r = Running("erase", "delete", None, d, None, n)
  OBVIOUS
<1>6. /\ r \in Ops /\ r.pc = "erase" /\ r.kind = "delete" /\ r.node = None /\ r.dir = d
      /\ r.victim = n /\ r.meta[1] = Free /\ r.meta[2] = Free
  <2>1. Begins(r, "erase", "delete", None, d, None, n)
    BY <1>3, <1>4, <1>5 DEF Begins, Pcs, Kinds
  <2>2. r \in Ops
    BY <2>1, RunningIs
  <2> QED BY <2>1, <2>2 DEF Begins, Running
<1>7. PICK o : o = op'
  OBVIOUS
<1>8. o = [r EXCEPT !.stage = "delete"]
  BY <1>1, <1>4, <1>5, <1>7
<1>9. /\ o \in Ops /\ o.pc = "erase" /\ o.kind = "delete" /\ o.node = None /\ o.dir = d
      /\ o.victim = n /\ o.stage = "delete" /\ o.meta[1] = Free /\ o.meta[2] = Free
  BY <1>6, <1>8 DEF Ops, Stages
<1>10. CallTyped'
  BY <1>1, <1>3, <1>4, <1>7, <1>9 DEF CallTyped, Creations, CanEnter
<1>11. PointTyped'
  BY <1>1, <1>3, <1>4, <1>7, <1>9, FreeTyped DEF PointTyped, Flushes, None
<1>12. OpTyped'
  BY <1>7, <1>9, <1>10, <1>11 DEF OpTyped, Runs
<1>13. refs' \in [Nodes -> Int]
  <2>1. Get({n}) \in [Nodes -> Int] /\ d \in Nodes
    BY <1>3, <1>4, GetIs, Typing, Sorts
  <2>2. \A f \in [Nodes -> Int], m \in Nodes : [f EXCEPT ![m] = @ + 1] \in [Nodes -> Int]
    OBVIOUS
  <2> QED BY <1>1, <1>4, <2>1, <2>2
<1>14. retried' \in BOOLEAN
  BY <1>1, Typing DEF Use
<1> QED BY <1>1, <1>12, <1>13, <1>14, CallBegins, Typing

\* The node that has the name already, if there is one.
LEMMA ExistingIs ==
    ASSUME Typed, mounted, NEW d \in Directories, NEW name, NEW v \in Existing(d, name)
    PROVE  /\ v \in Ids \cup {None}
           /\ v # None => node[v].state = "linked" /\ node[v].parent = d /\ v # d
<1>1. CASE Lookup(d, name) = {}
  BY <1>1 DEF Existing
<1>2. CASE v \in Lookup(d, name)
  <2>1. v \in Linked /\ node[v].parent = d
    BY <1>2 DEF Lookup, Children
  <2> QED BY <2>1, LinkedIs
<1> QED BY <1>1, <1>2 DEF Existing

\* A call that has looked up its path, before it checks what it found.
LEMMA SplitBegins ==
    ASSUME Typed, Call, NEW kind \in Creations \cup {"rename"}, NEW n \in Nodes,
           NEW d \in Directories \cup {None}, NEW name \in Names \cup {None},
           NEW v \in Ids \cup {None},
           op' = Running("split", kind, n, d, name, v), refs' \in [Nodes -> Int],
           UNCHANGED <<slots, mounted, node, label, held, faults, history>>,
           d # None => CanEnter(d) /\ name \in Names,
           kind \in Creations => d # None /\ n \in Ids /\ (kind = "mkdir" <=> n \in Folders)
                                 /\ (kind = "mkdir" => d = Root),
           kind = "rename" => /\ n # Root => node[n].state = "linked"
                              /\ n \in Folders => d \in {None, Root, n},
           v # None => /\ d # None /\ v # d
                       /\ node[v].state = "linked" /\ node[v].parent = d
    PROVE  Typed'
<1>1. PICK o : o = op'
  OBVIOUS
<1>2. /\ o \in Splits /\ o.pc = "split" /\ o.kind = kind /\ o.node = n /\ o.dir = d
      /\ o.name = name /\ o.victim = v
  BY <1>1 DEF Running, Splits
<1>3. SplitTyped'
  BY <1>1, <1>2 DEF SplitTyped, CanEnter
<1>4. OpTyped'
  BY <1>1, <1>2, <1>3 DEF OpTyped, Runs
<1> QED BY <1>4, CallBegins, Typing DEF history

LEMMA CreateTyped ==
    ASSUME Typed, NEW n \in Ids, NEW d \in Directories, NEW name \in Names, Create(d, name, n)
    PROVE  Typed'
<1>1. PICK v \in Existing(d, name) :
         /\ op' = Running("split", IF n \in Folders THEN "mkdir" ELSE "mknod", n, d, name, v)
         /\ refs' = GetAll(d, None, v)
  BY Zenon DEF Create
<1>2. /\ Call /\ CanEnter(d) /\ (n \in Folders => d = Root)
      /\ UNCHANGED <<slots, mounted, node, label, held, faults, history>>
  BY DEF Create
<1>3. PICK kind : kind = IF n \in Folders THEN "mkdir" ELSE "mknod"
  OBVIOUS
<1>4. /\ v \in Ids \cup {None}
      /\ v # None => node[v].state = "linked" /\ node[v].parent = d /\ v # d
  BY <1>2, ExistingIs DEF Call
<1>5. op' = Running("split", kind, n, d, name, v) /\ kind \in Creations /\ kind # "rename"
      /\ (kind = "mkdir" <=> n \in Folders)
  BY <1>1, <1>3 DEF Creations
<1>6. refs' \in [Nodes -> Int] /\ n \in Nodes /\ d # None
  BY <1>1, GetAllIs, Typing, Sorts, ConstantsAre
<1> QED BY <1>2, <1>4, <1>5, <1>6, SplitBegins

LEMMA RenamedIs ==
    ASSUME Typed, NEW n \in Nodes, Renamed(n)
    PROVE  n # Root => n \in Ids /\ node[n].state = "linked"
BY DEF Renamed, Linked

LEMMA RenameTyped ==
    ASSUME Typed, NEW n \in Nodes, NEW d \in Directories, NEW name \in Names, Rename(n, d, name)
    PROVE  Typed'
<1>1. PICK v \in Existing(d, name) :
         op' = Running("split", "rename", n, d, name, v) /\ refs' = GetAll(n, d, v)
  BY Zenon DEF Rename
<1>2. /\ Call /\ Renamed(n) /\ CanEnter(d) /\ (n \in Folders => d \in {Root, n})
      /\ UNCHANGED <<slots, mounted, node, label, held, faults, history>>
  BY DEF Rename
<1>3. /\ v \in Ids \cup {None}
      /\ v # None => node[v].state = "linked" /\ node[v].parent = d /\ v # d
  BY <1>2, ExistingIs DEF Call
<1>4. refs' \in [Nodes -> Int] /\ d # None /\ (n # Root => node[n].state = "linked")
  BY <1>1, <1>2, GetAllIs, RenamedIs, Typing, ConstantsAre
<1>5. "rename" \notin Creations
  BY DEF Creations
<1> QED BY <1>1, <1>2, <1>3, <1>4, <1>5, SplitBegins

LEMMA RenameNowhereTyped ==
    ASSUME Typed, NEW n \in Nodes, RenameNowhere(n)
    PROVE  Typed'
<1>1. /\ Call /\ Renamed(n) /\ op' = Running("split", "rename", n, None, None, None)
      /\ refs' = Get({n})
      /\ UNCHANGED <<slots, mounted, node, label, held, faults, history>>
  BY DEF RenameNowhere
<1>2. refs' \in [Nodes -> Int] /\ (n # Root => node[n].state = "linked")
  BY <1>1, GetIs, RenamedIs, Typing
<1>3. "rename" \notin Creations
  BY DEF Creations
<1> QED BY <1>1, <1>2, <1>3, SplitBegins

\* What a call has looked up, for what it is.
LEMMA SplitIs ==
    ASSUME Typed, op.pc = "split"
    PROVE  /\ mounted /\ SplitTyped /\ op \in Splits /\ op.stage = None
           /\ op.kind \in Creations \cup {"rename"} /\ op.node \in Nodes
           /\ op.dir \in Directories \cup {None} /\ op.victim \in Ids \cup {None}
           /\ op.meta[1] = Free /\ op.meta[2] = Free
<1>1. mounted
  BY DEF Typed, NodesTyped, OthersTyped, Idle
<1>2. SplitTyped
  BY DEF Typed, OpTyped
<1>3. op \in Splits
  BY <1>2 DEF SplitTyped
<1>4. /\ op.stage = None /\ op.kind \in Creations \cup {"rename"} /\ op.node \in Nodes
      /\ op.dir \in Directories \cup {None} /\ op.victim \in Ids \cup {None}
      /\ op.meta = <<Free, Free>>
  BY ONLY <1>3 DEF Splits
<1> QED BY <1>1, <1>2, <1>3, <1>4

\* What becomes of it when it goes on.
LEMMA SplitGoes ==
    ASSUME op \in Splits, op.node \in Ids, NEW o,
           \/ o = [op EXCEPT !.pc = "slot"] /\ op.victim = None
           \/ o = [op EXCEPT !.pc = "slot", !.victim = None]
           \/ o = [op EXCEPT !.pc = "erase", !.stage = "delete"]
           \/ o = [op EXCEPT !.pc = "deleted", !.ok = FALSE]
    PROVE  /\ o \in Ops /\ o.kind = op.kind /\ o.node = op.node /\ o.dir = op.dir
           /\ o.name = op.name /\ o.meta[1] = Free /\ o.meta[2] = Free
           /\ \/ o.pc = "slot" /\ o.victim = None /\ o.stage = None
              \/ o.pc = "erase" /\ o.victim = op.victim /\ o.stage = "delete"
              \/ o.pc = "deleted" /\ o.victim = op.victim /\ o.stage = None
<1>1. PICK S : S = SlotType \X SlotType
  OBVIOUS
<1>2. PICK m : m = <<Free, Free>>
  OBVIOUS
<1>3. m \in S /\ m[1] = Free /\ m[2] = Free
  BY <1>1, <1>2, FreeTyped
<1>4. PICK r : r = op
  OBVIOUS
<1>5. r \in [pc : {"split"}, kind : Creations \cup {"rename"}, node : Nodes,
               dir : Directories \cup {None}, name : Names \cup {None}, victim : Ids \cup {None},
               pos : {0}, k : {0}, ok : {TRUE}, grew : {FALSE}, meta : {m},
               flush : {None}, stage : {None}]
  BY <1>2, <1>4 DEF Splits
<1>6. PICK K : K = Kinds
  OBVIOUS
<1>7. PICK P : P = Pcs
  OBVIOUS
<1>8. PICK T : T = Stages
  OBVIOUS
<1>9. /\ r.kind \in K /\ r.node \in Ids /\ r.dir \in Directories \cup {None}
      /\ r.name \in Names \cup Labels \cup {None} /\ r.victim \in Ids \cup {None}
      /\ r.pos = 0 /\ r.k = 0 /\ r.ok = TRUE /\ r.grew = FALSE /\ r.meta = m
      /\ r.flush = None /\ r.stage = None
  BY <1>4, <1>5, <1>6 DEF Creations, Kinds
<1>11. r = [pc |-> r.pc, kind |-> r.kind, node |-> r.node, dir |-> r.dir, name |-> r.name,
            victim |-> r.victim, pos |-> 0, k |-> 0, ok |-> TRUE, grew |-> FALSE, meta |-> m,
            flush |-> None, stage |-> None]
  BY ONLY <1>5, <1>9
<1> DEFINE Rec(c, v, g, b) ==
        [pc |-> c, kind |-> r.kind, node |-> r.node, dir |-> r.dir,
            name |-> r.name, victim |-> v, pos |-> 0, k |-> 0, ok |-> b, grew |-> FALSE,
            meta |-> m, flush |-> None, stage |-> g]
<1>12. PICK c, v, g, b : o = Rec(c, v, g, b)
         /\ b \in BOOLEAN
         /\ \/ c = "slot" /\ v = None /\ g = None
            \/ c = "erase" /\ v = r.victim /\ g = "delete"
            \/ c = "deleted" /\ v = r.victim /\ g = None
  <2>1. CASE o = [r EXCEPT !.pc = "slot"] /\ r.victim = None
    <3>1. o = Rec("slot", None, None, TRUE)
      BY ONLY <1>5, <1>9, <2>1 DEF Rec
    <3> QED BY ONLY <3>1, Zenon
  <2>2. CASE o = [r EXCEPT !.pc = "slot", !.victim = None]
    <3>1. o = Rec("slot", None, None, TRUE)
      BY ONLY <1>5, <1>9, <2>2 DEF Rec
    <3> QED BY ONLY <3>1, Zenon
  <2>3. CASE o = [r EXCEPT !.pc = "erase", !.stage = "delete"]
    <3>1. o = Rec("erase", r.victim, "delete", TRUE)
      BY ONLY <1>5, <1>9, <2>3 DEF Rec
    <3> QED BY ONLY <3>1, Zenon
  <2>4. CASE o = [r EXCEPT !.pc = "deleted", !.ok = FALSE]
    <3>1. o = Rec("deleted", r.victim, None, FALSE)
      BY ONLY <1>5, <1>9, <2>4 DEF Rec
    <3> QED BY ONLY <3>1, Zenon
  <2> QED BY <1>4, <2>1, <2>2, <2>3, <2>4
<1>13. Ops = [pc : P, kind : K, node : Ids \cup {None}, dir : Directories \cup {None},
        name : Names \cup Labels \cup {None}, victim : Ids \cup {None}, pos : Nat, k : Nat,
        ok : BOOLEAN, grew : BOOLEAN, meta : S,
        flush : Nodes \cup {None}, stage : T]
  BY <1>1, <1>6, <1>7, <1>8 DEF Ops
<1>14. c \in P /\ g \in T
  BY <1>7, <1>8, <1>12 DEF Pcs, Stages
<1>15. o \in Ops
  BY ONLY <1>3, <1>9, <1>12, <1>13, <1>14
<1>16. o.pc = c /\ o.kind = r.kind /\ o.node = r.node /\ o.dir = r.dir /\ o.name = r.name
       /\ o.victim = v /\ o.meta = m /\ o.stage = g
  BY ONLY <1>12
<1> QED BY ONLY <1>3, <1>4, <1>12, <1>15, <1>16

LEMMA CreatingTyped ==
    ASSUME Typed, Creating
    PROVE  Typed'
<1>1. /\ op.pc = "split" /\ op.kind # "rename"
      /\ UNCHANGED <<slots, mounted, node, label, held, calls, faults, tree, doubt, torn, retried,
         moved>>
  BY DEF Creating, history
<1>2. CASE op' = Idle /\ refs' = PutAll(op.victim, op.dir, None)
  BY <1>1, <1>2, QuietTyped, IdleTyped, GetAllIs, Typing
<1>3. CASE op.victim = None /\ op' = [op EXCEPT !.pc = "slot"] /\ refs' = refs
  <2>1. PICK o : o = op'
    OBVIOUS
  <2>2. /\ SplitTyped /\ op \in Splits /\ op.kind \in Creations /\ op.node \in Ids
        /\ op.dir \in Directories /\ op.name \in Names /\ op.meta[1] = Free /\ op.meta[2] = Free
        /\ CanEnter(op.dir) /\ (op.kind = "mkdir" <=> op.node \in Folders)
        /\ (op.kind = "mkdir" => op.dir = Root)
    BY <1>1, SplitIs DEF SplitTyped
  <2>3. /\ o \in Ops /\ o.pc = "slot" /\ o.kind = op.kind /\ o.node = op.node /\ o.dir = op.dir
        /\ o.name = op.name /\ o.victim = None /\ o.stage = None
        /\ o.meta[1] = Free /\ o.meta[2] = Free
    <3>1. o = [op EXCEPT !.pc = "slot"] /\ op.victim = None
      BY <1>3, <2>1
    <3>2. /\ o \in Ops /\ o.kind = op.kind /\ o.node = op.node /\ o.dir = op.dir
          /\ o.name = op.name /\ o.meta[1] = Free /\ o.meta[2] = Free
          /\ \/ o.pc = "slot" /\ o.victim = None /\ o.stage = None
             \/ o.pc = "erase" /\ o.victim = op.victim /\ o.stage = "delete"
             \/ o.pc = "deleted" /\ o.victim = op.victim /\ o.stage = None
      BY <2>2, <3>1, SplitGoes
    <3>3. o.pc = "slot"
      BY <2>2, <3>1 DEF Splits
    <3> QED BY ONLY <3>2, <3>3
  <2>4. CallTyped'
    BY <1>1, <2>1, <2>2, <2>3 DEF CallTyped, Creations, CanEnter
  <2>5. PointTyped'
    BY <2>1, <2>2, <2>3, FreeTyped DEF PointTyped, Flushes, None, Creations
  <2>6. OpTyped'
    BY <2>1, <2>3, <2>4, <2>5 DEF OpTyped, Runs
  <2> QED BY <1>1, <1>3, <2>6, QuietTyped, Typing
<1> QED BY <1>2, <1>3 DEF Creating

LEMMA RenameRefusedTyped ==
    ASSUME Typed, RenameRefused
    PROVE  Typed'
<1>1. /\ op.pc = "split" /\ op' = Idle
      /\ UNCHANGED <<slots, mounted, node, label, held, calls, faults, tree, doubt, torn, retried,
         moved>>
  BY DEF RenameRefused, history
<1>2. refs' \in [Nodes -> Int]
  BY GetIs, GetAllIs, Typing DEF RenameRefused
<1> QED BY <1>1, <1>2, QuietTyped, IdleTyped, Typing

\* What goes on is a file or directory, in another directory than itself.
LEMMA GoingOn ==
    ASSUME Typed, RenameGoesOn
    PROVE  /\ op.node \in Ids /\ op.node # None /\ node[op.node].state = "linked"
           /\ op.dir \in Directories /\ op.dir \in Nodes /\ CanEnter(op.dir)
           /\ op.dir # op.node /\ op.name \in Names
           /\ op.node \in Folders => op.dir = Root
           /\ op.kind = "rename" /\ op.pc = "split"
<1>1. op.pc = "split" /\ op.kind = "rename" /\ op.dir # None /\ op.node \notin {op.dir, Root}
  BY DEF RenameGoesOn, IntoItself
<1>2. SplitTyped /\ op.node \in Nodes /\ op.dir \in Directories
  BY <1>1, SplitIs
<1>3. op.node \in Ids /\ op.node # None /\ op.dir \in Nodes
  BY <1>1, <1>2, ConstantsAre, Sorts DEF Nodes
<1> QED BY <1>1, <1>2, <1>3 DEF SplitTyped

LEMMA RenameGoesOnTyped ==
    ASSUME Typed, RenameGoesOn
    PROVE  Typed'
<1>1. /\ Use({op.node, op.victim})
      /\ UNCHANGED <<slots, mounted, node, label, held, calls, faults, tree, doubt, torn, moved>>
  BY DEF RenameGoesOn
<1>2. PICK o : o = op'
  OBVIOUS
<1>3. /\ SplitTyped /\ op \in Splits /\ op.stage = None /\ op.victim \in Ids \cup {None}
      /\ op.meta[1] = Free /\ op.meta[2] = Free
  BY GoingOn, SplitIs
<1>4. \/ o = [op EXCEPT !.pc = "slot"] /\ op.victim = None
      \/ o = [op EXCEPT !.pc = "slot", !.victim = None]
      \/ /\ o = [op EXCEPT !.pc = "erase", !.stage = "delete"]
         /\ op.victim \notin {None, op.node}
      \/ /\ o = [op EXCEPT !.pc = "deleted", !.ok = FALSE]
         /\ op.victim \notin {None, op.node}
  BY <1>2 DEF RenameGoesOn
<1>5. /\ o \in Ops /\ o.kind = "rename" /\ o.node = op.node /\ o.dir = op.dir
      /\ o.name = op.name /\ o.meta[1] = Free /\ o.meta[2] = Free
      /\ \/ o.pc = "slot" /\ o.victim = None /\ o.stage = None
         \/ /\ \/ o.pc = "erase" /\ o.stage = "delete"
               \/ o.pc = "deleted" /\ o.stage = None
            /\ o.victim = op.victim /\ op.victim \notin {None, op.node}
  <2>1. /\ op.kind = "rename" /\ op.node \in Ids
    BY GoingOn
  <2>2. /\ o \in Ops /\ o.kind = op.kind /\ o.node = op.node /\ o.dir = op.dir
        /\ o.name = op.name /\ o.meta[1] = Free /\ o.meta[2] = Free
        /\ \/ o.pc = "slot" /\ o.victim = None /\ o.stage = None
           \/ o.pc = "erase" /\ o.victim = op.victim /\ o.stage = "delete"
           \/ o.pc = "deleted" /\ o.victim = op.victim /\ o.stage = None
    BY <1>3, <1>4, <2>1, SplitGoes
  <2>3. o.pc = "slot" \/ op.victim \notin {None, op.node}
    <3>1. o = [op EXCEPT !.pc = "slot"] \/ o = [op EXCEPT !.pc = "slot", !.victim = None]
          => o.pc = "slot"
      BY <1>3 DEF Splits
    <3> QED BY ONLY <1>4, <3>1
  <2> QED BY ONLY <2>1, <2>2, <2>3
<1>6. o.victim # None => /\ o.victim \in Ids /\ o.victim \notin {op.dir, op.node}
                         /\ node[o.victim].state = "linked" /\ node[o.victim].parent = op.dir
  BY <1>3, <1>5 DEF SplitTyped
<1>7. CallTyped'
  BY <1>1, <1>2, <1>5, <1>6, GoingOn, ConstantsAre DEF CallTyped, Creations, CanEnter
<1>8. PointTyped'
  BY <1>1, <1>2, <1>5, <1>6, FreeTyped DEF PointTyped, Flushes, None
<1>9. OpTyped'
  BY <1>2, <1>5, <1>7, <1>8 DEF OpTyped, Runs
<1>10. refs' \in [Nodes -> Int]
  BY GetIs, Typing DEF RenameGoesOn
<1>11. retried' \in BOOLEAN
  BY <1>1, Typing DEF Use
<1> QED BY <1>1, <1>9, <1>10, <1>11, GoingOn, QuietTyped, Typing

LEMMA SetLabelTyped ==
    ASSUME Typed, NEW text \in Labels \cup {None}, SetLabel(text)
    PROVE  Typed'
<1>1. Call
      /\ UNCHANGED <<slots, mounted, node, refs, label, held, faults, tree, doubt, torn, retried,
         moved>>
  BY DEF SetLabel, memory, history
<1>2. PICK at : at = {p \in 1 .. node[Root].size * SLOTS : slots[Root][p].t = "label"}
  OBVIOUS
<1>3. PICK p : p = CHOOSE q \in at : \A x \in at : q <= x
  OBVIOUS
<1>4. op' = IF at = {} THEN Running("slot", "label", None, Root, text, None)
                 ELSE [Running("write", "label", None, Root, text, None) EXCEPT !.pos = p]
  BY <1>2, <1>3 DEF SetLabel
<1>5. at # {} => p \in Nat
  <2>1. at \subseteq Nat
    BY <1>2
  <2>2. at # {} => \E q \in at : \A x \in at : q <= x
    BY <2>1, LeastElement
  <2>3. at # {} => p \in at
    BY <1>3, <2>2, Zenon
  <2> QED BY <2>1, <2>3
<1>6. PICK o : o = op'
  OBVIOUS
<1>7. /\ o \in Ops /\ o.pc \in {"slot", "write"} /\ o.kind = "label" /\ o.dir = Root
         /\ o.name = text
      /\ o.victim = None /\ o.stage = None /\ o.k = 0 /\ o.meta[1] = Free /\ o.meta[2] = Free
  <2>1. CASE at = {}
    <3>1. o = Running("slot", "label", None, Root, text, None)
      BY <1>4, <1>6, <2>1
    <3>2. Begins(o, "slot", "label", None, Root, text, None)
      BY <3>1, Sorts DEF Begins, Pcs, Kinds
    <3>3. o \in Ops
      BY <3>2, RunningIs
    <3> QED BY <3>2, <3>3 DEF Begins, Running
  <2>2. CASE at # {}
    <3>1. PICK r : r = Running("write", "label", None, Root, text, None)
      OBVIOUS
    <3>2. /\ r \in Ops /\ r.pc = "write" /\ r.kind = "label" /\ r.dir = Root /\ r.name = text
          /\ r.victim = None /\ r.stage = None /\ r.k = 0 /\ r.meta[1] = Free /\ r.meta[2] = Free
      <4>1. Begins(r, "write", "label", None, Root, text, None)
        BY <3>1, Sorts DEF Begins, Pcs, Kinds
      <4>2. r \in Ops
        BY <4>1, RunningIs
      <4> QED BY <4>1, <4>2 DEF Begins, Running
    <3>3. o = [r EXCEPT !.pos = p]
      BY <1>4, <1>6, <2>2, <3>1
    <3> QED BY <1>5, <2>2, <3>2, <3>3 DEF Ops
  <2> QED BY <2>1, <2>2
<1>8. CanEnter(Root)
  BY <1>1, Typing DEF Call, NodesTyped
<1>9. CallTyped'
  BY <1>1, <1>6, <1>7, <1>8, Sorts DEF CallTyped, Creations, CanEnter
<1>10. Need' = 1
  BY <1>6, <1>7 DEF Need
<1>11. PointTyped'
  BY <1>6, <1>7, <1>10, FreeTyped DEF PointTyped, Flushes, None, Creations
<1>12. OpTyped'
  BY <1>6, <1>7, <1>9, <1>11 DEF OpTyped, Runs
<1> QED BY <1>1, <1>12, CallBegins, Typing

LEMMA OpenCloseTyped ==
    ASSUME Typed, NEW n \in Ids, Open(n) \/ Close(n)
    PROVE  Typed'
<1>1. /\ Call /\ held' \subseteq Ids /\ refs' \in [Nodes -> Int]
      /\ UNCHANGED <<slots, mounted, node, label, op, faults, tree, doubt, torn, retried, moved>>
  BY Typing, GetIs DEF Open, Close, history
<1>2. OpTyped'
  <2>1. op = Idle
    BY <1>1, Typing DEF Call, OpTyped
  <2> QED BY <1>1, <2>1, IdleTyped
<1> QED BY <1>1, <1>2, CallBegins, Typing

LEMMA CleanupTyped ==
    ASSUME Typed, NEW n \in Ids, Cleanup(n)
    PROVE  Typed'
<1>1. /\ Call /\ node[n].state = "unlinked" /\ Freed(n) /\ node' = [node EXCEPT ![n] = NoNode]
      /\ UNCHANGED <<mounted, refs, label, op, held, faults, tree, doubt, torn, retried, moved>>
  BY DEF Cleanup, history
<1>2. mounted /\ mounted' = TRUE /\ calls' \in 0 .. MaxCalls /\ op = Idle
  BY <1>1, Typing, ConstantsAre DEF Call, OpTyped
<1>3. ~CanEnter(n)
  BY <1>1 DEF CanEnter
<1>4. SlotsTyped' /\ NodesTyped'
  BY <1>1, <1>2, <1>3, CleanedTyped
<1>5. OthersTyped'
  BY <1>1, <1>2, Typing DEF OthersTyped
<1>6. OpTyped'
  BY <1>1, <1>2, IdleTyped
<1> QED BY <1>4, <1>5, <1>6 DEF Typed

LEMMA BeginUnmountTyped ==
    ASSUME Typed, BeginUnmount
    PROVE  Typed'
<1>1. /\ Call /\ held = {}
      /\ op' = [Running("unmount", "unmount", None, None, None, None) EXCEPT !.stage = "unmount"]
      /\ UNCHANGED <<slots, mounted, node, refs, label, held, faults, tree, doubt, torn, retried,
         moved>>
  BY DEF BeginUnmount, memory, history
<1>2. PICK r : r = Running("unmount", "unmount", None, None, None, None)
  OBVIOUS
<1>3. /\ r \in Ops /\ r.pc = "unmount" /\ r.kind = "unmount" /\ r.victim = None
      /\ r.meta[1] = Free /\ r.meta[2] = Free
  <2>1. Begins(r, "unmount", "unmount", None, None, None, None)
    BY <1>2 DEF Begins, Pcs, Kinds
  <2>2. r \in Ops
    BY <2>1, RunningIs
  <2> QED BY <2>1, <2>2 DEF Begins, Running
<1>4. PICK o : o = op'
  OBVIOUS
<1>5. /\ o \in Ops /\ o.pc = "unmount" /\ o.kind = "unmount" /\ o.victim = None
         /\ o.stage = "unmount"
      /\ o.meta[1] = Free /\ o.meta[2] = Free
  BY <1>1, <1>2, <1>3, <1>4 DEF Ops, Stages
<1>6. CallTyped'
  BY <1>1, <1>4, <1>5 DEF CallTyped, Creations
<1>7. PointTyped'
  BY <1>4, <1>5, FreeTyped DEF PointTyped, Flushes, None
<1>8. OpTyped'
  BY <1>4, <1>5, <1>6, <1>7 DEF OpTyped, Runs
<1> QED BY <1>1, <1>8, CallBegins, Typing

LEMMA AbsentTyped == Absent \in [Nodes -> NodeTypes \cup {NoNode}]
BY DEF Absent

LEMMA NoneReferenced == [n \in Nodes |-> 0] \in [Nodes -> Int]
OBVIOUS

LEMMA UnmountNext ==
    ASSUME NEW p \in Ops, NEW m \in Nodes
    PROVE  [p EXCEPT !.pc = "flush1", !.flush = m, !.stage = "unmount"] \in Ops
BY DEF Ops, Pcs, Stages

LEMMA UnmountTyped ==
    ASSUME Typed, Unmount
    PROVE  Typed'
<1>1. op.pc = "unmount" /\ Runs
      /\ UNCHANGED <<slots, label, held, calls, faults, tree, doubt, torn, retried, moved>>
  BY DEF Unmount, Runs, history
<1>2. mounted /\ op \in Ops /\ CallTyped /\ PointTyped
  BY <1>1, RunsMounted
<1>3. op.kind = "unmount" /\ held = {} /\ op.victim = None
  BY <1>1, <1>2 DEF PointTyped, CallTyped
<1>4. CASE \E n \in Linked : node[n].dirty /\ op' = FlushNext(n, "unmount")
           /\ UNCHANGED <<mounted, node, refs>>
  <2>1. PICK n \in Linked : node[n].dirty /\ op' = FlushNext(n, "unmount")
        /\ UNCHANGED <<mounted, node, refs>>
    BY <1>4
  <2>2. n \in Ids /\ n \in Nodes
    BY Sorts DEF Linked
  <2>3. PICK o : o = op'
    OBVIOUS
  <2>4. o = [op EXCEPT !.pc = "flush1", !.flush = n, !.stage = "unmount"]
    BY <2>1, <2>3 DEF FlushNext
  <2>5. /\ o \in Ops /\ o.pc = "flush1" /\ o.kind = "unmount" /\ o.stage = "unmount" /\ o.flush = n
        /\ o.victim = None /\ o.meta = op.meta
    <3>1. op \in Ops /\ op.kind = "unmount" /\ op.victim = None
      BY <1>2, <1>3
    <3>2. n \in Nodes
      BY <2>2
    <3>3. o \in Ops
      <4>1. \A p \in Ops, m \in Nodes : [p EXCEPT !.pc = "flush1", !.flush = m,
            !.stage = "unmount"] \in Ops
        BY UnmountNext
      <4> QED BY <2>4, <3>1, <3>2, <4>1
    <3>4. o.pc = "flush1" /\ o.kind = op.kind /\ o.stage = "unmount" /\ o.flush = n
          /\ o.victim = op.victim /\ o.meta = op.meta
      BY ONLY <2>4, <3>1 DEF Ops
    <3> QED BY <3>1, <3>3, <3>4
  <2>6. held' = {} /\ op'.kind = "unmount" /\ op'.victim = None
    BY <1>1, <1>3, <2>3, <2>5
  <2>7. CallTyped'
    BY ONLY <2>6 DEF CallTyped, Creations
  <2>8. SlotSane(op'.meta[1]) /\ SlotSane(op'.meta[2])
    BY <1>2, <2>3, <2>5 DEF PointTyped
  <2>9. op'.pc = "flush1" /\ op'.stage = "unmount" /\ op'.flush \in Ids /\ op'.flush \in Nodes
    BY <2>2, <2>3, <2>5
  <2>10. PointTyped'
    BY ONLY <2>6, <2>8, <2>9 DEF PointTyped, Flushes, Creations, None
  <2>11. OpTyped'
    BY <2>3, <2>5, <2>7, <2>10 DEF OpTyped, Runs
  <2>12. refs' \in [Nodes -> Int]
    BY <2>1, Typing
  <2>13. SlotsTyped' /\ NodesTyped'
    BY <1>1, <1>2, <2>1, NodesKept, Typing DEF SlotsTyped
  <2>14. OthersTyped'
    BY <1>1, <2>1, <2>12, Typing DEF OthersTyped
  <2> QED BY <2>11, <2>13, <2>14 DEF Typed
<1>5. CASE op' = Idle /\ mounted' = FALSE /\ node' = Absent /\ refs' = [n \in Nodes |-> 0]
  <2>1. SlotsTyped'
    BY <1>1, Typing DEF SlotsTyped
  <2>2. OthersTyped'
    BY <1>1, <1>5, NoneReferenced, Typing DEF OthersTyped
  <2>3. Absent' = Absent
    BY DEF Absent
  <2>4. NodesTyped'
    BY <1>1, <1>3, <1>5, <2>3, AbsentTyped DEF NodesTyped
  <2> QED BY <1>5, <2>1, <2>2, <2>4, IdleTyped DEF Typed
<1> QED BY <1>4, <1>5 DEF Unmount

LEMMA DieTyped ==
    ASSUME Typed, Die
    PROVE  Typed'
<1>1. /\ (op.pc = "aborted" \/ CanFault)
      /\ faults' = IF op.pc = "aborted" THEN faults ELSE faults + 1
      /\ doubt' = doubt \cup Changing \cup
            {n \in Linked : node[n].parent \in Behind /\
                node[n].pos + Entries(node[n].name) - 1 > InfoSize(node[n].parent) * SLOTS}
      /\ torn' = torn \cup WritingTo \cup Behind
      /\ mounted' = FALSE /\ node' = Absent /\ held' = {} /\ moved' = {}
      /\ refs' = [n \in Nodes |-> 0] /\ op' = Idle
      /\ UNCHANGED <<slots, label, calls, tree, retried>>
  BY DEF Die
<1>2. Changing \subseteq Ids /\ WritingTo \subseteq Directories /\ Behind \subseteq Directories
      /\ Linked \subseteq Ids
  <2>1. CASE Runs
    BY <2>1, ChangingIn, Sorts DEF Behind, Linked
  <2>2. CASE ~Runs
    <3>1. op.pc \in {"idle", "aborted", "split"}
      BY <2>2 DEF Runs
    <3>2. Changing = {}
      BY <3>1 DEF Changing
    <3> QED BY <3>1, <3>2, Sorts DEF WritingTo, Behind, Linked
  <2> QED BY <2>1, <2>2
<1>3. doubt' \subseteq Ids /\ torn' \subseteq Directories
  BY <1>1, <1>2, Typing
<1>4. faults' \in 0 .. MaxFaults
  BY <1>1, Typing, ConstantsAre DEF CanFault
<1>5. OthersTyped'
  BY <1>1, <1>3, <1>4, NoneReferenced, Typing DEF OthersTyped
<1>6. SlotsTyped'
  BY <1>1, Typing DEF SlotsTyped
<1>7. Absent' = Absent
  BY DEF Absent
<1>8. NodesTyped'
  BY <1>1, <1>7, AbsentTyped DEF NodesTyped
<1> QED BY <1>1, <1>5, <1>6, <1>8, IdleTyped DEF Typed

\* Every step keeps the types.
LEMMA StepsTyped ==
    ASSUME Typed, Steps
    PROVE  Typed'
BY CreatingTyped, RenameRefusedTyped, RenameGoesOnTyped,
   FindSlotTyped, FindSlotFailsTyped, WriteEntryTyped, WriteEntryFailsTyped, AttachTyped,
   EraseEntryTyped, EraseEntryFailsTyped, DetachTyped, DeletedTyped, ReplacedTyped,
   FlushMeta1Typed, FlushMeta2Typed, FlushFailsTyped, MakeRoomTyped, UnmountTyped, Zenon DEF Steps

LEMMA CallsTyped ==
    ASSUME Typed, Calls
    PROVE  Typed'
<1>1. CASE \E n \in Ids, d \in Directories, name \in Names : Create(d, name, n)
  BY <1>1, CreateTyped
<1>2. CASE \E n \in Nodes : \/ \E d \in Directories, name \in Names : Rename(n, d, name)
                          \/ RenameNowhere(n)
  BY <1>2, RenameTyped, RenameNowhereTyped
<1>3. CASE \E n \in Ids : Delete(n)
  BY <1>3, DeleteTyped
<1>4. CASE \E n \in Ids : Open(n) \/ Close(n)
  BY <1>4, OpenCloseTyped
<1>5. CASE \E n \in Ids : Cleanup(n)
  BY <1>5, CleanupTyped
<1>6. CASE \E text \in Labels \cup {None} : SetLabel(text)
  BY <1>6, SetLabelTyped
<1>7. CASE SplitRoot \/ BeginUnmount \/ Mount
  BY <1>7, SplitRootTyped, BeginUnmountTyped, MountTyped
<1> QED BY <1>1, <1>2, <1>3, <1>4, <1>5, <1>6, <1>7, Zenon DEF Calls

\* Typed is inductive.
LEMMA NextTyped ==
    ASSUME Typed, [Next]_vars
    PROVE  Typed'
<1>1. CASE UNCHANGED vars
  <2>1. SlotsTyped' /\ OthersTyped' /\ NodesTyped'
    BY <1>1, Typing DEF vars, memory, history, SlotsTyped, OthersTyped, NodesTyped, CanEnter,
       Standing
  <2>2. CallTyped' <=> CallTyped
    BY <1>1 DEF vars, memory, CallTyped, CanEnter
  <2>3. PointTyped' <=> PointTyped
    BY <1>1 DEF vars, memory, PointTyped, NeedsFlush, Target, Need
  <2>5. SplitTyped' <=> SplitTyped
    BY <1>1 DEF vars, memory, SplitTyped, CanEnter
  <2>4. OpTyped'
    BY <1>1, <2>2, <2>3, <2>5, Typing DEF vars, memory, OpTyped, Runs
  <2> QED BY <2>1, <2>4 DEF Typed
<1>2. CASE Next
  BY <1>2, StepsTyped, CallsTyped, DieTyped DEF Next
<1> QED BY <1>1, <1>2

\* A directory of the tree that is mounted is not longer than its clusters.
LEMMA TypedIsTyped ==
    ASSUME Typed
    PROVE  TypeOK
<1>1. ASSUME NEW d \in Directories
      PROVE  /\ \A p \in DOMAIN slots[d] : slots[d][p] \in SlotType
             /\ Len(slots[d]) % SLOTS = 0
             /\ (mounted /\ node[d].state = "linked" /\ node[d].cached) =>
                    node[d].size * SLOTS <= Len(slots[d])
  <2>1. slots[d] \in Seq(SlotType) /\ Len(slots[d]) % SLOTS = 0
    BY <1>1, Typing DEF SlotsTyped
  <2>2. PICK s : s = slots[d]
    OBVIOUS
  <2>3. \A p \in DOMAIN slots[d] : slots[d][p] \in SlotType
    BY <2>1, <2>2
  <2> QED BY <1>1, <2>1, <2>3, Typing DEF NodesTyped, CanEnter
<1>2. \A n \in Nodes : node[n].state \in {"absent", "linked", "unlinked"}
  BY NodeIs, Typing
<1> QED BY <1>1, <1>2, Typing DEF TypeOK

\* However many calls there are, wherever a fault or a crash cuts them: a directory
\* on the medium is a whole number of clusters, each slot an entry, and a directory
\* that is cached is not longer than its clusters (grow_directory,
\* shrink_directory, erase_entry, exfat_cache_directory).
THEOREM DirectoryIsTyped == Spec => []TypeOK
<1>1. Init => Typed
  BY InitTyped
<1>2. Typed /\ [Next]_vars => Typed'
  BY NextTyped
<1>3. Typed => TypeOK
  BY TypedIsTyped
<1> QED BY <1>1, <1>2, <1>3, PTL DEF Spec

-----------------------------------------------------------------------------
(* References                                                              *)

\* A debt is a number.
LEMMA OwedIs ==
    ASSUME NEW o, NEW n
    PROVE  Owed(o, n) \in Int /\ \A b : One(b) \in {0, 1}
BY DEF Owed, One

\* Before: what is owed.  After: what is owed then.
LEMMA CountedMoves ==
    ASSUME Counted, Runs \/ op.pc = "split", held' = held, NEW o, o = op', o.pc \notin {"idle", "aborted"},
           refs \in [Nodes -> Int],
           \A n \in Nodes : refs'[n] = refs[n] + Owed(o, n) - Owed(op, n)
    PROVE  Counted'
<1>1. op.pc # "aborted" /\ Owes /\ Owes' /\ op' = o
  BY DEF Runs, Owes
<1>2. \A n \in Nodes : refs[n] = One(n \in held) + Owed(op, n)
  BY <1>1 DEF Counted
<1>3. \A n \in Nodes : refs'[n] = One(n \in held) + Owed(o, n)
  <2> SUFFICES ASSUME NEW n \in Nodes PROVE refs'[n] = One(n \in held) + Owed(o, n)
    OBVIOUS
  <2>1. Owed(o, n) \in Int /\ Owed(op, n) \in Int /\ One(n \in held) \in Int
    BY OwedIs
  <2>2. refs[n] = One(n \in held) + Owed(op, n) /\ refs'[n] = refs[n] + Owed(o, n) - Owed(op, n)
    BY <1>2
  <2> QED BY <2>1, <2>2
<1> QED BY <1>1, <1>3 DEF Counted

LEMMA CountedSettles ==
    ASSUME Counted, Runs \/ op.pc = "split", held' = held, op' = Idle, refs \in [Nodes -> Int],
           \A n \in Nodes : refs'[n] = refs[n] - Owed(op, n)
    PROVE  Counted'
<1>1. op.pc # "aborted" /\ Owes /\ ~Owes'
  BY DEF Runs, Owes, Idle
<1>2. \A n \in Nodes : refs[n] = One(n \in held) + Owed(op, n)
  BY <1>1 DEF Counted
<1>3. \A n \in Nodes : refs'[n] = One(n \in held) + 0
  <2> SUFFICES ASSUME NEW n \in Nodes PROVE refs'[n] = One(n \in held) + 0
    OBVIOUS
  <2>1. Owed(op, n) \in Int /\ One(n \in held) \in Int
    BY OwedIs
  <2>2. refs[n] = One(n \in held) + Owed(op, n) /\ refs'[n] = refs[n] - Owed(op, n)
    BY <1>2
  <2> QED BY <2>1, <2>2
<1> QED BY <1>1, <1>3 DEF Counted

LEMMA CountedBegins ==
    ASSUME Counted, op.pc = "idle", held' = held, NEW o, o = op', o.pc \notin {"idle", "aborted"},
           refs \in [Nodes -> Int],
           \A n \in Nodes : refs'[n] = refs[n] + Owed(o, n)
    PROVE  Counted'
<1>1. ~Owes /\ Owes' /\ op' = o
  BY DEF Runs, Owes
<1>2. \A n \in Nodes : refs[n] = One(n \in held) + 0
  BY <1>1 DEF Counted
<1>3. \A n \in Nodes : refs'[n] = One(n \in held) + Owed(o, n)
  <2> SUFFICES ASSUME NEW n \in Nodes PROVE refs'[n] = One(n \in held) + Owed(o, n)
    OBVIOUS
  <2>1. Owed(o, n) \in Int /\ One(n \in held) \in Int
    BY OwedIs
  <2>2. refs[n] = One(n \in held) + 0 /\ refs'[n] = refs[n] + Owed(o, n)
    BY <1>2
  <2> QED BY <2>1, <2>2
<1> QED BY <1>1, <1>3 DEF Counted

LEMMA CountedAborts ==
    ASSUME op'.pc = "aborted"
    PROVE  Counted'
BY DEF Counted

\* What is owed, phase by phase.
LEMMA OwedEarly ==
    ASSUME NEW o, o.stage = None, o.pc \in {"slot", "write", "attach"}, NEW n
    PROVE  /\ o.kind \in Creations /\ o.victim = None => Owed(o, n) = One(n = o.dir)
           /\ o.kind = "rename" /\ o.victim = None => Owed(o, n) = One(n = o.dir) + One(n = o.node)
           /\ o.kind = "label" /\ o.victim = None => Owed(o, n) = 0
BY DEF Owed, One, DirHeld, NodeHeld, ParentHeld, Creations, Flushes, None

LEMMA OwedErasing ==
    ASSUME NEW o, NEW n, o.kind \in {"mkdir", "rename", "delete"}
    PROVE  /\ o.pc = "erase" /\ o.kind = "rename" /\ o.stage = None /\ o.victim = None =>
                Owed(o, n) = One(n = o.dir) + One(n = o.node)
           /\ o.pc \in {"erase", "detach"} \cup Flushes /\ o.stage = "delete" /\ o.victim # None =>
                Owed(o, n) = (IF o.kind = "rename" THEN One(n = o.dir) + One(n = o.node) ELSE 0)
                               + One(n = o.victim) + One(n = o.dir)
           /\ o.pc = "deleted" /\ o.victim # None =>
                Owed(o, n) = (IF o.kind = "rename" THEN One(n = o.dir) + One(n = o.node) ELSE 0)
                               + One(n = o.victim)
BY DEF Owed, One, DirHeld, NodeHeld, ParentHeld, Creations, Flushes, None

LEMMA OwedCreating ==
    ASSUME NEW o, NEW n, o.kind \in Creations, o.victim = None
    PROVE  /\ o.pc \in Flushes /\ o.stage = "create" => Owed(o, n) = One(n = o.dir)
           /\ o.pc = "room" /\ o.stage # "delete" => Owed(o, n) = One(n = o.node)
           /\ o.pc \in Flushes /\ o.stage = "room" => Owed(o, n) = One(n = o.node)
BY DEF Owed, One, DirHeld, NodeHeld, ParentHeld, Creations, Flushes, None

LEMMA OwedUnmounting ==
    ASSUME NEW o, NEW n, o.kind = "unmount", o.victim = None, o.stage = "unmount"
    PROVE  o.pc \in Flushes \cup {"unmount"} => Owed(o, n) = 0
BY DEF Owed, One, DirHeld, NodeHeld, ParentHeld, Creations, Flushes, None

\* What create and exfat_rename put is what they have.
LEMMA GiveBackSettles ==
    ASSUME Typed, Runs, NEW n \in Nodes,
           \/ op.pc \in {"slot", "write", "attach"}
           \/ op.pc = "erase" /\ op.stage # "delete"
    PROVE  GiveBack[n] = refs[n] - Owed(op, n)
<1>1. mounted /\ CallTyped /\ PointTyped /\ op.kind \in Kinds /\ refs \in [Nodes -> Int]
  BY RunsMounted, Typing
<1>2. CASE op.pc \in {"slot", "write", "attach"}
  <2>1. op.stage = None /\ op.kind \in {"mknod", "mkdir", "rename", "label"}
    BY <1>1, <1>2 DEF PointTyped, Kinds
  <2>2. op.victim = None
    BY <1>1, <1>2, <2>1 DEF PointTyped, CallTyped, Creations
  <2>3. CASE op.kind \in {"mknod", "mkdir"}
    <3>1. GiveBack = Put({op.dir}) /\ Owed(op, n) = One(n = op.dir)
      BY <1>2, <2>1, <2>2, <2>3, OwedEarly DEF GiveBack, Creations
    <3>2. Put({op.dir})[n] = refs[n] - One(n \in {op.dir})
      BY <1>1, GetIs
    <3> QED BY <3>1, <3>2 DEF One
  <2>4. CASE op.kind = "rename"
    <3>1. GiveBack = Put({op.dir, op.node}) /\ Owed(op, n) = One(n = op.dir) + One(n = op.node)
      BY <1>2, <2>1, <2>2, <2>4, OwedEarly DEF GiveBack
    <3>2. Put({op.dir, op.node})[n] = refs[n] - One(n \in {op.dir, op.node})
      BY <1>1, GetIs
    <3>3. op.dir # op.node
      BY <1>1, <2>4 DEF CallTyped
    <3> QED BY <3>1, <3>2, <3>3 DEF One
  <2>5. CASE op.kind = "label"
    <3>1. GiveBack = refs /\ Owed(op, n) = 0
      BY <1>2, <2>1, <2>2, <2>5, OwedEarly DEF GiveBack
    <3> QED BY <1>1, <3>1
  <2> QED BY <2>1, <2>3, <2>4, <2>5
<1>3. CASE op.pc = "erase" /\ op.stage # "delete"
  <2>1. op.kind = "rename" /\ op.stage = None /\ op.victim = None
    BY <1>1, <1>3 DEF PointTyped
  <2>2. GiveBack = Put({op.dir, op.node}) /\ Owed(op, n) = One(n = op.dir) + One(n = op.node)
    BY <1>3, <2>1, OwedErasing DEF GiveBack
  <2>3. Put({op.dir, op.node})[n] = refs[n] - One(n \in {op.dir, op.node})
    BY <1>1, GetIs
  <2>4. op.dir # op.node
    BY <1>1, <2>1 DEF CallTyped
  <2> QED BY <2>2, <2>3, <2>4 DEF One
<1> QED BY <1>2, <1>3

-----------------------------------------------------------------------------
(* References: the steps                                                   *)

\* A process that goes on needs no explanation.
LEMMA NotAborted ==
    ASSUME op'.pc # "aborted"
    PROVE  AbortsExplained'
BY DEF AbortsExplained

\* What is put is the whole of what the call has.
LEMMA GivenBack ==
    ASSUME Typed, Counted, Runs, held' = held, refs' = GiveBack, op' = Idle,
           \/ op.pc \in {"slot", "write", "attach"}
           \/ op.pc = "erase" /\ op.stage # "delete"
    PROVE  Explained'
<1>1. \A n \in Nodes : refs'[n] = refs[n] - Owed(op, n)
  BY GiveBackSettles
<1>2. Counted'
  BY <1>1, CountedSettles, Typing
<1>3. AbortsExplained'
  BY NotAborted DEF Idle
<1> QED BY <1>2, <1>3 DEF Explained

\* A step that moves no reference keeps the debt.
LEMMA OwedKept ==
    ASSUME Typed, Counted, Runs \/ op.pc = "split", held' = held, refs' = refs, NEW o, o = op', o.pc \notin {"idle",
           "aborted"},
           \A n \in Nodes : Owed(o, n) = Owed(op, n)
    PROVE  Explained'
<1>1. \A n \in Nodes : refs'[n] = refs[n] + Owed(o, n) - Owed(op, n)
  <2> SUFFICES ASSUME NEW n \in Nodes PROVE refs'[n] = refs[n] + Owed(o, n) - Owed(op, n)
    OBVIOUS
  <2>1. refs[n] \in Int /\ Owed(op, n) \in Int
    BY OwedIs, Typing
  <2> QED BY <2>1
<1>2. Counted'
  BY <1>1, CountedMoves, Typing
<1>3. AbortsExplained'
  BY NotAborted
<1> QED BY <1>2, <1>3 DEF Explained

LEMMA FindSlotCounted ==
    ASSUME Typed, Counted, FindSlot \/ FindSlotFails
    PROVE  Explained'
<1>1. op.pc = "slot" /\ Runs /\ held' = held
  BY DEF FindSlot, FindSlotFails, Runs
<1>2. mounted /\ op \in Ops /\ CallTyped /\ PointTyped /\ op.kind \in Kinds
  BY <1>1, RunsMounted
<1>3. op.stage = None /\ op.kind \in {"mknod", "mkdir", "rename", "label"} /\ op.victim = None
  BY <1>1, <1>2 DEF PointTyped, CallTyped, Creations, Kinds
<1>4. CASE FindSlotFails
  BY <1>1, <1>4, GivenBack DEF FindSlotFails
<1>5. CASE FindSlot
  <2>1. PICK c : c = IF op.kind = "rename" THEN "erase" ELSE "write"
    OBVIOUS
  <2>2. PICK o : o = op'
    OBVIOUS
  <2>3. \E p, g, m : o = [op EXCEPT !.pc = c, !.pos = p, !.k = 0, !.grew = g, !.meta = m]
    BY <1>5, <2>1, <2>2 DEF FindSlot
  <2>4. o.pc = c /\ o.kind = op.kind /\ o.stage = None /\ o.victim = None /\ o.dir = op.dir
        /\ o.node = op.node
    BY <1>2, <1>3, <2>3 DEF Ops
  <2>5. \A n \in Nodes : Owed(o, n) = Owed(op, n)
    BY ONLY <1>1, <1>3, <2>1, <2>4 DEF Owed, DirHeld, NodeHeld, ParentHeld, Creations, Flushes, None
  <2>6. refs' = refs
    BY <1>5 DEF FindSlot
  <2>7. o.pc \notin {"idle", "aborted"}
    BY <2>1, <2>4
  <2> QED BY <1>1, <2>2, <2>5, <2>6, <2>7, OwedKept
<1> QED BY <1>4, <1>5

LEMMA WriteEntryCounted ==
    ASSUME Typed, Counted, WriteEntry \/ WriteEntryFails
    PROVE  Explained'
<1>1. op.pc = "write" /\ Runs /\ held' = held
  BY DEF WriteEntry, WriteEntryFails, Runs, memory
<1>2. op \in Ops /\ PointTyped
  BY <1>1, RunsMounted
<1>3. op.stage = None
  BY <1>1, <1>2 DEF PointTyped
<1>4. CASE WriteEntryFails
  BY <1>1, <1>4, GivenBack DEF WriteEntryFails
<1>5. CASE WriteEntry
  <2>1. PICK o : o = op'
    OBVIOUS
  <2>2. o = [op EXCEPT !.k = @ + 1] \/ o = [op EXCEPT !.pc = "attach"]
    BY <1>5, <2>1 DEF WriteEntry
  <2>3. o.pc \in {"write", "attach"} /\ o.kind = op.kind /\ o.stage = None /\ o.victim = op.victim
        /\ o.dir = op.dir /\ o.node = op.node
    BY <1>1, <1>2, <1>3, <2>2 DEF Ops
  <2>4. \A n \in Nodes : Owed(o, n) = Owed(op, n)
    BY ONLY <1>1, <1>3, <2>3 DEF Owed, DirHeld, NodeHeld, ParentHeld, Creations, Flushes, None
  <2>5. refs' = refs
    BY <1>5 DEF WriteEntry, memory
  <2> QED BY <1>1, <2>1, <2>3, <2>4, <2>5, OwedKept
<1> QED BY <1>4, <1>5

LEMMA AttachCounted ==
    ASSUME Typed, Counted, Attach
    PROVE  Explained'
<1>1. op.pc = "attach" /\ Runs /\ held' = held
  BY DEF Attach, Runs
<1>2. op \in Ops /\ PointTyped /\ CallTyped /\ op.kind \in Kinds
  BY <1>1, RunsMounted
<1>3. op.stage = None /\ op.kind \in {"mknod", "mkdir", "rename", "label"} /\ op.victim = None
  BY <1>1, <1>2 DEF PointTyped, CallTyped, Creations, Kinds
<1>4. CASE op.kind \in {"mknod", "mkdir"}
  <2>1. refs' = refs /\ op' = FlushNext(op.dir, "create")
    BY <1>4 DEF Attach
  <2>2. PICK o : o = op'
    OBVIOUS
  <2>3. o = [op EXCEPT !.pc = "flush1", !.flush = op.dir, !.stage = "create"]
    BY <2>1, <2>2 DEF FlushNext
  <2>4. o.pc = "flush1" /\ o.kind = op.kind /\ o.stage = "create" /\ o.victim = op.victim
        /\ o.dir = op.dir /\ o.node = op.node
    BY <1>2, <2>3 DEF Ops
  <2>5. \A n \in Nodes : Owed(o, n) = Owed(op, n)
    BY ONLY <1>1, <1>3, <1>4, <2>4 DEF Owed, DirHeld, NodeHeld, ParentHeld, Creations, Flushes, None
  <2> QED BY <1>1, <2>1, <2>2, <2>4, <2>5, OwedKept
<1>5. CASE op.kind = "rename"
  <2>1. refs' = GiveBack /\ op' = Idle
    BY <1>5 DEF Attach
  <2> QED BY <1>1, <2>1, GivenBack
<1>6. CASE op.kind = "label"
  <2>1. refs' = refs /\ op' = Idle
    BY <1>6 DEF Attach
  <2>2. GiveBack = refs
    BY <1>6 DEF GiveBack
  <2> QED BY <1>1, <2>1, <2>2, GivenBack
<1> QED BY <1>3, <1>4, <1>5, <1>6

LEMMA EraseEntryCounted ==
    ASSUME Typed, Counted, EraseEntry \/ EraseEntryFails
    PROVE  Explained'
<1>1. op.pc = "erase" /\ Runs /\ held' = held
  BY DEF EraseEntry, EraseEntryFails, Runs
<1>2. op \in Ops /\ PointTyped /\ CallTyped /\ op.kind \in Kinds /\ op.victim \in Ids \cup {None}
  BY <1>1, RunsMounted
<1>3. op.stage # "delete" => op.kind = "rename" /\ op.stage = None /\ op.victim = None
  BY <1>1, <1>2 DEF PointTyped
<1>4. op.stage = "delete" => /\ op.victim \in Ids /\ op.victim # None
      /\ op.kind \in {"mkdir", "rename", "delete"}
                             /\ node[op.victim].parent = op.dir
  BY <1>1, <1>2, ConstantsAre DEF PointTyped
<1>5. CASE EraseEntry
  <2>1. PICK o : o = op'
    OBVIOUS
  <2>2. PICK c : c = IF op.stage = "delete" THEN "detach" ELSE "write"
    OBVIOUS
  <2>3. o = [op EXCEPT !.k = @ + 1] \/ o = [op EXCEPT !.k = 0, !.pc = c]
    BY <1>5, <2>1, <2>2 DEF EraseEntry
  <2>4. o.pc \in {"erase", c} /\ o.kind = op.kind /\ o.stage = op.stage /\ o.victim = op.victim
        /\ o.dir = op.dir /\ o.node = op.node
    BY <1>1, <1>2, <2>3 DEF Ops
  <2>5. \A n \in Nodes : Owed(o, n) = Owed(op, n)
    BY ONLY <1>1, <1>3, <1>4, <2>2, <2>4 DEF Owed, DirHeld, NodeHeld, ParentHeld, Creations,
            Flushes, None
  <2>6. refs' = refs /\ o.pc \notin {"idle", "aborted"}
    BY <1>5, <2>2, <2>4 DEF EraseEntry
  <2> QED BY <1>1, <2>1, <2>5, <2>6, OwedKept
<1>6. CASE EraseEntryFails /\ op.stage # "delete"
  BY <1>1, <1>6, GivenBack DEF EraseEntryFails
<1>7. CASE EraseEntryFails /\ op.stage = "delete"
  <2>1. refs' = Put({op.dir}) /\ op' = [op EXCEPT !.pc = "deleted", !.ok = FALSE]
    BY <1>4, <1>7 DEF EraseEntryFails
  <2>2. PICK o : o = op'
    OBVIOUS
  <2>3. o.pc = "deleted" /\ o.kind = op.kind /\ o.stage = op.stage /\ o.victim = op.victim
        /\ o.dir = op.dir /\ o.node = op.node
    <3>1. o = [op EXCEPT !.pc = "deleted", !.ok = FALSE]
      BY <2>1, <2>2
    <3> QED BY <1>2, <3>1 DEF Ops
  <2>4. ASSUME NEW n \in Nodes PROVE refs'[n] = refs[n] + Owed(o, n) - Owed(op, n)
    <3>1. Owed(op, n) = Owed(o, n) + One(n = op.dir)
      BY <1>1, <1>4, <1>7, <2>3, OwedErasing DEF One
    <3>2. refs'[n] = refs[n] - One(n \in {op.dir}) /\ refs[n] \in Int
      BY <2>1, <2>4, GetIs, Typing
    <3>3. One(n \in {op.dir}) = One(n = op.dir) /\ One(n = op.dir) \in Int /\ Owed(o, n) \in Int
      BY OwedIs DEF One
    <3> QED BY ONLY <3>1, <3>2, <3>3
  <2>5. Counted'
    BY <1>1, <2>2, <2>3, <2>4, CountedMoves, Typing
  <2>6. AbortsExplained'
    BY <2>2, <2>3, NotAborted
  <2> QED BY <2>5, <2>6 DEF Explained
<1> QED BY <1>5, <1>6, <1>7

LEMMA DetachCounted ==
    ASSUME Typed, Counted, Detach
    PROVE  Explained'
<1>1. op.pc = "detach" /\ Runs /\ held' = held /\ refs' = refs
  BY Zenon DEF Detach, Runs
<1>2. op \in Ops /\ PointTyped /\ CallTyped
  BY <1>1, RunsMounted
<1>3. op.stage = "delete" /\ op.kind \in {"mkdir", "rename", "delete"}
  BY <1>1, <1>2 DEF PointTyped
<1>4. PICK o : o = op'
  OBVIOUS
<1>5. \E d, b : o = [op EXCEPT !.pc = "flush1", !.flush = d, !.stage = "delete", !.ok = b]
  <2>1. PICK d, b : o = [FlushNext(d, "delete") EXCEPT !.ok = b]
    BY <1>4, Zenon DEF Detach
  <2>2. FlushNext(d, "delete") = [op EXCEPT !.pc = "flush1", !.flush = d, !.stage = "delete"]
    BY DEF FlushNext
  <2> QED BY <1>2, <2>1, <2>2, ZenonT(40) DEF Ops
<1>6. o.pc = "flush1" /\ o.kind = op.kind /\ o.stage = "delete" /\ o.victim = op.victim
        /\ o.dir = op.dir /\ o.node = op.node
  BY <1>2, <1>5 DEF Ops
<1>7. \A n \in Nodes : Owed(o, n) = Owed(op, n)
  BY ONLY <1>1, <1>3, <1>6 DEF Owed, DirHeld, NodeHeld, ParentHeld, Creations, Flushes, None
<1> QED BY <1>1, <1>4, <1>6, <1>7, OwedKept, SMTT(30)

LEMMA DeletedCounted ==
    ASSUME Typed, Counted, Deleted
    PROVE  Explained'
<1>1. op.pc = "deleted" /\ op.kind # "rename" /\ Runs /\ held' = held /\ refs' = Put({op.victim})
      /\ op' = Idle
  BY DEF Deleted, Runs
<1>2. PointTyped
  BY <1>1, RunsMounted
<1>3. op.victim \in Ids /\ op.victim # None /\ op.kind \in {"mkdir", "rename", "delete"}
  BY <1>1, <1>2, ConstantsAre DEF PointTyped
<1>4. ASSUME NEW n \in Nodes PROVE refs'[n] = refs[n] - Owed(op, n)
  <2>1. Owed(op, n) = 0 + One(n = op.victim)
    BY <1>1, <1>3, OwedErasing
  <2>2. refs'[n] = refs[n] - One(n \in {op.victim}) /\ refs[n] \in Int
    BY <1>1, <1>4, GetIs, Typing
  <2> QED BY <2>1, <2>2 DEF One
<1>5. Counted'
  BY <1>1, <1>4, CountedSettles, Typing
<1>6. AbortsExplained'
  BY <1>1, NotAborted DEF Idle
<1> QED BY <1>5, <1>6 DEF Explained

\* exfat_cleanup_node meets a node in use only if the client holds it.
LEMMA ReplacedCounted ==
    ASSUME Typed, Counted, Replaced
    PROVE  Explained'
<1>1. op.pc = "deleted" /\ op.kind = "rename" /\ Runs /\ held' = held
  BY DEF Replaced, Runs
<1>2. op \in Ops /\ PointTyped /\ CallTyped
  BY <1>1, RunsMounted
<1>3. /\ op.victim \in Ids /\ op.victim # None /\ op.victim \in Nodes
      /\ op.victim # op.dir /\ op.victim # op.node /\ op.dir # op.node
  BY <1>1, <1>2, ConstantsAre, Sorts DEF PointTyped, CallTyped
<1>4. \A n \in Nodes : Owed(op, n) = One(n = op.dir) + One(n = op.node) + One(n = op.victim)
  BY <1>1, <1>3, OwedErasing
<1>5. CASE InUse
  <2>1. op' = [pc |-> "aborted", path |-> op.victim]
    BY <1>5 DEF Replaced
  <2>2. refs[op.victim] = One(op.victim \in held) + Owed(op, op.victim)
    BY <1>1, <1>3 DEF Counted, Owes
  <2>3. Owed(op, op.victim) = 1
    BY <1>3, <1>4 DEF One
  <2>4. op.victim \in held
    BY <1>5, <2>2, <2>3 DEF InUse, One
  <2>5. op'.pc = "aborted" /\ op'.path \in held'
    BY <1>1, <2>1, <2>4
  <2> QED BY <2>5, CountedAborts DEF Explained, AbortsExplained
<1>6. CASE /\ op' = [op EXCEPT !.pc = "slot", !.victim = None, !.flush = None, !.stage = None]
           /\ refs' = Put({op.victim})
  <2>1. PICK o : o = op'
    OBVIOUS
  <2>2. /\ o = [op EXCEPT !.pc = "slot", !.victim = None, !.flush = None, !.stage = None]
        /\ refs' = Put({op.victim})
    BY <1>6, <2>1 DEF Replaced
  <2>3. o.pc = "slot" /\ o.kind = "rename" /\ o.stage = None /\ o.victim = None
        /\ o.dir = op.dir /\ o.node = op.node
    BY <1>1, <1>2, <2>2 DEF Ops
  <2>4. ASSUME NEW n \in Nodes PROVE refs'[n] = refs[n] + Owed(o, n) - Owed(op, n)
    <3>1. Owed(o, n) = One(n = op.dir) + One(n = op.node)
      BY <2>3, OwedEarly
    <3>2. refs'[n] = refs[n] - One(n \in {op.victim}) /\ refs[n] \in Int
      BY <2>2, <2>4, GetIs, Typing
    <3>3. One(n \in {op.victim}) = One(n = op.victim)
      BY DEF One
    <3>4. One(n = op.victim) \in Int /\ One(n = op.dir) \in Int /\ One(n = op.node) \in Int
      BY OwedIs
    <3> QED BY <1>4, <3>1, <3>2, <3>3, <3>4
  <2>5. Counted'
    BY <1>1, <2>1, <2>3, <2>4, CountedMoves, Typing
  <2> QED BY <2>1, <2>3, <2>5, NotAborted DEF Explained
<1>7. CASE op' = Idle /\ refs' = PutAll(op.victim, op.dir, op.node)
  <2>1. op' = Idle /\ refs' = PutAll(op.victim, op.dir, op.node)
    BY <1>7
  <2>2. ASSUME NEW n \in Nodes PROVE refs'[n] = refs[n] - Owed(op, n)
    <3>1. /\ refs'[n] = refs[n] - One(n = op.victim) - One(n = op.dir) - One(n = op.node)
          /\ refs[n] \in Int
      BY <2>1, <2>2, GetAllIs, Typing
    <3>2. One(n = op.victim) \in Int /\ One(n = op.dir) \in Int /\ One(n = op.node) \in Int
      BY OwedIs
    <3>3. Owed(op, n) = One(n = op.dir) + One(n = op.node) + One(n = op.victim)
      BY <1>4
    <3> QED BY ONLY <3>1, <3>2, <3>3
  <2>3. Counted'
    BY <1>1, <2>1, <2>2, CountedSettles, Typing
  <2> QED BY <2>1, <2>3, NotAborted DEF Explained, Idle
<1>8. ~InUse => \/ /\ op' = [op EXCEPT !.pc = "slot", !.victim = None, !.flush = None, !.stage = None]
                   /\ refs' = Put({op.victim})
                \/ op' = Idle /\ refs' = PutAll(op.victim, op.dir, op.node)
  BY <1>1, Zenon DEF Replaced
<1> QED BY <1>5, <1>6, <1>7, <1>8

\* A node is not where its parent keeps it, which ends the process, only when it
\* is out of place.
LEMMA CorruptIsAstray ==
    ASSUME Typed, op.pc \in Flushes, NeedsFlush, Corrupt
    PROVE  op.flush \in Linked /\ ~InPlace(op.flush)
<1>1. op.flush \in Ids /\ Standing(op.flush) /\ node[op.flush].state = "linked"
  BY FlushIs
<1>2. PICK n : n = op.flush
  OBVIOUS
<1>3. n \in Ids /\ node[n].state = "linked" /\ node[n].name \in Names
      /\ node[n].at \in Directories /\ node[n].pos \in Nat
  BY <1>1, <1>2 DEF Standing, Spots
<1>4. n \in Linked
  BY <1>3 DEF Linked
<1>5. PICK a : a = SlotAt(node[n].at, node[n].pos)
  OBVIOUS
<1>6. PICK b : b = SlotAt(node[n].at, node[n].pos + 1)
  OBVIOUS
<1>7. a.t # "file" \/ b.t # "info"
  BY <1>2, <1>5, <1>6 DEF Corrupt, Target
<1>8. a \in SlotType /\ b \in SlotType
  BY <1>3, <1>5, <1>6, SlotIs, Typing
<1>9. SUFFICES ASSUME InPlace(n) PROVE FALSE
  BY <1>2, <1>4
<1>10. PICK S : S = SetOf(n, node[n].name, 0)
  OBVIOUS
<1>11. \A k \in DOMAIN S : [SlotAt(node[n].at, node[n].pos + k - 1) EXCEPT !.size = 0] = S[k]
  BY <1>9, <1>10 DEF InPlace
<1>12. /\ 1 \in DOMAIN S /\ 2 \in DOMAIN S /\ S[1] = FileSlot(n, node[n].name, 0)
          /\ S[2] = InfoSlot(n, 0)
  BY <1>3, <1>10, SetTyped, ConstantsAre
<1>13. node[n].pos + 1 - 1 = node[n].pos /\ node[n].pos + 2 - 1 = node[n].pos + 1
  BY <1>3
<1>14. [a EXCEPT !.size = 0] = S[1] /\ [b EXCEPT !.size = 0] = S[2]
  BY <1>5, <1>6, <1>11, <1>12, <1>13
<1>15. S[1].t = "file" /\ S[2].t = "info"
  BY <1>12 DEF FileSlot, InfoSlot, Slot
<1>16. [a EXCEPT !.size = 0].t = a.t /\ [b EXCEPT !.size = 0].t = b.t
  BY <1>8 DEF SlotType
<1> QED BY <1>7, <1>14, <1>15, <1>16

LEMMA FlushedCounted ==
    ASSUME Typed, Counted, op.pc \in Flushes, NEW ok \in BOOLEAN, Flushed(ok), held' = held
    PROVE  /\ Counted'
           /\ op'.pc = "aborted" => ~ok /\ op'.path = op.flush /\ op.stage = "unmount"
<1>1. Runs /\ op.pc \in {"flush1", "flush2"}
  BY DEF Runs, Flushes
<1>2. op \in Ops /\ CallTyped /\ PointTyped /\ refs \in [Nodes -> Int]
      /\ op.victim \in Ids \cup {None}
  BY <1>1, RunsMounted, Typing
<1>3. op.stage \in {"create", "room", "delete", "unmount"}
  BY FlushIs
<1>4. CASE op.stage = "create"
  <2>1. op.kind \in Creations /\ op.victim = None /\ op.node \in Ids /\ op.dir \in Directories
    BY <1>2, <1>4 DEF PointTyped, CallTyped, Creations
  <2>2. GiveBack = Put({op.dir})
    BY <2>1 DEF GiveBack, Creations
  <2>3. \A n \in Nodes : Owed(op, n) = One(n = op.dir)
    BY <1>4, <2>1, OwedCreating
  <2>4. \A n \in Nodes : GiveBack[n] = refs[n] - One(n = op.dir) /\ One(n = op.dir) \in Int
    <3> SUFFICES ASSUME NEW n \in Nodes
                 PROVE GiveBack[n] = refs[n] - One(n = op.dir) /\ One(n = op.dir) \in Int
      OBVIOUS
    <3>1. GiveBack[n] = refs[n] - One(n \in {op.dir})
      BY <1>2, <2>2, GetIs
    <3> QED BY <3>1 DEF One
  <2>5. CASE ok /\ op.kind = "mkdir"
    <3>1. op' = [op EXCEPT !.pc = "room"] /\ refs' = [GiveBack EXCEPT ![op.node] = @ + 1]
      BY <1>4, <2>5 DEF Flushed
    <3>2. PICK o : o = op'
      OBVIOUS
    <3>3. o.pc = "room" /\ o.kind = op.kind /\ o.stage = "create" /\ o.victim = None
          /\ o.dir = op.dir /\ o.node = op.node
      BY <1>2, <1>4, <2>1, <3>1, <3>2 DEF Ops
    <3>4. ASSUME NEW n \in Nodes PROVE refs'[n] = refs[n] + Owed(o, n) - Owed(op, n)
      <4>1. Owed(o, n) = One(n = op.node)
        BY <2>1, <3>3, OwedCreating
      <4>2. GiveBack \in [Nodes -> Int]
        BY <1>2, GiveBackTyped
      <4>3. refs'[n] = GiveBack[n] + One(n = op.node)
        BY <2>1, <3>1, <4>2 DEF One
      <4>4. refs[n] \in Int /\ One(n = op.node) \in Int
        BY <1>2, OwedIs
      <4> QED BY <2>3, <2>4, <4>1, <4>3, <4>4
    <3>5. Counted'
      BY <1>1, <1>2, <3>2, <3>3, <3>4, CountedMoves
    <3> QED BY <3>2, <3>3, <3>5
  <2>6. CASE ~(ok /\ op.kind = "mkdir")
    <3>1. op' = Idle /\ refs' = GiveBack
      BY <1>4, <2>6 DEF Flushed
    <3>2. \A n \in Nodes : refs'[n] = refs[n] - Owed(op, n)
      BY <2>3, <2>4, <3>1
    <3>3. Counted'
      BY <1>1, <1>2, <3>1, <3>2, CountedSettles
    <3> QED BY <3>1, <3>3 DEF Idle
  <2> QED BY <2>5, <2>6
<1>5. CASE op.stage = "room"
  <2>1. op.kind = "mkdir" /\ op.victim = None /\ op.node \in Ids /\ op.node # None
    BY <1>2, <1>5, ConstantsAre DEF PointTyped, CallTyped, Creations
  <2>2. \A n \in Nodes : Owed(op, n) = One(n = op.node)
    BY <1>5, <2>1, OwedCreating DEF Creations
  <2>3. CASE ok
    <3>1. op' = Idle /\ refs' = Put({op.node})
      BY <1>5, <2>3 DEF Flushed
    <3>2. ASSUME NEW n \in Nodes PROVE refs'[n] = refs[n] - Owed(op, n)
      <4>1. refs'[n] = refs[n] - One(n \in {op.node})
        BY <1>2, <3>1, GetIs
      <4> QED BY <2>2, <4>1 DEF One
    <3>3. Counted'
      BY <1>1, <1>2, <3>1, <3>2, CountedSettles
    <3> QED BY <3>1, <3>3 DEF Idle
  <2>4. CASE ~ok
    <3>1. PICK o : o = op'
      OBVIOUS
    <3>2. o = [op EXCEPT !.pc = "erase", !.victim = op.node, !.k = 0, !.stage = "delete"]
          /\ refs' = Get({op.dir})
      BY <1>5, <2>4, <3>1 DEF Flushed
    <3>3. o.pc = "erase" /\ o.kind = op.kind /\ o.stage = "delete" /\ o.victim = op.node
          /\ o.dir = op.dir /\ o.node = op.node
      BY <1>2, <3>2 DEF Ops
    <3>4. ASSUME NEW n \in Nodes PROVE refs'[n] = refs[n] + Owed(o, n) - Owed(op, n)
      <4>1. Owed(o, n) = 0 + One(n = op.node) + One(n = op.dir)
        BY <2>1, <3>3, OwedErasing
      <4>2. refs'[n] = refs[n] + One(n \in {op.dir}) /\ refs[n] \in Int
        BY <1>2, <3>2, <3>4, GetIs
      <4>3. One(n \in {op.dir}) = One(n = op.dir) /\ One(n = op.node) \in Int
            /\ One(n = op.dir) \in Int
        BY OwedIs DEF One
      <4> QED BY <2>2, <4>1, <4>2, <4>3
    <3>5. Counted'
      BY <1>1, <1>2, <3>1, <3>3, <3>4, CountedMoves
    <3> QED BY <3>1, <3>3, <3>5
  <2> QED BY <2>3, <2>4
<1>6. CASE op.stage = "delete"
  <2>1. op.victim \in Ids /\ op.victim # None /\ op.flush = op.dir
        /\ op.kind \in {"mkdir", "rename", "delete"}
    BY <1>2, <1>6, ConstantsAre DEF PointTyped
  <2>2. PICK o : o = op'
    OBVIOUS
  <2>3. (\E b : o = [op EXCEPT !.pc = "deleted", !.ok = b]) /\ refs' = Put({op.dir})
    BY <1>6, <2>1, <2>2 DEF Flushed
  <2>4. o.pc = "deleted" /\ o.kind = op.kind /\ o.victim = op.victim /\ o.dir = op.dir
        /\ o.node = op.node
    BY <1>2, <2>3 DEF Ops
  <2>5. ASSUME NEW n \in Nodes PROVE refs'[n] = refs[n] + Owed(o, n) - Owed(op, n)
    <3>1. Owed(op, n) = Owed(o, n) + One(n = op.dir)
      BY <1>6, <2>1, <2>4, OwedErasing DEF One
    <3>2. refs'[n] = refs[n] - One(n \in {op.dir}) /\ refs[n] \in Int
      BY <1>2, <2>3, <2>5, GetIs
    <3>3. One(n \in {op.dir}) = One(n = op.dir) /\ One(n = op.dir) \in Int /\ Owed(o, n) \in Int
      BY OwedIs DEF One
    <3> QED BY ONLY <3>1, <3>2, <3>3
  <2>6. Counted'
    BY <1>1, <1>2, <2>2, <2>4, <2>5, CountedMoves
  <2> QED BY <2>2, <2>4, <2>6
<1>7. CASE op.stage = "unmount"
  <2>1. op.kind = "unmount" /\ op.victim = None /\ refs' = refs
    BY <1>2, <1>7 DEF PointTyped, CallTyped, Flushed
  <2>2. CASE ok
    <3>1. PICK o : o = op'
      OBVIOUS
    <3>2. o = [op EXCEPT !.pc = "unmount"]
      BY <1>7, <2>2, <3>1 DEF Flushed
    <3>3. o.pc = "unmount" /\ o.kind = "unmount" /\ o.stage = "unmount" /\ o.victim = None
      BY <1>2, <1>7, <2>1, <3>2 DEF Ops
    <3>4. ASSUME NEW n \in Nodes PROVE refs'[n] = refs[n] + Owed(o, n) - Owed(op, n)
      <4>1. Owed(o, n) = 0 /\ Owed(op, n) = 0
        BY <1>7, <2>1, <3>3, OwedUnmounting
      <4> QED BY <1>2, <2>1, <4>1
    <3>5. Counted'
      BY <1>1, <1>2, <3>1, <3>3, <3>4, CountedMoves
    <3> QED BY <3>1, <3>3, <3>5
  <2>3. CASE ~ok
    <3>1. op' = [pc |-> "aborted", path |-> op.flush]
      BY <1>7, <2>3 DEF Flushed
    <3>2. op'.pc = "aborted" /\ op'.path = op.flush
      BY <3>1
    <3> QED BY <1>7, <2>3, <3>2, CountedAborts
  <2> QED BY <2>2, <2>3
<1> QED BY <1>3, <1>4, <1>5, <1>6, <1>7

LEMMA FlushMeta1Counted ==
    ASSUME Typed, Counted, FlushMeta1
    PROVE  Explained'
<1>1. op.pc = "flush1" /\ op.pc \in Flushes /\ Runs /\ held' = held
  BY DEF FlushMeta1, Flushes, Runs
<1>2. op \in Ops
  BY <1>1, RunsMounted
<1>3. CASE ~NeedsFlush
  <2>1. PICK ok \in BOOLEAN : ok = TRUE
    OBVIOUS
  <2>2. Flushed(ok)
    BY <1>3, <2>1 DEF FlushMeta1
  <2>3. Counted' /\ op'.pc # "aborted"
    BY <1>1, <2>1, <2>2, FlushedCounted
  <2> QED BY <2>3, NotAborted DEF Explained
<1>4. CASE NeedsFlush /\ Corrupt
  <2>1. op' = [pc |-> "aborted", path |-> op.flush] /\ Use({op.flush})
    BY <1>4 DEF FlushMeta1
  <2>2. retried'
    BY <1>1, <1>4, <2>1, CorruptIsAstray DEF Use
  <2> QED BY <2>1, <2>2, CountedAborts DEF Explained, AbortsExplained
<1>5. CASE NeedsFlush /\ ~Corrupt
  <2>1. PICK o : o = op'
    OBVIOUS
  <2>2. o = [op EXCEPT !.pc = "flush2"] /\ refs' = refs
    BY <1>5, <2>1 DEF FlushMeta1
  <2>3. o.pc = "flush2" /\ o.kind = op.kind /\ o.stage = op.stage /\ o.victim = op.victim
        /\ o.dir = op.dir /\ o.node = op.node
    BY <1>2, <2>2 DEF Ops
  <2>4. \A n \in Nodes : Owed(o, n) = Owed(op, n)
    BY ONLY <1>1, <2>3 DEF Owed, DirHeld, NodeHeld, ParentHeld, Creations, Flushes, None
  <2>5. o.pc \notin {"idle", "aborted"} /\ refs' = refs /\ held' = held /\ Runs
    BY <1>1, <2>2, <2>3
  <2> QED BY <2>1, <2>4, <2>5, OwedKept
<1> QED BY <1>3, <1>4, <1>5

\* A node that the unmount could not write is in doubt.
LEMMA FailedIsInDoubt ==
    ASSUME Typed, op.pc \in Flushes, NeedsFlush, NEW ok \in BOOLEAN, Flushed(ok), held' = held,
           Counted, Fault(~ok)
    PROVE  Explained'
<1>1. /\ Counted'
      /\ op'.pc = "aborted" => ~ok /\ op'.path = op.flush
  BY FlushedCounted
<1>2. op.flush \in Ids /\ op.pc \in {"flush1", "flush2"}
  BY FlushIs DEF Flushes
<1>3. op.flush \in Changing
  BY <1>2 DEF Changing
<1>4. ~ok => op.flush \in doubt'
  BY <1>3 DEF Fault
<1> QED BY <1>1, <1>4 DEF Explained, AbortsExplained

LEMMA FlushMeta2Counted ==
    ASSUME Typed, Counted, FlushMeta2 \/ FlushFails
    PROVE  Explained'
<1>1. op.pc \in Flushes /\ held' = held
  BY DEF FlushMeta2, FlushFails, Flushes
<1>2. NeedsFlush
  <2>1. FlushMeta2 => op.pc = "flush2"
    BY DEF FlushMeta2
  <2>2. PointTyped
    BY <1>1, FlushIs
  <2> QED BY <2>1, <2>2 DEF PointTyped, FlushFails
<1>3. \E ok \in BOOLEAN : Flushed(ok) /\ Fault(~ok)
  <2>1. CASE FlushMeta2
    <3>1. PICK fails \in Outcomes : Fault(fails) /\ Flushed(~fails)
      BY <2>1 DEF FlushMeta2
    <3>2. fails \in BOOLEAN
      BY DEF Outcomes
    <3>3. PICK ok \in BOOLEAN : ok = ~fails
      OBVIOUS
    <3>4. fails = ~ok
      BY <3>2, <3>3
    <3> QED BY <3>1, <3>3, <3>4
  <2>2. CASE FlushFails
    <3>1. Fault(TRUE) /\ Flushed(FALSE)
      BY <2>2 DEF FlushFails
    <3>2. TRUE = ~FALSE
      OBVIOUS
    <3> QED BY <3>1, <3>2
  <2> QED BY <2>1, <2>2
<1> QED BY <1>1, <1>2, <1>3, FailedIsInDoubt

LEMMA MakeRoomCounted ==
    ASSUME Typed, Counted, MakeRoom
    PROVE  Explained'
<1>1. op.pc = "room" /\ Runs /\ held' = held
  BY DEF MakeRoom, Runs
<1>2. op \in Ops /\ PointTyped /\ CallTyped /\ refs \in [Nodes -> Int]
  BY <1>1, RunsMounted, Typing
<1>3. op.kind = "mkdir" /\ op.victim = None /\ op.node \in Ids /\ op.node # None
  BY <1>1, <1>2, ConstantsAre DEF PointTyped, CallTyped, Creations
<1>4. \A n \in Nodes : Owed(op, n) = One(n = op.node)
  BY ONLY <1>1, <1>3 DEF Owed, One, DirHeld, NodeHeld, ParentHeld, Creations, Flushes, None
<1>5. PICK o : o = op'
  OBVIOUS
<1>6. \/ /\ o = [op EXCEPT !.pc = "erase", !.victim = op.node, !.k = 0, !.stage = "delete"]
         /\ refs' = Get({op.dir})
      \/ o = FlushNext(op.node, "room") /\ refs' = refs
  BY <1>5 DEF MakeRoom
<1>7. CASE /\ o = [op EXCEPT !.pc = "erase", !.victim = op.node, !.k = 0, !.stage = "delete"]
           /\ refs' = Get({op.dir})
  <2>1. o.pc = "erase" /\ o.kind = op.kind /\ o.stage = "delete" /\ o.victim = op.node
        /\ o.dir = op.dir /\ o.node = op.node
    BY <1>2, <1>7 DEF Ops
  <2>2. ASSUME NEW n \in Nodes PROVE refs'[n] = refs[n] + Owed(o, n) - Owed(op, n)
    <3>1. Owed(o, n) = 0 + One(n = op.node) + One(n = op.dir)
      BY <1>3, <2>1, OwedErasing
    <3>2. refs'[n] = refs[n] + One(n \in {op.dir}) /\ refs[n] \in Int
      BY <1>2, <1>7, <2>2, GetIs
    <3>3. One(n \in {op.dir}) = One(n = op.dir) /\ One(n = op.node) \in Int
          /\ One(n = op.dir) \in Int
      BY OwedIs DEF One
    <3> QED BY <1>4, <3>1, <3>2, <3>3
  <2>3. Counted'
    BY <1>1, <1>2, <1>5, <2>1, <2>2, CountedMoves
  <2> QED BY <1>5, <2>1, <2>3, NotAborted DEF Explained
<1>8. CASE o = FlushNext(op.node, "room") /\ refs' = refs
  <2>1. o = [op EXCEPT !.pc = "flush1", !.flush = op.node, !.stage = "room"]
    BY <1>8 DEF FlushNext
  <2>2. o.pc = "flush1" /\ o.kind = op.kind /\ o.stage = "room" /\ o.victim = op.victim
        /\ o.dir = op.dir /\ o.node = op.node
    BY <1>2, <2>1 DEF Ops
  <2>3. \A n \in Nodes : Owed(o, n) = One(n = op.node)
    BY <1>3, <2>2, OwedCreating DEF Creations, Flushes
  <2> QED BY <1>1, <1>4, <1>5, <1>8, <2>2, <2>3, OwedKept
<1> QED BY <1>6, <1>7, <1>8

LEMMA UnmountCounted ==
    ASSUME Typed, Counted, Unmount
    PROVE  Explained'
<1>1. op.pc = "unmount" /\ Runs /\ held' = held
  BY DEF Unmount, Runs
<1>2. op \in Ops /\ PointTyped /\ CallTyped
  BY <1>1, RunsMounted
<1>3. op.kind = "unmount" /\ op.victim = None /\ held = {} /\ op.stage = "unmount"
  BY <1>1, <1>2 DEF PointTyped, CallTyped
<1>4. CASE \E n : op' = FlushNext(n, "unmount") /\ refs' = refs
  <2>1. PICK o : o = op'
    OBVIOUS
  <2>2. refs' = refs /\ \E n : o = [op EXCEPT !.pc = "flush1", !.flush = n, !.stage = "unmount"]
    BY <1>4, <2>1 DEF FlushNext
  <2>3. o.pc = "flush1" /\ o.kind = "unmount" /\ o.stage = "unmount" /\ o.victim = None
    BY <1>2, <1>3, <2>2 DEF Ops
  <2>4. \A n \in Nodes : Owed(o, n) = Owed(op, n)
    BY <1>1, <1>3, <2>3, OwedUnmounting DEF Flushes
  <2> QED BY <1>1, <2>1, <2>2, <2>3, <2>4, OwedKept, ZenonT(40)
<1>5. CASE op' = Idle /\ refs' = [n \in Nodes |-> 0]
  <2>1. ~Owes' /\ op'.pc = "idle"
    BY <1>5 DEF Runs, Owes, Idle
  <2>2. \A n \in Nodes : refs'[n] = One(n \in held') + 0
    BY <1>1, <1>3, <1>5 DEF One
  <2>3. Counted'
    BY <2>1, <2>2 DEF Counted
  <2> QED BY <2>1, <2>3, NotAborted DEF Explained
<1> QED BY <1>4, <1>5 DEF Unmount

-----------------------------------------------------------------------------
(* References: the calls                                                   *)

\* The calls: what they have when they begin.
LEMMA IdleCounted ==
    ASSUME Typed, Call
    PROVE  op.pc = "idle" /\ op = Idle /\ refs \in [Nodes -> Int]
BY Typing DEF Call, OpTyped

LEMMA Begun ==
    ASSUME Typed, Counted, Call, held' = held, NEW o, o = op', o.pc \notin {"idle", "aborted"},
           \A n \in Nodes : refs'[n] = refs[n] + Owed(o, n)
    PROVE  Explained'
<1>1. Counted'
  BY IdleCounted, CountedBegins
<1> QED BY <1>1, NotAborted DEF Explained

LEMMA DeleteCounted ==
    ASSUME Typed, Counted, NEW n \in Ids, Delete(n)
    PROVE  Explained'
<1>1. PICK d : d = node[n].parent
  OBVIOUS
<1>2. PICK o : o = op'
  OBVIOUS
<1>3. /\ Call /\ n \in Linked
         /\ o = [Running("erase", "delete", None, d, None, n) EXCEPT !.stage = "delete"]
      /\ refs' = [Get({n}) EXCEPT ![d] = @ + 1] /\ held' = held
  BY <1>1, <1>2 DEF Delete
<1>4. o.pc = "erase" /\ o.kind = "delete" /\ o.dir = d /\ o.victim = n /\ o.stage = "delete"
  BY <1>3 DEF Running
<1>5. n # None /\ d \in Nodes
  BY <1>1, <1>3, LinkedIs, ConstantsAre, Sorts DEF Call
<1>6. ASSUME NEW m \in Nodes PROVE refs'[m] = refs[m] + Owed(o, m)
  <2>1. Owed(o, m) = 0 + One(m = n) + One(m = d)
    BY <1>4, <1>5, OwedErasing
  <2>2. Get({n})[m] = refs[m] + One(m \in {n}) /\ Get({n}) \in [Nodes -> Int] /\ refs[m] \in Int
    BY <1>6, GetIs, Typing
  <2>3. refs'[m] = Get({n})[m] + One(m = d)
    BY <1>3, <1>5, <2>2 DEF One
  <2>4. One(m \in {n}) = One(m = n) /\ One(m = n) \in Int /\ One(m = d) \in Int
    BY OwedIs DEF One
  <2> QED BY <2>1, <2>2, <2>3, <2>4
<1> QED BY <1>2, <1>3, <1>4, <1>6, Begun

\* What a call has looked up, it owes.
LEMMA OwedSplit ==
    ASSUME NEW o, NEW n \in Nodes, o.pc = "split", o.stage = None
    PROVE  /\ o.kind \in Creations => Owed(o, n) = One(n = o.dir) + One(n = o.victim)
           /\ o.kind = "rename" =>
                Owed(o, n) = One(n = o.dir) + One(n = o.node) + One(n = o.victim)
<1>1. n # None
  BY ConstantsAre, Sorts DEF Nodes, Directories
<1>2. One(o.victim # None /\ n = o.victim) = One(n = o.victim)
  BY <1>1 DEF One
<1>3. ParentHeld(o) = FALSE /\ (o.kind = "rename" => DirHeld(o) /\ NodeHeld(o))
      /\ (o.kind \in Creations => DirHeld(o) /\ NodeHeld(o) = FALSE)
  BY DEF ParentHeld, DirHeld, NodeHeld, Creations, Flushes, None
<1>4. One(n = o.dir) \in Int /\ One(n = o.node) \in Int /\ One(n = o.victim) \in Int
  BY OwedIs
<1> QED BY <1>2, <1>3, <1>4 DEF Owed, One

LEMMA CreateCounted ==
    ASSUME Typed, Counted, NEW n \in Ids, NEW d \in Directories, NEW name \in Names, Create(d,
           name, n)
    PROVE  Explained'
<1>1. PICK kind : kind = IF n \in Folders THEN "mkdir" ELSE "mknod"
  OBVIOUS
<1>2. PICK o : o = op'
  OBVIOUS
<1>3. PICK v : o = Running("split", kind, n, d, name, v) /\ refs' = GetAll(d, None, v)
  BY <1>1, <1>2, Zenon DEF Create
<1>4. Call /\ held' = held /\ kind \in Creations
  BY <1>1 DEF Create, Creations
<1>5. o.pc = "split" /\ o.kind = kind /\ o.dir = d /\ o.victim = v /\ o.stage = None
  BY <1>3 DEF Running
<1>6. ASSUME NEW m \in Nodes PROVE refs'[m] = refs[m] + Owed(o, m)
  <2>1. Owed(o, m) = One(m = d) + One(m = v)
    BY <1>4, <1>5, OwedSplit
  <2>2. refs'[m] = refs[m] + One(m = d) + One(m = None) + One(m = v) /\ refs[m] \in Int
    BY <1>3, <1>6, GetAllIs, Typing
  <2>3. One(m = None) = 0
    BY ConstantsAre DEF One, Nodes, Directories
  <2>4. PICK a \in Int, b \in Int : a = One(m = d) /\ b = One(m = v)
    BY OwedIs
  <2>5. refs'[m] = refs[m] + a + 0 + b /\ Owed(o, m) = a + b /\ refs[m] \in Int
    BY <2>1, <2>2, <2>3, <2>4
  <2> QED BY ONLY <2>4, <2>5
<1> QED BY <1>2, <1>4, <1>5, <1>6, Begun

LEMMA RenameCounted ==
    ASSUME Typed, Counted, NEW n \in Nodes, NEW d \in Directories, NEW name \in Names, Rename(n, d,
           name)
    PROVE  Explained'
<1>1. PICK o : o = op'
  OBVIOUS
<1>2. PICK v : o = Running("split", "rename", n, d, name, v) /\ refs' = GetAll(n, d, v)
  BY <1>1, Zenon DEF Rename
<1>3. Call /\ held' = held
  BY DEF Rename
<1>4. /\ o.pc = "split" /\ o.kind = "rename" /\ o.node = n /\ o.dir = d /\ o.victim = v
      /\ o.stage = None
  BY <1>2 DEF Running
<1>5. ASSUME NEW m \in Nodes PROVE refs'[m] = refs[m] + Owed(o, m)
  <2>1. Owed(o, m) = One(m = d) + One(m = n) + One(m = v)
    BY <1>4, OwedSplit
  <2>2. refs'[m] = refs[m] + One(m = n) + One(m = d) + One(m = v) /\ refs[m] \in Int
    BY <1>2, <1>5, GetAllIs, Typing
  <2>3. One(m = n) \in Int /\ One(m = d) \in Int /\ One(m = v) \in Int
    BY OwedIs
  <2> QED BY ONLY <2>1, <2>2, <2>3
<1> QED BY <1>1, <1>3, <1>4, <1>5, Begun

LEMMA RenameNowhereCounted ==
    ASSUME Typed, Counted, NEW n \in Nodes, RenameNowhere(n)
    PROVE  Explained'
<1>1. PICK o : o = op'
  OBVIOUS
<1>2. /\ Call /\ held' = held /\ refs' = Get({n})
      /\ o = Running("split", "rename", n, None, None, None)
  BY <1>1 DEF RenameNowhere
<1>3. /\ o.pc = "split" /\ o.kind = "rename" /\ o.node = n /\ o.dir = None /\ o.victim = None
      /\ o.stage = None
  BY <1>2 DEF Running
<1>4. ASSUME NEW m \in Nodes PROVE refs'[m] = refs[m] + Owed(o, m)
  <2>1. Owed(o, m) = One(m = None) + One(m = n) + One(m = None)
    BY <1>3, OwedSplit
  <2>2. refs'[m] = refs[m] + One(m \in {n}) /\ refs[m] \in Int
    BY <1>2, <1>4, GetIs, Typing
  <2>3. One(m = None) = 0 /\ One(m = n) \in Int /\ One(m \in {n}) = One(m = n)
    BY ConstantsAre, OwedIs DEF One, Nodes, Directories
  <2> QED BY ONLY <2>1, <2>2, <2>3
<1> QED BY <1>1, <1>2, <1>3, <1>4, Begun

\* create puts the node that has the name, and the directory.
LEMMA CreatingCounted ==
    ASSUME Typed, Counted, Creating
    PROVE  Explained'
<1>1. op.pc = "split" /\ held' = held /\ op.kind # "rename"
  BY DEF Creating
<1>2. op \in Splits /\ op.kind \in Creations /\ op.stage = None
  BY <1>1, SplitIs
<1>3. \A n \in Nodes : Owed(op, n) = One(n = op.dir) + One(n = op.victim)
  BY <1>1, <1>2, OwedSplit
<1>4. CASE op.victim = None /\ op' = [op EXCEPT !.pc = "slot"] /\ refs' = refs
  <2>1. PICK o : o = op'
    OBVIOUS
  <2>2. /\ o.pc = "slot" /\ o.kind = op.kind /\ o.dir = op.dir /\ o.victim = None
        /\ o.stage = None
    BY <1>2, <1>4, <2>1 DEF Splits
  <2>3. ASSUME NEW n \in Nodes PROVE Owed(o, n) = Owed(op, n)
    <3>1. One(n = op.victim) = 0 /\ One(n = op.dir) \in Int
      BY <1>4, ConstantsAre, OwedIs DEF One, Nodes, Directories
    <3>2. Owed(o, n) = One(n = op.dir)
      BY <1>2, <2>2, OwedEarly
    <3>3. Owed(op, n) = One(n = op.dir) + One(n = op.victim)
      BY <1>3
    <3> QED BY ONLY <3>1, <3>2, <3>3
  <2> QED BY <1>1, <1>4, <2>1, <2>2, <2>3, OwedKept
<1>5. CASE op' = Idle /\ refs' = PutAll(op.victim, op.dir, None)
  <2>1. ASSUME NEW n \in Nodes PROVE refs'[n] = refs[n] - Owed(op, n)
    <3>1. /\ refs'[n] = refs[n] - One(n = op.victim) - One(n = op.dir) - One(n = None)
          /\ refs[n] \in Int
      BY <1>5, <2>1, GetAllIs, Typing
    <3>2. One(n = None) = 0 /\ One(n = op.dir) \in Int /\ One(n = op.victim) \in Int
      BY ConstantsAre, OwedIs DEF One, Nodes, Directories
    <3>3. Owed(op, n) = One(n = op.dir) + One(n = op.victim)
      BY <1>3
    <3> QED BY ONLY <3>1, <3>2, <3>3
  <2>2. Counted'
    BY <1>1, <1>5, <2>1, CountedSettles, Typing
  <2> QED BY <1>5, <2>2, NotAborted DEF Explained, Idle
<1> QED BY <1>4, <1>5 DEF Creating

\* exfat_rename puts what it has where it ends before it has done anything.
LEMMA RenameRefusedCounted ==
    ASSUME Typed, Counted, RenameRefused
    PROVE  Explained'
<1>1. op.pc = "split" /\ op.kind = "rename" /\ op' = Idle /\ held' = held
  BY DEF RenameRefused
<1>2. SplitTyped /\ op.stage = None
  BY <1>1, SplitIs
<1>3. ASSUME NEW n \in Nodes PROVE refs'[n] = refs[n] - Owed(op, n)
  <2>1. Owed(op, n) = One(n = op.dir) + One(n = op.node) + One(n = op.victim)
    BY <1>1, <1>2, OwedSplit
  <2>2. One(n = op.dir) \in Int /\ One(n = op.node) \in Int /\ One(n = op.victim) \in Int
        /\ refs[n] \in Int
    BY OwedIs, Typing
  <2>3. CASE op.dir = None /\ refs' = Put({op.node})
    <3>1. op.victim = None
      BY <1>2, <2>3 DEF SplitTyped
    <3>2. One(n = op.dir) = 0 /\ One(n = op.victim) = 0
      BY <2>3, <3>1, ConstantsAre DEF One, Nodes, Directories
    <3>3. refs'[n] = refs[n] - One(n \in {op.node})
      BY <2>3, GetIs, Typing
    <3>4. One(n \in {op.node}) = One(n = op.node)
      BY DEF One
    <3> QED BY ONLY <2>1, <2>2, <3>2, <3>3, <3>4
  <2>4. CASE refs' = PutAll(op.victim, op.dir, op.node)
    <3>1. refs'[n] = refs[n] - One(n = op.victim) - One(n = op.dir) - One(n = op.node)
      BY <2>4, GetAllIs, Typing
    <3> QED BY ONLY <2>1, <2>2, <3>1
  <2> QED BY <2>3, <2>4 DEF RenameRefused
<1>4. Counted'
  BY <1>1, <1>3, CountedSettles, Typing
<1> QED BY <1>1, <1>4, NotAborted DEF Explained, Idle

\* What exfat_rename has got, it still has when it goes on, whichever way.
LEMMA RenameGoesOnCounted ==
    ASSUME Typed, Counted, RenameGoesOn
    PROVE  Explained'
<1>1. held' = held
  BY DEF RenameGoesOn
<1>2. op \in Splits /\ op.stage = None
  BY GoingOn, SplitIs
<1>3. PICK o : o = op'
  OBVIOUS
<1>4. \/ o = [op EXCEPT !.pc = "slot"] /\ op.victim = None /\ refs' = refs
      \/ /\ o = [op EXCEPT !.pc = "slot", !.victim = None]
         /\ op.victim = op.node /\ refs' = Put({op.victim})
      \/ /\ o = [op EXCEPT !.pc = "erase", !.stage = "delete"]
         /\ op.victim # None /\ refs' = Get({op.dir})
      \/ /\ o = [op EXCEPT !.pc = "deleted", !.ok = FALSE]
         /\ op.victim # None /\ refs' = refs
  BY <1>3 DEF RenameGoesOn
<1>5. o.kind = "rename" /\ o.dir = op.dir /\ o.node = op.node
      /\ o.pc \in {"slot", "erase", "deleted"}
  BY <1>2, <1>4, GoingOn, ZenonT(40) DEF Splits
<1>6. ASSUME NEW n \in Nodes PROVE refs'[n] = refs[n] + Owed(o, n) - Owed(op, n)
  <2>1. Owed(op, n) = One(n = op.dir) + One(n = op.node) + One(n = op.victim)
    BY <1>2, GoingOn, OwedSplit
  <2>2. One(n = op.dir) \in Int /\ One(n = op.node) \in Int /\ One(n = op.victim) \in Int
        /\ refs[n] \in Int
    BY OwedIs, Typing
  <2>3. CASE o = [op EXCEPT !.pc = "slot"] /\ op.victim = None /\ refs' = refs
    <3>1. o.pc = "slot" /\ o.victim = None /\ o.stage = None
      BY <1>2, <2>3 DEF Splits
    <3>2. Owed(o, n) = One(n = op.dir) + One(n = op.node)
      BY <1>5, <3>1, OwedEarly
    <3>3. One(n = op.victim) = 0
      BY <2>3, ConstantsAre DEF One, Nodes, Directories
    <3> QED BY ONLY <2>1, <2>2, <2>3, <3>2, <3>3
  <2>4. CASE /\ o = [op EXCEPT !.pc = "slot", !.victim = None]
             /\ op.victim = op.node /\ refs' = Put({op.victim})
    <3>1. o.pc = "slot" /\ o.victim = None /\ o.stage = None
      BY <1>2, <2>4 DEF Splits
    <3>2. Owed(o, n) = One(n = op.dir) + One(n = op.node)
      BY <1>5, <3>1, OwedEarly
    <3>3. refs'[n] = refs[n] - One(n \in {op.victim})
      BY <2>4, GetIs, Typing
    <3>4. One(n \in {op.victim}) = One(n = op.victim)
      BY DEF One
    <3> QED BY ONLY <2>1, <2>2, <3>2, <3>3, <3>4
  <2>5. CASE /\ o = [op EXCEPT !.pc = "erase", !.stage = "delete"]
             /\ op.victim # None /\ refs' = Get({op.dir})
    <3>1. o.pc = "erase" /\ o.victim = op.victim /\ o.stage = "delete"
      BY <1>2, <2>5 DEF Splits
    <3>2. Owed(o, n) = One(n = op.dir) + One(n = op.node) + One(n = op.victim) + One(n = op.dir)
      <4>1. Owed(o, n) = One(n = o.dir) + One(n = o.node) + One(n = o.victim) + One(n = o.dir)
        <5>1. o.victim # None
          BY <2>5, <3>1
        <5>2. One(n = o.dir) \in Int /\ One(n = o.node) \in Int /\ One(n = o.victim) \in Int
          BY OwedIs
        <5> QED BY <1>5, <3>1, <5>1, <5>2, OwedErasing
      <4> QED BY ONLY <1>5, <3>1, <4>1, Zenon
    <3>3. refs'[n] = refs[n] + One(n \in {op.dir})
      BY <2>5, GetIs, Typing
    <3>4. One(n \in {op.dir}) = One(n = op.dir)
      BY DEF One
    <3> QED BY ONLY <2>1, <2>2, <3>2, <3>3, <3>4
  <2>6. CASE /\ o = [op EXCEPT !.pc = "deleted", !.ok = FALSE]
             /\ op.victim # None /\ refs' = refs
    <3>1. o.pc = "deleted" /\ o.victim = op.victim
      BY <1>2, <2>6 DEF Splits
    <3>2. Owed(o, n) = One(n = op.dir) + One(n = op.node) + One(n = op.victim)
      <4>1. Owed(o, n) = One(n = o.dir) + One(n = o.node) + One(n = o.victim)
        <5>1. o.victim # None
          BY <2>6, <3>1
        <5>2. One(n = o.dir) \in Int /\ One(n = o.node) \in Int /\ One(n = o.victim) \in Int
          BY OwedIs
        <5> QED BY <1>5, <3>1, <5>1, <5>2, OwedErasing
      <4> QED BY ONLY <1>5, <3>1, <4>1, Zenon
    <3> QED BY ONLY <2>1, <2>2, <2>6, <3>2
  <2> QED BY <1>4, <2>3, <2>4, <2>5, <2>6
<1>7. Counted'
  BY <1>1, <1>3, <1>5, <1>6, GoingOn, CountedMoves, Typing
<1> QED BY <1>3, <1>5, <1>7, NotAborted DEF Explained

LEMMA SetLabelCounted ==
    ASSUME Typed, Counted, NEW text \in Labels \cup {None}, SetLabel(text)
    PROVE  Explained'
<1>1. Call /\ held' = held /\ refs' = refs
  BY DEF SetLabel, memory
<1>2. PICK o : o = op'
  OBVIOUS
<1>3. \/ o = Running("slot", "label", None, Root, text, None)
      \/ \E p : o = [Running("write", "label", None, Root, text, None) EXCEPT !.pos = p]
  BY <1>2 DEF SetLabel
<1>4. o.pc \in {"slot", "write"} /\ o.kind = "label" /\ o.victim = None /\ o.stage = None
  BY <1>3 DEF Running
<1>5. ASSUME NEW m \in Nodes PROVE refs'[m] = refs[m] + Owed(o, m)
  <2>1. Owed(o, m) = 0
    BY <1>4, OwedEarly
  <2> QED BY <1>1, <2>1, Typing
<1> QED BY <1>1, <1>2, <1>4, <1>5, Begun

LEMMA BeginUnmountCounted ==
    ASSUME Typed, Counted, BeginUnmount
    PROVE  Explained'
<1>1. Call /\ held' = held /\ refs' = refs
  BY DEF BeginUnmount, memory
<1>2. PICK o : o = op'
  OBVIOUS
<1>3. o = [Running("unmount", "unmount", None, None, None, None) EXCEPT !.stage = "unmount"]
  BY <1>2 DEF BeginUnmount
<1>4. o.pc = "unmount" /\ o.kind = "unmount" /\ o.victim = None /\ o.stage = "unmount"
  BY <1>3 DEF Running
<1>5. ASSUME NEW m \in Nodes PROVE refs'[m] = refs[m] + Owed(o, m)
  <2>1. Owed(o, m) = 0
    BY <1>4, OwedUnmounting
  <2> QED BY <1>1, <2>1, Typing
<1> QED BY <1>1, <1>2, <1>4, <1>5, Begun

LEMMA OpenCloseCounted ==
    ASSUME Typed, Counted, NEW n \in Ids, Open(n) \/ Close(n)
    PROVE  Explained'
<1>1. Call /\ op' = op /\ op.pc = "idle" /\ ~Owes
  BY DEF Open, Close, Call, Runs, Owes
<1>2. \A m \in Nodes : refs[m] = One(m \in held) + 0
  BY <1>1 DEF Counted
<1>3. refs \in [Nodes -> Int]
  BY Typing
<1>4. CASE Open(n)
  <2>1. n \notin held /\ held' = held \cup {n} /\ refs' = Get({n})
    BY <1>4 DEF Open
  <2>2. \A m \in Nodes : refs'[m] = One(m \in held') + 0
    <3> SUFFICES ASSUME NEW m \in Nodes PROVE refs'[m] = One(m \in held') + 0
      OBVIOUS
    <3>1. refs'[m] = refs[m] + One(m \in {n})
      BY <1>3, <2>1, GetIs
    <3>2. One(m \in held') = One(m \in held) + One(m \in {n})
      BY <2>1 DEF One
    <3>3. One(m \in held) \in Int /\ One(m \in {n}) \in Int
      BY OwedIs
    <3> QED BY <1>2, <3>1, <3>2, <3>3
  <2>3. Counted'
    BY <1>1, <2>2 DEF Counted, Runs, Owes
  <2> QED BY <1>1, <2>3, NotAborted DEF Explained
<1>5. CASE Close(n)
  <2>1. n \in held /\ held' = held \ {n} /\ refs' = Put({n})
    BY <1>5 DEF Close
  <2>2. \A m \in Nodes : refs'[m] = One(m \in held') + 0
    <3> SUFFICES ASSUME NEW m \in Nodes PROVE refs'[m] = One(m \in held') + 0
      OBVIOUS
    <3>1. refs'[m] = refs[m] - One(m \in {n})
      BY <1>3, <2>1, GetIs
    <3>2. One(m \in held) = One(m \in held') + One(m \in {n})
      BY <2>1 DEF One
    <3>3. One(m \in held') \in Int /\ One(m \in {n}) \in Int
      BY OwedIs
    <3> QED BY <1>2, <3>1, <3>2, <3>3
  <2>3. Counted'
    BY <1>1, <2>2 DEF Counted, Runs, Owes
  <2> QED BY <1>1, <2>3, NotAborted DEF Explained
<1> QED BY <1>4, <1>5

\* Steps that leave the references, and what has them, as they are.
LEMMA CountedStays ==
    ASSUME Explained, refs' = refs, op' = op, held' = held, UNCHANGED <<doubt, retried>>
    PROVE  Explained'
<1>1. Owes' <=> Owes
  BY DEF Runs, Owes
<1>2. Counted'
  BY <1>1 DEF Explained, Counted
<1> QED BY <1>2 DEF Explained, AbortsExplained

LEMMA SplitRootCounted ==
    ASSUME SplitRoot
    PROVE  Explained'
<1>1. op' = [pc |-> "aborted", path |-> Root]
  BY DEF SplitRoot
<1> QED BY <1>1, CountedAborts DEF Explained, AbortsExplained

LEMMA NoneIsHeld ==
    ASSUME refs' = [n \in Nodes |-> 0], held' = {}, op' = Idle
    PROVE  Explained'
<1>1. \A m \in Nodes : refs'[m] = One(m \in held') + 0
  BY DEF One
<1>2. op'.pc = "idle" /\ ~Owes'
  BY DEF Idle, Runs, Owes
<1>3. Counted'
  BY <1>1, <1>2 DEF Counted
<1> QED BY <1>2, <1>3, NotAborted DEF Explained

\* Explained is inductive, given the types.
LEMMA NextCounted ==
    ASSUME Typed, Explained, [Next]_vars
    PROVE  Explained'
<1>1. Counted
  BY DEF Explained
<1>2. CASE Steps
  BY <1>1, <1>2, CreatingCounted, RenameRefusedCounted, RenameGoesOnCounted, FindSlotCounted, WriteEntryCounted, AttachCounted, EraseEntryCounted,
     DetachCounted,
     DeletedCounted, ReplacedCounted, FlushMeta1Counted, FlushMeta2Counted, MakeRoomCounted,
     UnmountCounted, Zenon DEF Steps
<1>3. CASE Calls
  <2>1. CASE \E n \in Ids, d \in Directories, name \in Names : Create(d, name, n)
    BY <1>1, <2>1, CreateCounted
  <2>7. CASE \E n \in Nodes : \/ \E d \in Directories, name \in Names : Rename(n, d, name)
                            \/ RenameNowhere(n)
    BY <1>1, <2>7, RenameCounted, RenameNowhereCounted
  <2>2. CASE \E n \in Ids : Delete(n) \/ Open(n) \/ Close(n)
    BY <1>1, <2>2, DeleteCounted, OpenCloseCounted
  <2>3. CASE \E n \in Ids : Cleanup(n)
    BY <2>3, CountedStays DEF Cleanup, history
  <2>4. CASE \E text \in Labels \cup {None} : SetLabel(text)
    BY <1>1, <2>4, SetLabelCounted
  <2>5. CASE SplitRoot \/ BeginUnmount
    BY <1>1, <2>5, SplitRootCounted, BeginUnmountCounted
  <2>6. CASE Mount
    BY <2>6, CountedStays DEF Mount
  <2> QED BY <1>3, <2>1, <2>2, <2>3, <2>4, <2>5, <2>6, <2>7, Zenon DEF Calls
<1>4. CASE Die
  BY <1>4, NoneIsHeld DEF Die
<1>5. CASE UNCHANGED vars
  BY <1>5, CountedStays DEF vars, memory, history
<1> QED BY <1>2, <1>3, <1>4, <1>5 DEF Next

\* Before the first mount nothing is held.
LEMMA InitCounted ==
    ASSUME Init
    PROVE  Explained
<1>1. refs = [n \in Nodes |-> 0] /\ held = {} /\ op = Idle
  BY DEF Init
<1>2. \A m \in Nodes : refs[m] = One(m \in held) + 0
  BY <1>1 DEF One
<1>3. op.pc = "idle" /\ ~Owes
  BY <1>1 DEF Idle, Runs, Owes
<1>4. Counted
  BY <1>2, <1>3 DEF Counted
<1> QED BY <1>3, <1>4 DEF Explained, AbortsExplained

\* A count is exact between the calls; and what a call resizes, it holds.
LEMMA CountedIsExact ==
    ASSUME Typed, Explained
    PROVE  ReferencesExact
<1>1. ReferencesBalanced
  <2> SUFFICES ASSUME mounted, op.pc = "idle", NEW n \in Nodes
               PROVE refs[n] = (IF n \in held THEN 1 ELSE 0)
    BY DEF ReferencesBalanced
  <2>1. refs[n] = One(n \in held) + 0
    BY DEF Explained, Counted, Runs, Owes
  <2> QED BY <2>1 DEF One
<1>2. ResizedIsReferenced
  <2>1. ASSUME NEW d \in Nodes, Runs, Owed(op, d) > 0 PROVE refs[d] > 0
    <3>1. refs[d] = One(d \in held) + Owed(op, d)
      BY <2>1 DEF Explained, Counted, Runs, Owes
    <3>2. One(d \in held) \in {0, 1} /\ Owed(op, d) \in Int
      BY OwedIs
    <3> QED BY <2>1, <3>1, <3>2
  <2>2. CASE op.pc = "slot"
    <3>1. Runs /\ op.stage = None /\ op.kind \in {"mknod", "mkdir", "rename", "label"}
      BY <2>2, RunsMounted DEF Runs, PointTyped, Kinds
    <3>2. CallTyped /\ PointTyped
      BY <3>1, RunsMounted
    <3>3. op.victim = None
      BY <2>2, <3>1, <3>2 DEF PointTyped, CallTyped, Creations
    <3>4. CASE op.kind = "label"
      <4>1. op.dir = Root
        BY <3>2, <3>4 DEF CallTyped
      <4> QED BY <2>2, <4>1 DEF ResizedIsReferenced
    <3>5. CASE op.kind # "label"
      <4>1. op.dir \in Nodes /\ op.kind \in Creations \cup {"rename"}
        BY <3>1, <3>2, <3>5, Sorts DEF CallTyped, Creations
      <4>2. Owed(op, op.dir) > 0
        BY <2>2, <3>1, <3>3, <4>1, OwedEarly DEF One
      <4>3. refs[op.dir] > 0
        BY <2>1, <3>1, <4>1, <4>2
      <4> QED BY <2>2, <4>3 DEF ResizedIsReferenced
    <3> QED BY <3>4, <3>5
  <2>3. CASE op.pc = "detach"
    <3>1. Runs
      BY <2>3 DEF Runs
    <3>2. CallTyped /\ PointTyped
      BY <3>1, RunsMounted
    <3>3. /\ op.stage = "delete" /\ op.victim # None /\ op.kind \in {"mkdir", "rename", "delete"}
          /\ node[op.victim].parent = op.dir
      BY <2>3, <3>2, ConstantsAre DEF PointTyped
    <3>4. op.dir \in Nodes
      BY <3>2, <3>3, Sorts DEF CallTyped
    <3>5. Owed(op, op.dir) > 0
      BY <2>3, <3>3, OwedErasing DEF One
    <3>6. refs[op.dir] > 0
      BY <2>1, <3>1, <3>4, <3>5
    <3> QED BY <2>3, <3>3, <3>6 DEF ResizedIsReferenced
  <2>4. CASE op.pc = "room"
    <3>1. Runs
      BY <2>4 DEF Runs
    <3>2. CallTyped /\ PointTyped
      BY <3>1, RunsMounted
    <3>3. op.kind = "mkdir" /\ op.victim = None /\ op.node \in Nodes
      BY <2>4, <3>2, Sorts DEF PointTyped, CallTyped, Creations
    <3>4. Owed(op, op.node) > 0
      BY ONLY <2>4, <3>3 DEF Owed, One, DirHeld, NodeHeld, ParentHeld, Creations, Flushes, None
    <3>5. refs[op.node] > 0
      BY <2>1, <3>1, <3>3, <3>4
    <3> QED BY <2>4, <3>5 DEF ResizedIsReferenced
  <2>5. CASE op.pc \notin {"slot", "detach", "room"}
    BY <2>5 DEF ResizedIsReferenced
  <2> QED BY <2>2, <2>3, <2>4, <2>5
<1> QED BY <1>1, <1>2 DEF ReferencesExact, Explained

\* Every way out of mknod, mkdir, unlink, rmdir, rename and label puts what it got:
\* where the target exists (create), cannot be looked up, is below the source, is
\* the source, cannot be deleted or cannot be cleaned up (exfat_rename), where there
\* is no slot, where a write or a flush fails, and where nothing fails.  So between
\* calls a count is the handles the client has; a directory that a call resizes is
\* one it holds; and exfat_bug ends the process only over a path with no component,
\* a node the client holds or one that could not be written (exfat_split,
\* exfat_put_node, exfat_cleanup_node, exfat_flush_node).  The gets and puts of the
\* nodes that a lookup only passes by are within its one step.
THEOREM ReferencesAreExact == Spec => []ReferencesExact
<1>1. Init => Typed /\ Explained
  BY InitTyped, InitCounted
<1>2. Typed /\ Explained /\ [Next]_vars => (Typed /\ Explained)'
  BY NextTyped, NextCounted
<1>3. Typed /\ Explained => ReferencesExact
  BY CountedIsExact
<1> QED BY <1>1, <1>2, <1>3, PTL DEF Spec
=============================================================================
