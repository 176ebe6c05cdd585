------------------------- MODULE AllocationInvariant -------------------------
(***************************************************************************)
(* The inductive invariant of Allocation, from which AllocationProofs      *)
(* takes the properties of the model.                                      *)
(*                                                                         *)
(* Each file has a chain, which is a function on all numbers, and a set of *)
(* places on it: those of its clusters that it has right now.  The chains  *)
(* are not computed from the FAT but claimed to exist, so that a step that *)
(* cuts a chain, or puts a cluster behind it, changes the set of places    *)
(* and leaves the chain alone.  The places of the files lie apart, and     *)
(* make up the bitmap.  For the file of the call that runs, there is one   *)
(* predicate for each place in the code where the medium may fail, which   *)
(* says how the FAT, the node and the variables of the call stand to the   *)
(* chain there.                                                            *)
(*                                                                         *)
(* Of a file of which an access failed nothing is claimed, but that what   *)
(* is left of its call touches no cluster.                                 *)
(***************************************************************************)
EXTENDS Allocation

Pcs == {"truncate", "grow", "growing", "shrink", "freeing", "erase", "erasing",
        "write", "writing", "free"}
Ops == [pc : Pcs, f : Files, then : {"idle", "write", "free"}, size : Nat,
        erase : BOOLEAN, boundary : Nat, offset : Nat, len : Nat, left : Nat,
        cluster : Nat, current : Nat, given : Nat, full : BOOLEAN,
        before : {op.before}]
Runs == op.pc \notin {"idle", "aborted"}
Busy(f) == Runs /\ op.f = f

\* What holds whether or not a call has been trusted with a file it should not
\* have been.
Base ==
    /\ TypeOK
    /\ node \in [Files -> Nodes] /\ entry \in [Files -> Entries]
    /\ Runs => /\ op \in Ops
               /\ node[op.f].state = (IF op.then = "free" THEN "unlinked" ELSE "linked")
               /\ op.pc = "grow" => op.left > 0
               /\ op.pc = "free" => op.then = "free"
               /\ op.pc = "writing" => op.offset < CLUSTER_SIZE
    /\ clean => /\ op.pc = "idle" /\ bmap = {} /\ ~bmapDirty
                /\ \A f \in Files : node[f] = NoNode
    /\ ~clean => /\ \A f \in Files : node[f].state = "linked" <=> entry[f] # NoEntry
                 /\ ~bmapDirty => diskBmap = bmap
    /\ faults = 0 => hurt = {} /\ ~retried /\ ~ignored

\* The files as they are now, on the medium if it is not mounted.
View(f) == IF clean THEN NodeOf(entry[f]) ELSE node[f]
Used == IF clean THEN diskBmap ELSE bmap

\* A chain is a function c on Nat, of which a file has the places d.
Linked(n, c, count) ==
    /\ n.start = (IF count = 0 THEN EXFAT_CLUSTER_FREE ELSE c[0])
    /\ \A i \in 0 .. count - 2 : NextCluster(n, c[i]) = c[i + 1]
Ended(n, c, count) ==
    count > 0 /\ ~n.contiguous => fat[c[count - 1]] = EXFAT_CLUSTER_END
Pointed(n, c, count) ==
    /\ n.index = 0 \/ n.index < count
    /\ count > 0 => n.cluster = c[n.index]
Whole(n, c, d) ==
    LET count == Needed(n.size)
    IN  d = 0 .. count - 1 /\ Linked(n, c, count) /\ Ended(n, c, count) /\ Pointed(n, c, count)
Fresh(c, i) == <<c[i \div CLUSTER_SIZE], i % CLUSTER_SIZE>> \notin stale
AllFresh(c, size) == \A i \in 0 .. size - 1 : Fresh(c, i)

Lies(n, c, d) ==
    IF n = NoNode THEN d = {} ELSE Whole(n, c, d) /\ AllFresh(c, n.size)

\* The sizes the call o asks for are ones whose clusters a uint32_t counts.
Counts(o) == ~Overflows(o.size) /\ (o.then = "write" => ~Overflows(o.offset + o.len))
\* The call o asks for what it can ask for; n is the node of its file.
Asked(n, o) ==
    /\ Counts(o)
    /\ o.then = "free" => o.size = 0
    /\ o.then = "write" =>
         /\ n.size < o.size
         /\ ~o.erase => n.size >= o.offset /\ o.size = o.offset + o.len
    /\ o.then # "write" => o.erase
\* What was in use, and whose, before the clusters of the places i were given out.
Remembered(n, o, c, i) ==
    /\ o.before.used = bmap \ {c[j] : j \in i} /\ \A j \in i : c[j] \in Bits
    /\ o.before.chain \in [0 .. Needed(n.size) - 1 -> Nat]
    /\ \A j \in 0 .. Needed(n.size) - 1 : o.before.chain[j] = c[j]

Starting(n, o, c, d) == Whole(n, c, d) /\ AllFresh(c, n.size) /\ Asked(n, o) /\ ~o.full
Growing(n, o, c, d) ==
    LET c1 == Needed(n.size)
        count == c1 + o.given
    IN  /\ Asked(n, o) /\ ~o.full /\ o.current = c1
        /\ n.size < o.size /\ count + o.left = Needed(o.size)
        /\ d = 0 .. count - 1 /\ Linked(n, c, count)
        /\ o.given = 0 => Ended(n, c, count)
        /\ n.index = 0 \/ n.index < c1
        /\ count > 0 => n.cluster = c[n.index]
        /\ AllFresh(c, n.size)
        /\ Remembered(n, o, c, c1 .. count - 1)
Grows(n, o, c, d) == Growing(n, o, c, d) /\ o.given = 0 /\ o.left > 0
Extends(n, o, c, d) ==
    LET count == Needed(n.size) + o.given
    IN  Growing(n, o, c, d) /\ count > 0 /\ o.cluster = c[count - 1]
KeptSize(n, o) == IF o.full THEN n.size ELSE o.size
Kept(n, o) == Needed(KeptSize(n, o))
Shrinks(n, o, c, d) ==
    /\ Asked(n, o) /\ o.left > 0 /\ o.current = Kept(n, o) + o.left
    /\ o.full => n.size < o.size /\ Remembered(n, o, c, Kept(n, o) .. o.current - 1)
    /\ ~o.full => n.size > o.size
    /\ d = 0 .. o.current - 1 /\ Linked(n, c, o.current)
    /\ Pointed(n, c, o.current)
    /\ AllFresh(c, n.size)
Freeing(n, o, c, d) ==
    LET kept == Kept(n, o)
        low == o.current - o.left
    IN  /\ Asked(n, o) /\ o.left <= o.current /\ kept <= low
        /\ o.full => n.size < o.size /\ Remembered(n, o, c, low .. o.current - 1)
        /\ ~o.full => n.size > o.size
        /\ d = (0 .. kept - 1) \cup (low .. o.current - 1)
        /\ Linked(n, c, kept) /\ Ended(n, c, kept) /\ Pointed(n, c, kept)
        /\ o.left > 0 => o.cluster = c[low]
        /\ \A i \in low .. o.current - 2 : NextCluster(n, c[i]) = c[i + 1]
        /\ AllFresh(c, KeptSize(n, o))
Least(s, t) == IF s < t THEN s ELSE t
Sizing(n, o, c, d) ==
    LET count == Needed(o.size)
    IN  /\ Asked(n, o) /\ ~o.full
        /\ d = 0 .. count - 1 /\ Linked(n, c, count) /\ Ended(n, c, count)
        /\ Pointed(n, c, count)
Erases(n, o, c, d) == Sizing(n, o, c, d) /\ AllFresh(c, Least(n.size, o.size))
Erasing(n, o, c, d) ==
    /\ o.erase /\ n.size < o.size /\ Sizing(n, o, c, d)
    /\ \E k \in d : o.boundary = (k + 1) * CLUSTER_SIZE /\ o.cluster = c[k]
    /\ AllFresh(c, Least(o.boundary, o.size))
Writes(n, o, c, d) ==
    /\ o.then = "write" /\ ~o.full /\ Counts(o)
    /\ Whole(n, c, d)
    /\ \A i \in 0 .. n.size - 1 :
         Fresh(c, i) \/ (o.offset <= i /\ n.size = o.offset + o.len)
Writing(n, o, c, d) ==
    /\ o.then = "write" /\ Whole(n, c, d)
    /\ o.left = 0 => AllFresh(c, n.size)
    /\ o.left > 0 => \E k \in d :
         LET from == k * CLUSTER_SIZE + o.offset
         IN  /\ o.cluster = c[k] /\ from + o.left <= n.size
             /\ \A i \in 0 .. n.size - 1 :
                  Fresh(c, i) \/ i \in from .. from + o.left - 1

Under(n, o, c, d) ==
    /\ o.pc = "truncate" => Starting(n, o, c, d)
    /\ o.pc = "grow" => Grows(n, o, c, d)
    /\ o.pc = "growing" => Extends(n, o, c, d)
    /\ o.pc = "shrink" => Shrinks(n, o, c, d)
    /\ o.pc = "freeing" => Freeing(n, o, c, d)
    /\ o.pc = "erase" => Erases(n, o, c, d)
    /\ o.pc = "erasing" => Erasing(n, o, c, d)
    /\ o.pc = "write" => Writes(n, o, c, d)
    /\ o.pc = "writing" => Writing(n, o, c, d)
    /\ o.pc = "free" => d = {}

\* The same of a file of which an access failed in the call: nothing is left
\* to be done that touches the clusters.
Hurt(n, o) ==
    /\ o.pc \in {"freeing", "erase", "writing", "free"}
    /\ o.pc \in {"freeing", "writing"} => CLUSTER_INVALID(o.cluster)
    /\ o.pc \in {"freeing", "erase"} => o.full \/ (o.size < n.size /\ o.then # "write")
    /\ o.pc = "erase" => ~o.full

\* A node that is not dirty is on the medium.
Saved(n, e) ==
    (n.state = "linked" /\ ~n.dirty /\ (n.size > 0 \/ n.start = EXFAT_CLUSTER_FREE))
        => e = InfoOf(n)

Safe == Files \ hurt
AtRest(f, c, d) == \E n \in {View(f)} : Lies(n, c, d)
InCall(f, c, d) == \E n \in {node[f]}, o \in {op} : Under(n, o, c, d)
Claims(f, c, d) ==
    /\ IF Busy(f) THEN InCall(f, c, d) ELSE AtRest(f, c, d)
    /\ ~clean => Saved(node[f], entry[f])
HurtInCall == \E n \in {File}, o \in {op} : Hurt(n, o)

\* The places of the files lie apart, in use, and make up what is in use and not
\* behind the bitmap.
Apart(ch, D) ==
    /\ \A f \in Safe : \A i \in D[f] : ch[f][i] \in Used \ Reserved
    /\ \A f, g \in Safe : \A i \in D[f] : \A j \in D[g] : ch[f][i] = ch[g][j] => f = g /\ i = j
    /\ Reserved \subseteq Used
    /\ hurt = {} => \A x \in Used \ (Reserved \cup Tail) : \E f \in Files : \E i \in D[f] : ch[f][i] = x
Held(ch, D) ==
    /\ Apart(ch, D)
    /\ \A f \in Safe : Claims(f, ch[f], D[f])
    /\ Runs /\ op.f \in hurt => HurtInCall

\* The clusters of the files are owned.
Owns == \E ch \in [Files -> [Nat -> Nat]], D \in [Files -> SUBSET Nat] : Held(ch, D)

\* check_node takes the entries.
Accepted == \A f \in Safe : Acceptable(entry[f])

\* What fails is counted, so that an invariant which is lost was lost after it.
Inv ==
    /\ Base
    /\ Trusted => Accepted /\ (op.pc # "aborted" => Owns)
    /\ AbortsOnlyIfFailed
-----------------------------------------------------------------------------
(* What the lemmas of AllocationProofs speak of                            *)

\* How a call that runs may go on.
Onward ==
    \/ op' = Idle \/ op'.pc = "aborted"
    \/ /\ op' \in Ops' /\ op'.f = op.f /\ op'.then = op.then /\ op'.pc # "grow"
       /\ op'.pc = "writing" => op'.offset < CLUSTER_SIZE
       /\ op'.pc = "free" => op.then = "free"
\* Accesses of the step failed, or none did.
Faulted ==
    /\ faults' \in faults .. MaxFaults
    /\ hurt' = hurt \/ (hurt' = hurt \cup {op.f} /\ faults' > 0)

\* What cluster x holds is not changed, or written by its file.
Untouched(x) ==
    fat'[x] = fat[x] /\ \A b : <<x, b>> \in stale' => <<x, b>> \in stale

\* The step is about the file f, and of the clusters in use only about those in o.
Elsewhere(f, o) ==
    /\ ~clean /\ ~clean' /\ hurt \subseteq hurt'
    /\ \A g \in Files \ {f} : node'[g] = node[g] /\ entry'[g] = entry[g]
    /\ \A x \in bmap \ o : x \in bmap' /\ Untouched(x)

\* What the step makes of the file it is about: its places lie in what it had
\* before the step and in what was free, and account for what it leaves in use
\* of the bitmap.
Ours(f, o, c, d) ==
    /\ \A i \in d : c[i] \in bmap' \ Reserved /\ (c[i] \in o \/ c[i] \notin bmap)
    /\ \A i, j \in d : c[i] = c[j] => i = j
    /\ hurt' = {} => \A x \in bmap' \ Tail : x \in bmap \ o \/ \E i \in d : c[i] = x

\* The clusters at the places d of the chain c; those that the claims say a file has.
Places(c, d) == {c[i] : i \in d}
Own(ch, D, f) == IF f \in hurt THEN {} ELSE Places(ch[f], D[f])
Stays(ch, ch2, f) == \A g \in Files \ {f} : ch2[g] = ch[g]

\* The same of a step of the call that runs: n2 and o2 are what it leaves of the
\* node and of the call.
InCallAfter(f, n2, o2, c2, d2) ==
    /\ o2.pc \notin {"idle", "aborted"} => Under(n2, o2, c2, d2)'
    /\ o2.pc \in {"idle", "aborted"} => Lies(n2, c2, d2)'
    /\ Saved(n2, entry[f])

Goes(f, n2, o2) ==
    /\ clean' = clean /\ entry' = entry /\ node' = [node EXCEPT ![f] = n2] /\ op' = o2
    /\ o2.pc \notin {"idle", "aborted"} => o2.f = f
    /\ hurt \subseteq hurt' /\ hurt' \subseteq hurt \cup {f}
    /\ f \in hurt' /\ o2.pc \notin {"idle", "aborted"} => Hurt(n2, o2)

\* The step leaves the clusters in use alone that are not in o.
Clears(o) == \A x \in bmap \ o : x \in bmap' /\ Untouched(x)

\* What the call that runs has to go by.
Now(ch, D, f, c, d, n, o) ==
    /\ ch \in [Files -> [Nat -> Nat]] /\ D \in [Files -> SUBSET Nat] /\ Held(ch, D)
    /\ Runs /\ f = op.f /\ c = ch[f] /\ d = D[f] /\ n = File /\ o = op

\* In particular, of its file, ...
Known(f, c, d, n, o) ==
    /\ f \in Files /\ ~clean /\ c \in [Nat -> Nat] /\ d \in SUBSET Nat
    /\ f \notin hurt => /\ Under(n, o, c, d) /\ Saved(n, entry[f])
                        /\ \A i \in d : c[i] \in bmap /\ c[i] \in Clusters /\ c[i] \notin Reserved
                        /\ \A i, j \in d : c[i] = c[j] => i = j
    /\ f \in hurt => Hurt(n, o)
    /\ Reserved \subseteq bmap

OpsOf(o) == [pc : Pcs, f : Files, then : {"idle", "write", "free"}, size : Nat,
             erase : BOOLEAN, boundary : Nat, offset : Nat, len : Nat, left : Nat,
             cluster : Nat, current : Nat, given : Nat, full : BOOLEAN,
             before : {o.before}]

\* ... and of its types.
Typed(f, n, o) ==
    /\ n \in Nodes /\ n # NoNode /\ n.start \in Nat /\ n.size \in Nat
    /\ n.contiguous \in BOOLEAN /\ n.dirty \in BOOLEAN /\ n.index \in Nat
    /\ n.cluster \in Nat
    /\ n.state = (IF o.then = "free" THEN "unlinked" ELSE "linked")
    /\ n \in [state : {"linked", "unlinked"}, start : Nat, size : Nat,
              contiguous : BOOLEAN, dirty : BOOLEAN, index : Nat, cluster : Nat]
    /\ o \in OpsOf(o) /\ o.pc \in Pcs /\ o.f \in Files
    /\ o.then \in {"idle", "write", "free"}
    /\ o.size \in Nat /\ o.erase \in BOOLEAN /\ o.boundary \in Nat
    /\ o.offset \in Nat /\ o.len \in Nat /\ o.left \in Nat
    /\ o.cluster \in Nat /\ o.current \in Nat /\ o.given \in Nat
    /\ o.full \in BOOLEAN
    /\ Needed(n.size) \in Nat /\ Needed(o.size) \in Nat
    /\ fat \in [Clusters -> Nat] /\ bmap \subseteq Clusters
    /\ stale \subseteq Clusters \X (0 .. CLUSTER_SIZE - 1)
    /\ Runs /\ f = op.f /\ n = File /\ o = op
    /\ node = [node EXCEPT ![f] = n]

\* What does not depend on what a quiet step changes.
Quiet == fat' = fat /\ bmap' = bmap /\ stale' = stale

\* Crop, as far as its two reads go well, after those of exfat_advance_cluster.
Cropped(a, next, fails) ==
    /\ Failed(op.f, Count(next.failed) + Count(fails))
    /\ IF fails THEN SetFile(a.node) /\ Return(FALSE) /\ UNCHANGED fat
       ELSE /\ SetFile(Rewound(a.node))
            /\ fat' = SetNext(fat, File, a.node.cluster, EXFAT_CLUSTER_END)
            /\ op' = [op EXCEPT !.pc = "freeing", !.cluster = next.cluster]

\* Nodes that differ in their pointer at most.
Alike(n, n2) ==
    /\ n2.state = n.state /\ n2.start = n.start /\ n2.size = n.size
    /\ n2.contiguous = n.contiguous /\ n2.dirty = n.dirty

\* The same between two calls.
Rest(ch, D, f, c, d, n) ==
    /\ ch \in [Files -> [Nat -> Nat]] /\ D \in [Files -> SUBSET Nat] /\ Held(ch, D)
    /\ ~Runs /\ ~clean /\ f \in Files /\ c = ch[f] /\ d = D[f] /\ n = node[f]

\* A call that leaves the file n2, with the entry e2, and runs on as o2 or is over.
Begins(f, n2, e2, o2) ==
    /\ fat' = fat /\ bmap' = bmap /\ stale' = stale /\ clean' = clean
    /\ hurt \subseteq hurt' /\ hurt' \subseteq hurt \cup {f}
    /\ node' = [node EXCEPT ![f] = n2] /\ entry' = [entry EXCEPT ![f] = e2] /\ op' = o2
    /\ o2.pc \notin {"idle", "aborted"} => o2.f = f /\ f \notin hurt'

\* The clusters that the entry of f on the medium m asks for.
CountOf(m, f) == IF m.entry[f] = NoEntry THEN 0 ELSE Needed(m.entry[f].size)

\* c is the chain of the file f on the medium m.
Chained(m, f, c) ==
    LET e == m.entry[f]
        count == CountOf(m, f)
    IN  /\ c \in [0 .. count - 1 -> m.used \ Reserved]
        /\ count > 0 =>
             /\ c[0] = e.start
             /\ \A i \in 0 .. count - 2 : NextOn(m.fat, e, c[i]) = c[i + 1]
             /\ e.contiguous \/ m.fat[c[count - 1]] = EXFAT_CLUSTER_END

\* What went wrong stays in the history, and no step writes an entry.
Onwards == /\ hurt \subseteq hurt' /\ (retried => retried') /\ (ignored => ignored')
           /\ (backward => backward') /\ (wrapped => wrapped')

\* What the model finds for the chain of n is c.
ChainIs(n, c, d, count) ==
    /\ count \in Nat /\ d = 0 .. count - 1 /\ DOMAIN ChainOf(n, count) = d
    /\ \A i \in d : ChainOf(n, count)[i] = c[i]
    /\ {ChainOf(n, count)[i] : i \in DOMAIN ChainOf(n, count)} = Places(c, d)

\* A file at rest has the places 0 .. count - 1 of its chain.
Settled(f, c, d) ==
    /\ f \in Files /\ f \in Safe /\ ~Busy(f) /\ ~clean /\ Used = bmap
    /\ node[f] \in Nodes /\ node[f] # NoNode /\ Lies(node[f], c, d)
    /\ Needed(node[f].size) \in Nat /\ DOMAIN Chain(f) = d
    /\ d = 0 .. Needed(node[f].size) - 1
    /\ \A i \in d : Chain(f)[i] = c[i] /\ c[i] \in bmap \ Reserved
    /\ Owned(f) = Places(c, d)

Distinct(c, d) == \A i, j \in d : c[i] = c[j] => i = j

\* The clusters of a file by its entry, as CleanIsSound has them.
OnMedium(f) ==
    IF entry[f] = NoEntry THEN {}
    ELSE LET n == NodeOf(entry[f])
             all == ChainOf(n, Needed(n.size))
         IN  {all[i] : i \in DOMAIN all}
=============================================================================
