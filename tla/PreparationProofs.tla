------------------------- MODULE PreparationProofs -------------------------
(***************************************************************************)
(* Proofs about what a run is begun with: its disks and its parameters     *)
(* (Launch), and the list of the files it is for (DirWalk).                *)
(*                                                                         *)
(* Launch, for any disks, names, command lines and number of moves: the    *)
(* wizard does not take a disk that stays in its place for both the bad    *)
(* one and the good one.                                                   *)
(*                                                                         *)
(* The argument is about arrivals.  A disk that is attached arrives again  *)
(* only after it was plugged out; so of two arrivals of one disk that the  *)
(* monitor holds or the wizard has accepted, one came after a departure.   *)
(*                                                                         *)
(* That a run begins with the parameters that were asked for needs what    *)
(* each option leaves behind; that it begins between its own disks, which  *)
(* settings a failure in the middle has made.                              *)
(*                                                                         *)
(* DirWalk, for every tree of directories and any names that do not        *)
(* convert: the reference count of every node is the number of its holders *)
(* through the whole recursion, and the list it ends with is every file,   *)
(* once and in order, that no failed directory is above.                   *)
(*                                                                         *)
(* The argument: a node is reached once.  The walk is never twice in one   *)
(* directory, so a node has at most one frame, which holds at most two     *)
(* references to it; and a directory that failed to open, and was put once *)
(* too often, is not met again.                                            *)
(*                                                                         *)
(* Of the list: each frame has added what is below the entries its         *)
(* iterator has passed.  Below is defined by recursion on the tree; it     *)
(* exists, and is the only function of its kind, because whatever set of   *)
(* nodes is taken, one of them has none of the others as an entry.  A      *)
(* directory fails before any of its files are listed, and the nodes that  *)
(* are through have nothing but nodes that are through below them, so the  *)
(* failure changes nothing of what is listed already.                      *)
(***************************************************************************)
EXTENDS Launch, DirWalk, SequenceTheorems, FiniteSetTheorems, WellFoundedInduction, TLAPS

-----------------------------------------------------------------------------
(* Launch: the order of arrivals                                           *)

Here(d) == \E n \in Names : attached[n] = d

\* The same after the step.
HereThen(d) == \E n \in Names : attached'[n] = d
LeftThen(d) == \E n \in Names : <<d, n>> \in unplugged'

\* The monitor hears nothing before the wizard, and what is taken is taken in
\* the order bad, good.
InOrder ==
    /\ events \in Seq(Event)
    /\ attached \in [Names -> Disks \cup {NoDisk}]
    /\ bad \in Disks \cup {NoDisk} /\ good \in Disks \cup {NoDisk}
    /\ pc = "options" => events = <<>> /\ bad = NoDisk
    /\ pc \in {"options", "badDisk", "goodDisk"} => good = NoDisk

\* A disk that has arrived is there still, or has left.
ArrivedOrLeft ==
    /\ \A i \in DOMAIN events :
         Accepts(events[i]) => Here(events[i].disk) \/ Left(events[i].disk)
    /\ bad # NoDisk => Here(bad) \/ Left(bad)

\* One that arrives a second time has left.
TwiceIsLeft ==
    /\ \A i, j \in DOMAIN events :
         /\ i < j /\ Accepts(events[i]) /\ Accepts(events[j])
         /\ events[i].disk = events[j].disk
         => Left(events[i].disk)
    /\ \A i \in DOMAIN events :
         Accepts(events[i]) /\ events[i].disk = bad => Left(bad)

Inv == InOrder /\ ArrivedOrLeft /\ TwiceIsLeft /\ DisksApart

-----------------------------------------------------------------------------
(* The sequence of events                                                  *)

LEMMA ShortSequences ==
    ASSUME NEW S
    PROVE  /\ \A a \in S : <<a>> \in Seq(S)
           /\ \A a, b \in S : <<a, b>> \in Seq(S)
  OBVIOUS

LEMMA EventsType ==
    /\ \A n \in Names, d \in Disks :
         /\ EventsOf("add", n, d) \in Seq(Event)
         /\ EventsOf("remove", n, d) \in Seq(Event)
         /\ \A k \in DOMAIN EventsOf("add", n, d) :
              Accepts(EventsOf("add", n, d)[k]) => k = 1 /\ EventsOf("add", n, d)[k].disk = d
         /\ \A k \in DOMAIN EventsOf("remove", n, d) : ~Accepts(EventsOf("remove", n, d)[k])
<1> SUFFICES ASSUME NEW n \in Names, NEW d \in Disks
             PROVE  /\ EventsOf("add", n, d) \in Seq(Event)
                    /\ EventsOf("remove", n, d) \in Seq(Event)
                    /\ \A k \in DOMAIN EventsOf("add", n, d) :
                         Accepts(EventsOf("add", n, d)[k]) =>
                            k = 1 /\ EventsOf("add", n, d)[k].disk = d
                    /\ \A k \in DOMAIN EventsOf("remove", n, d) :
                         ~Accepts(EventsOf("remove", n, d)[k])
  OBVIOUS
<1> DEFINE Of(act, type) == [action |-> act, type |-> type, name |-> n, disk |-> d]
<1>1. \A act \in {"add", "remove"}, type \in {"disk", "partition"} : Of(act, type) \in Event
  BY DEF Event
<1>2. CASE d \in Unpartitioned
  <2>1. EventsOf("add", n, d) = <<Of("add", "disk")>>
    BY <1>2 DEF EventsOf
  <2>2. EventsOf("remove", n, d) = <<Of("remove", "disk")>>
    BY <1>2 DEF EventsOf
  <2>3. Of("add", "disk") \in Event /\ Of("remove", "disk") \in Event
    BY <1>1
  <2>4. EventsOf("add", n, d) \in Seq(Event) /\ EventsOf("remove", n, d) \in Seq(Event)
    BY ONLY <2>1, <2>2, <2>3, ShortSequences, Zenon
  <2>5. DOMAIN EventsOf("add", n, d) = {1} /\ DOMAIN EventsOf("remove", n, d) = {1}
    BY ONLY <2>1, <2>2
  <2>6. EventsOf("add", n, d)[1].disk = d /\ ~Accepts(EventsOf("remove", n, d)[1])
    BY <2>1, <2>2 DEF Accepts
  <2> QED BY <2>4, <2>5, <2>6
<1>3. CASE d \notin Unpartitioned
  <2>1. EventsOf("add", n, d) = <<Of("add", "disk"), Of("add", "partition")>>
    BY <1>3 DEF EventsOf
  <2>2. EventsOf("remove", n, d) = <<Of("remove", "partition"), Of("remove", "disk")>>
    BY <1>3 DEF EventsOf
  <2>3. /\ Of("add", "disk") \in Event /\ Of("remove", "disk") \in Event
        /\ Of("add", "partition") \in Event /\ Of("remove", "partition") \in Event
    BY <1>1
  <2>4. EventsOf("add", n, d) \in Seq(Event) /\ EventsOf("remove", n, d) \in Seq(Event)
    BY ONLY <2>1, <2>2, <2>3, ShortSequences, Zenon
  <2>5. DOMAIN EventsOf("add", n, d) = {1, 2} /\ DOMAIN EventsOf("remove", n, d) = {1, 2}
    BY ONLY <2>1, <2>2
  <2>6. EventsOf("add", n, d)[1].disk = d /\ ~Accepts(EventsOf("add", n, d)[2])
    BY <2>1 DEF Accepts
  <2>7. ~Accepts(EventsOf("remove", n, d)[1]) /\ ~Accepts(EventsOf("remove", n, d)[2])
    BY <2>2 DEF Accepts
  <2> QED BY <2>4, <2>5, <2>6, <2>7
<1> QED BY <1>2, <1>3

\* What is heard stands behind what is there.
LEMMA HeardBehind ==
    ASSUME events \in Seq(Event), NEW new \in Seq(Event), Heard(new)
    PROVE  /\ events' \in Seq(Event)
           /\ \A i \in DOMAIN events' :
                \/ i \in DOMAIN events /\ events'[i] = events[i]
                \/ \E k \in DOMAIN new : i = Len(events) + k /\ events'[i] = new[k]
<1>1. CASE events' = events
  BY <1>1
<1>2. CASE events' = events \o new
  <2>1. events' \in Seq(Event) /\ DOMAIN events' = 1 .. Len(events) + Len(new)
    BY <1>2, ConcatProperties, LenProperties
  <2>2. Len(events) \in Nat /\ Len(new) \in Nat
        /\ DOMAIN events = 1 .. Len(events) /\ DOMAIN new = 1 .. Len(new)
    BY LenProperties
  <2> SUFFICES ASSUME NEW i \in DOMAIN events'
               PROVE  \/ i \in DOMAIN events /\ events'[i] = events[i]
                      \/ \E k \in DOMAIN new : i = Len(events) + k /\ events'[i] = new[k]
    BY <2>1
  <2>3. CASE i <= Len(events)
    BY <1>2, <2>1, <2>2, <2>3, ConcatProperties
  <2>4. CASE ~(i <= Len(events))
    <3>1. i - Len(events) \in DOMAIN new /\ i = Len(events) + (i - Len(events))
      BY <2>1, <2>2, <2>4
    <3>2. events'[i] = new[i - Len(events)]
      BY <1>2, <2>1, <2>2, <2>4, ConcatProperties
    <3> QED BY <3>1, <3>2
  <2> QED BY <2>3, <2>4
<1> QED BY <1>1, <1>2 DEF Heard

\* What is received stood at the head.
LEMMA Received ==
    ASSUME events \in Seq(Event), events # <<>>, events' = Tail(events)
    PROVE  /\ events' \in Seq(Event)
           /\ Head(events) = events[1] /\ 1 \in DOMAIN events /\ events[1] \in Event
           /\ \A i \in DOMAIN events' : /\ i + 1 \in DOMAIN events /\ 1 < i + 1
                                        /\ events'[i] = events[i + 1]
<1>1. Len(events) \in Nat /\ Len(events) > 0 /\ DOMAIN events = 1 .. Len(events)
  BY EmptySeq, LenProperties
<1>2. /\ events' \in Seq(Event) /\ Len(events') = Len(events) - 1
      /\ \A i \in 1 .. Len(events') : events'[i] = events[i + 1]
      /\ Head(events) = events[1]
  BY HeadTailProperties
<1>3. DOMAIN events' = 1 .. Len(events')
  BY <1>2, LenProperties
<1> QED BY <1>1, <1>2, <1>3

-----------------------------------------------------------------------------
(* The steps                                                               *)

LEMMA InitInv == Init => Inv
<1> SUFFICES ASSUME Init PROVE Inv
  OBVIOUS
<1>1. events = <<>> /\ bad = NoDisk /\ good = NoDisk /\ attached \in Attachments
  BY DEF Init
<1>2. events \in Seq(Event) /\ DOMAIN events = {}
  BY <1>1, EmptySeq
<1>3. attached \in [Names -> Disks \cup {NoDisk}]
  BY <1>1, AttachmentsAssumption DEF Attachable
<1> QED BY <1>1, <1>2, <1>3 DEF Inv, InOrder, ArrivedOrLeft, TwiceIsLeft, DisksApart

\* A step that has to do with no disk.
LEMMA OtherStep ==
    ASSUME Inv, UNCHANGED <<events, attached, unplugged, bad, good>>,
           pc' = "options" => pc = "options",
           pc' \in {"badDisk", "goodDisk"} => pc \in {"badDisk", "goodDisk"}
    PROVE  Inv'
BY DEF Inv, InOrder, ArrivedOrLeft, TwiceIsLeft, DisksApart, Here, Left, Accepts

\* A disk that leaves has left, and its departure is no arrival.
LEMMA UnplugStep ==
    ASSUME Inv, NEW n \in Names, Unplug(n)
    PROVE  Inv'
<1> DEFINE x == attached[n]
<1>1. /\ x \in Disks
      /\ attached' = [attached EXCEPT ![n] = NoDisk]
      /\ unplugged' = unplugged \cup {<<x, n>>}
      /\ Heard(EventsOf("remove", n, x))
      /\ UNCHANGED <<pc, bad, good>>
  BY DEF Unplug, Inv, InOrder, wizard
<1>2. /\ events' \in Seq(Event)
      /\ \A i \in DOMAIN events' : Accepts(events'[i]) =>
            i \in DOMAIN events /\ events'[i] = events[i]
  BY <1>1, EventsType, HeardBehind DEF Inv, InOrder
<1>3. \A d : Left(d) => LeftThen(d)
  BY <1>1 DEF Left, LeftThen
<1>4. \A d : Here(d) => HereThen(d) \/ LeftThen(d)
  <2> SUFFICES ASSUME NEW d, NEW m \in Names, attached[m] = d
               PROVE  HereThen(d) \/ LeftThen(d)
    BY DEF Here
  <2>1. CASE m = n
    <3>1. <<d, n>> \in unplugged'
      BY <1>1, <2>1
    <3> QED BY <3>1 DEF LeftThen
  <2>2. CASE m # n
    <3>1. attached'[m] = d
      BY <1>1, <2>2 DEF Inv, InOrder
    <3> QED BY <3>1 DEF HereThen
  <2> QED BY <2>1, <2>2
<1>5. InOrder'
  <2>1. pc = "options" => events' = events
    BY <1>1 DEF Heard, WizardSteps
  <2>2. attached' \in [Names -> Disks \cup {NoDisk}]
    BY <1>1 DEF Inv, InOrder
  <2> QED BY <1>1, <1>2, <2>1, <2>2 DEF Inv, InOrder
<1>6. ArrivedOrLeft'
  <2>1. \A i \in DOMAIN events' : Accepts(events'[i]) =>
            HereThen(events'[i].disk) \/ LeftThen(events'[i].disk)
    BY <1>2, <1>3, <1>4 DEF Inv, ArrivedOrLeft
  <2>2. bad # NoDisk => HereThen(bad) \/ LeftThen(bad)
    BY <1>3, <1>4 DEF Inv, ArrivedOrLeft
  <2> QED BY <1>1, <2>1, <2>2 DEF ArrivedOrLeft, Here, Left, HereThen, LeftThen, Accepts
<1>7. TwiceIsLeft'
  <2>1. \A i, j \in DOMAIN events' :
           /\ i < j /\ Accepts(events'[i]) /\ Accepts(events'[j])
           /\ events'[i].disk = events'[j].disk
           => LeftThen(events'[i].disk)
    BY <1>2, <1>3 DEF Inv, TwiceIsLeft
  <2>2. \A i \in DOMAIN events' :
           Accepts(events'[i]) /\ events'[i].disk = bad => LeftThen(bad)
    BY <1>2, <1>3 DEF Inv, TwiceIsLeft
  <2> QED BY <1>1, <2>1, <2>2 DEF TwiceIsLeft, Left, LeftThen, Accepts
<1>8. DisksApart'
  BY <1>1, <1>3 DEF Inv, DisksApart, Left, LeftThen
<1> QED BY <1>5, <1>6, <1>7, <1>8 DEF Inv

\* A disk that arrives was not there; if it is known, it has left.
LEMMA PlugStep ==
    ASSUME Inv, NEW x \in Disks, NEW n \in Names, Plug(x, n)
    PROVE  Inv'
<1>1. /\ attached[n] = NoDisk /\ ~Here(x)
      /\ attached' = [attached EXCEPT ![n] = x]
      /\ Heard(EventsOf("add", n, x))
      /\ UNCHANGED <<pc, bad, good, unplugged>>
  BY DEF Plug, Here, wizard
<1>2. /\ events' \in Seq(Event)
      /\ \A i \in DOMAIN events' : Accepts(events'[i]) =>
            \/ i \in DOMAIN events /\ events'[i] = events[i]
            \/ i = Len(events) + 1 /\ events'[i].disk = x
  BY <1>1, EventsType, HeardBehind DEF Inv, InOrder
<1>3. \A d : Left(d) => LeftThen(d)
  BY <1>1 DEF Left, LeftThen
<1>4. (\A d \in Disks : Here(d) => HereThen(d)) /\ HereThen(x)
  <2>1. attached'[n] = x /\ \A m \in Names \ {n} : attached'[m] = attached[m]
    BY <1>1 DEF Inv, InOrder
  <2> QED BY <1>1, <2>1, DisksAssumption DEF Here, HereThen
<1>5. InOrder'
  <2>1. pc = "options" => events' = events
    BY <1>1 DEF Heard, WizardSteps
  <2>2. attached' \in [Names -> Disks \cup {NoDisk}]
    BY <1>1 DEF Inv, InOrder
  <2> QED BY <1>1, <1>2, <2>1, <2>2 DEF Inv, InOrder
<1>6. \A i \in DOMAIN events : events[i].disk \in Disks
  <2>1. \A i \in DOMAIN events : events[i] \in Event
    BY ElementOfSeq DEF Inv, InOrder
  <2>2. \A e \in Event : e.disk \in Disks
    BY DEF Event
  <2> QED BY ONLY <2>1, <2>2
<1>7. ArrivedOrLeft'
  <2>1. \A i \in DOMAIN events' : Accepts(events'[i]) =>
            HereThen(events'[i].disk) \/ LeftThen(events'[i].disk)
    BY <1>2, <1>3, <1>4, <1>6 DEF Inv, ArrivedOrLeft
  <2>2. bad # NoDisk => HereThen(bad) \/ LeftThen(bad)
    BY <1>3, <1>4 DEF Inv, InOrder, ArrivedOrLeft
  <2> QED BY <1>1, <2>1, <2>2 DEF ArrivedOrLeft, Here, Left, HereThen, LeftThen, Accepts
<1>8. TwiceIsLeft'
  <2>1. \A i \in DOMAIN events : Accepts(events[i]) /\ events[i].disk = x => Left(x)
    BY <1>1 DEF Inv, ArrivedOrLeft
  <2>2. \A i, j \in DOMAIN events' :
           /\ i < j /\ Accepts(events'[i]) /\ Accepts(events'[j])
           /\ events'[i].disk = events'[j].disk
           => LeftThen(events'[i].disk)
    <3> SUFFICES ASSUME NEW i \in DOMAIN events', NEW j \in DOMAIN events',
                        i < j, Accepts(events'[i]), Accepts(events'[j]),
                        events'[i].disk = events'[j].disk
                 PROVE  LeftThen(events'[i].disk)
      OBVIOUS
    <3>1. i \in DOMAIN events /\ events'[i] = events[i]
      <4>1. DOMAIN events = 1 .. Len(events) /\ DOMAIN events' = 1 .. Len(events')
            /\ Len(events) \in Nat /\ Len(events') \in Nat
        BY <1>2, LenProperties DEF Inv, InOrder
      <4>2. j \in DOMAIN events \/ j = Len(events) + 1
        BY <1>2
      <4>3. i # Len(events) + 1
        BY <4>1, <4>2
      <4> QED BY <1>2, <4>3
    <3>2. CASE j \in DOMAIN events /\ events'[j] = events[j]
      BY <1>3, <3>1, <3>2 DEF Inv, TwiceIsLeft
    <3>3. CASE events'[j].disk = x
      BY <1>3, <2>1, <3>1, <3>3
    <3> QED BY <1>2, <3>2, <3>3
  <2>3. \A i \in DOMAIN events' :
           Accepts(events'[i]) /\ events'[i].disk = bad => LeftThen(bad)
    <3>1. x = bad => Left(bad)
      BY <1>1, DisksAssumption DEF Inv, ArrivedOrLeft
    <3> QED BY <1>2, <1>3, <3>1 DEF Inv, TwiceIsLeft
  <2> QED BY <1>1, <2>2, <2>3 DEF TwiceIsLeft, Left, LeftThen, Accepts
<1>9. DisksApart'
  BY <1>1, <1>3 DEF Inv, DisksApart, Left, LeftThen
<1> QED BY <1>5, <1>7, <1>8, <1>9 DEF Inv

\* What was known of the queue holds of what is left of it, and of its head.
LEMMA TailKeeps ==
    ASSUME Inv, events # <<>>, events' = Tail(events)
    PROVE  LET e == Head(events) IN
           /\ events' \in Seq(Event) /\ e \in Event
           /\ \A i \in DOMAIN events' :
                Accepts(events'[i]) => Here(events'[i].disk) \/ Left(events'[i].disk)
           /\ \A i, j \in DOMAIN events' :
                /\ i < j /\ Accepts(events'[i]) /\ Accepts(events'[j])
                /\ events'[i].disk = events'[j].disk
                => Left(events'[i].disk)
           /\ \A i \in DOMAIN events' :
                Accepts(events'[i]) /\ events'[i].disk = bad => Left(bad)
           /\ \A i \in DOMAIN events' :
                Accepts(e) /\ Accepts(events'[i]) /\ events'[i].disk = e.disk => Left(e.disk)
           /\ Accepts(e) => Here(e.disk) \/ Left(e.disk)
           /\ Accepts(e) /\ e.disk = bad => Left(bad)
<1> DEFINE e == Head(events)
<1>1. /\ events' \in Seq(Event) /\ e = events[1] /\ 1 \in DOMAIN events /\ e \in Event
      /\ \A i \in DOMAIN events' : /\ i + 1 \in DOMAIN events /\ 1 < i + 1
                                   /\ events'[i] = events[i + 1]
  BY Received DEF Inv, InOrder
<1>2. \A i \in DOMAIN events' :
         Accepts(events'[i]) => Here(events'[i].disk) \/ Left(events'[i].disk)
  BY <1>1 DEF Inv, ArrivedOrLeft
<1>3. \A i, j \in DOMAIN events' :
         /\ i < j /\ Accepts(events'[i]) /\ Accepts(events'[j])
         /\ events'[i].disk = events'[j].disk
         => Left(events'[i].disk)
  <2> SUFFICES ASSUME NEW i \in DOMAIN events', NEW j \in DOMAIN events',
                      i < j, Accepts(events'[i]), Accepts(events'[j]),
                      events'[i].disk = events'[j].disk
               PROVE  Left(events'[i].disk)
    OBVIOUS
  <2>1. i + 1 < j + 1
    <3>1. DOMAIN events' = 1 .. Len(events') /\ Len(events') \in Nat
      BY <1>1, LenProperties
    <3> QED BY <3>1
  <2> QED BY <1>1, <2>1 DEF Inv, TwiceIsLeft
<1>4. \A i \in DOMAIN events' :
         Accepts(events'[i]) /\ events'[i].disk = bad => Left(bad)
  BY <1>1 DEF Inv, TwiceIsLeft
<1>5. \A i \in DOMAIN events' :
         Accepts(e) /\ Accepts(events'[i]) /\ events'[i].disk = e.disk => Left(e.disk)
  BY <1>1 DEF Inv, TwiceIsLeft
<1>6. /\ Accepts(e) => Here(e.disk) \/ Left(e.disk)
      /\ Accepts(e) /\ e.disk = bad => Left(bad)
  BY <1>1 DEF Inv, ArrivedOrLeft, TwiceIsLeft
<1> QED BY <1>1, <1>2, <1>3, <1>4, <1>5, <1>6

\* An event that is dropped was no arrival (Udev::recvDevice).
LEMMA IgnoreStep == Inv /\ Ignore => Inv'
<1> SUFFICES ASSUME Inv, Ignore PROVE Inv'
  OBVIOUS
<1>1. /\ pc \in {"badDisk", "goodDisk"}
      /\ events # <<>> /\ events' = Tail(events)
      /\ UNCHANGED <<pc, attached, unplugged, bad, good>>
  BY DEF Ignore, wizard
<1>2. InOrder'
  BY <1>1, TailKeeps DEF Inv, InOrder
<1>3. ArrivedOrLeft'
  <2>1. bad # NoDisk => Here(bad) \/ Left(bad)
    BY DEF Inv, ArrivedOrLeft
  <2>2. \A i \in DOMAIN events' :
           Accepts(events'[i]) => Here(events'[i].disk) \/ Left(events'[i].disk)
    BY <1>1, TailKeeps
  <2> QED BY <1>1, <2>1, <2>2 DEF ArrivedOrLeft, Here, Left, Accepts
<1>4. TwiceIsLeft'
  BY <1>1, TailKeeps DEF TwiceIsLeft, Left, Accepts
<1>5. DisksApart'
  BY <1>1 DEF Inv, DisksApart, Left
<1> QED BY <1>2, <1>3, <1>4, <1>5 DEF Inv

\* The first arrival is the bad disk's; later ones of that disk come after it
\* left (Wizard::_getHddFrom).
LEMMA BadDiskStep == Inv /\ BadDisk => Inv'
<1> SUFFICES ASSUME Inv, BadDisk PROVE Inv'
  OBVIOUS
<1> DEFINE e == Head(events)
<1>1. /\ pc = "badDisk" /\ pc' = "goodDisk"
      /\ events # <<>> /\ Accepts(e) /\ bad' = e.disk
      /\ events' = Tail(events)
      /\ UNCHANGED <<attached, unplugged, good>>
  BY DEF BadDisk
<1>2. e.disk \in Disks /\ good = NoDisk
  BY <1>1, TailKeeps DEF Event, Inv, InOrder
<1>3. InOrder'
  BY <1>1, <1>2, TailKeeps DEF Inv, InOrder
<1>4. ArrivedOrLeft'
  <2>1. Here(e.disk) \/ Left(e.disk)
    BY <1>1, TailKeeps
  <2>2. \A i \in DOMAIN events' :
           Accepts(events'[i]) => Here(events'[i].disk) \/ Left(events'[i].disk)
    BY <1>1, TailKeeps
  <2> QED BY <1>1, <2>1, <2>2 DEF ArrivedOrLeft, Here, Left, Accepts
<1>5. TwiceIsLeft'
  <2>1. \A i \in DOMAIN events' : Accepts(events'[i]) /\ events'[i].disk = e.disk => Left(e.disk)
    BY <1>1, TailKeeps
  <2>2. \A i, j \in DOMAIN events' :
           /\ i < j /\ Accepts(events'[i]) /\ Accepts(events'[j])
           /\ events'[i].disk = events'[j].disk
           => Left(events'[i].disk)
    BY <1>1, TailKeeps
  <2> QED BY <1>1, <2>1, <2>2 DEF TwiceIsLeft, Left, Accepts
<1>6. DisksApart'
  BY <1>1, <1>2, DisksAssumption DEF DisksApart
<1> QED BY <1>3, <1>4, <1>5, <1>6 DEF Inv

\* The second arrival: the bad disk's own only if it left (Wizard::_getDirTo).
LEMMA GoodDiskStep == Inv /\ GoodDisk => Inv'
<1> SUFFICES ASSUME Inv, GoodDisk PROVE Inv'
  OBVIOUS
<1> DEFINE e == Head(events)
<1>1. /\ pc = "goodDisk" /\ pc' = "umount"
      /\ events # <<>> /\ Accepts(e) /\ good' = e.disk
      /\ events' = Tail(events)
      /\ UNCHANGED <<attached, unplugged, bad>>
  BY DEF GoodDisk
<1>2. InOrder'
  BY <1>1, TailKeeps DEF Inv, InOrder, Event
<1>3. ArrivedOrLeft'
  <2>1. bad # NoDisk => Here(bad) \/ Left(bad)
    BY DEF Inv, ArrivedOrLeft
  <2>2. \A i \in DOMAIN events' :
           Accepts(events'[i]) => Here(events'[i].disk) \/ Left(events'[i].disk)
    BY <1>1, TailKeeps
  <2> QED BY <1>1, <2>1, <2>2 DEF ArrivedOrLeft, Here, Left, Accepts
<1>4. TwiceIsLeft'
  BY <1>1, TailKeeps DEF TwiceIsLeft, Left, Accepts
<1>5. DisksApart'
  <2>1. e.disk = bad => Left(bad)
    BY <1>1, TailKeeps
  <2> QED BY <1>1, <2>1 DEF DisksApart, Left
<1> QED BY <1>2, <1>3, <1>4, <1>5 DEF Inv

\* The wizard begins: what was plugged out before does not count, since nothing
\* has arrived yet (Udev::init).
LEMMA RunWizardStep == Inv /\ RunWizard => Inv'
<1> SUFFICES ASSUME Inv, RunWizard PROVE Inv'
  OBVIOUS
<1>1. /\ pc = "options" /\ pc' = "badDisk" /\ unplugged' = {}
      /\ UNCHANGED <<events, attached, bad, good>>
  BY DEF RunWizard, wizard
<1>2. events = <<>> /\ bad = NoDisk /\ good = NoDisk /\ DOMAIN events = {}
  BY <1>1, EmptySeq DEF Inv, InOrder
<1> QED BY <1>1, <1>2 DEF Inv, InOrder, ArrivedOrLeft, TwiceIsLeft, DisksApart

LEMMA StepInv == Inv /\ [Next]_vars => Inv'
<1> SUFFICES ASSUME Inv, [Next]_vars PROVE Inv'
  OBVIOUS
<1>1. CASE Option \/ Help \/ OptionsDone
  BY <1>1, OtherStep DEF Option, Help, OptionsDone, wizard, world
<1>2. CASE Umount
  BY <1>2, OtherStep DEF Umount, world
<1>3. CASE Mount
  BY <1>3, OtherStep DEF Mount, world
<1>4. CASE Fuse
  BY <1>4, OtherStep DEF Fuse, world
<1>5. CASE GetRestoreMode
  BY <1>5, OtherStep DEF GetRestoreMode, world
<1>6. CASE GetRunMode
  BY <1>6, OtherStep DEF GetRunMode, world
<1>7. CASE ValidateParams \/ ValidateDevFiles
  BY <1>7, OtherStep DEF ValidateParams, ValidateDevFiles, wizard, world
<1>8. CASE ApplyConfig \/ SetSelfParameters \/ DriveGone
  BY <1>8, OtherStep DEF ApplyConfig, SetSelfParameters, DriveGone, wizard, world
<1>9. CASE Throws
  BY <1>9, OtherStep DEF Throws, wizard, world
<1>10. CASE Ended \/ UNCHANGED vars
  BY <1>10, OtherStep DEF Ended, vars
<1>11. CASE RunWizard
  BY <1>11, RunWizardStep
<1>12. CASE Ignore \/ BadDisk \/ GoodDisk
  BY <1>12, IgnoreStep, BadDiskStep, GoodDiskStep
<1>13. CASE \E n \in Names : Unplug(n) \/ \E d \in Disks : Plug(d, n)
  BY <1>13, UnplugStep, PlugStep
<1> QED
  BY <1>1, <1>2, <1>3, <1>4, <1>5, <1>6, <1>7, <1>8, <1>9, <1>10, <1>11, <1>12, <1>13
  DEF Next, Program

\* However disks and events mix, the wizard takes one disk for both only if it
\* was plugged out in the meantime (Wizard::_getHddFrom, _getDirTo).
THEOREM DisksStayApart == Spec => []DisksApart
<1>1. Inv => DisksApart
  BY DEF Inv
<1> QED BY <1>1, InitInv, StepInv, PTL DEF Spec

-----------------------------------------------------------------------------
(* Types                                                                   *)

Params == [diskDev : Devices, partDev : Devices,
           storageFile : {"storage.file", "status", "mnt/restorer.file"},
           restoreDir : {"", "dir", "mnt"},
           app_mode : AppModes, restore_mode : RestoreModes]

Saids == {"", "0", "1", "other", "eof"}

PcOK == pc \in {"options", "validate", "devFiles", "tune"} \cup WizardSteps \cup Ends
LineOK == argv \in CommandLines /\ optind \in 1 .. Len(argv) + 1
WorldOK ==
    /\ events \in Seq(Event) /\ Attachable(attached)
    /\ queue \in [Disks -> SUBSET ToSet(Settings)]
    /\ moves \in 0 .. MaxMoves /\ unplugged \subseteq Disks \X Names
WizardOK ==
    /\ hdd \in Names /\ eof \in BOOLEAN /\ mounts \in Seq(Disks)
    /\ bad \in Disks \cup {NoDisk} /\ good \in Disks \cup {NoDisk}
    /\ said \in [restoreMode : Saids, runMode : Saids]
RestOK == written \in 0 .. Len(Settings) /\ faults \in 0 .. MaxFaults

LEMMA Parts ==
    /\ TypeOK <=> PcOK /\ LineOK /\ params \in Params /\ WorldOK /\ WizardOK /\ RestOK
    /\ TypeOK' <=>
         PcOK' /\ LineOK' /\ params' \in Params /\ WorldOK' /\ WizardOK' /\ RestOK'
BY Zenon DEF TypeOK, PcOK, LineOK, Params, Saids, WorldOK, WizardOK, RestOK

LEMMA WorldKept == WorldOK /\ UNCHANGED world => WorldOK'
BY DEF WorldOK, world, Attachable

LEMMA WizardKept == WizardOK /\ UNCHANGED wizard => WizardOK'
BY DEF WizardOK, wizard

LEMMA LineOf ==
    ASSUME LineOK
    PROVE  /\ argv \in Seq(Options) /\ Len(argv) \in Nat
           /\ DOMAIN argv = 1 .. Len(argv) /\ optind \in Nat \ {0}
<1>1. argv \in Seq(Options)
  BY LinesAssumption DEF LineOK
<1> QED BY <1>1, LenProperties DEF LineOK

LEMMA InitTypes == Init => TypeOK
<1> SUFFICES ASSUME Init PROVE TypeOK
  OBVIOUS
<1>1. LineOK
  <2>1. argv \in CommandLines /\ optind = 1 /\ argv \in Seq(Options)
    BY LinesAssumption DEF Init
  <2>2. Len(argv) \in Nat
    BY <2>1, LenProperties
  <2> QED BY <2>1, <2>2 DEF LineOK
<1>2. params \in Params
  BY DEF Init, Defaults, Params, Devices, AppModes, RestoreModes
<1>3. WorldOK
  <2>1. events \in Seq(Event)
    BY EmptySeq DEF Init
  <2>2. Attachable(attached)
    BY AttachmentsAssumption DEF Init
  <2>3. queue \in [Disks -> SUBSET ToSet(Settings)]
    BY DEF Init
  <2>4. moves \in 0 .. MaxMoves
    <3>1. moves = 0
      BY DEF Init
    <3> QED BY ONLY <3>1, DisksAssumption
  <2>5. unplugged \subseteq Disks \X Names
    <3>1. unplugged = {}
      BY DEF Init
    <3> QED BY ONLY <3>1, Zenon
  <2> QED BY <2>5, <2>1, <2>2, <2>3, <2>4 DEF WorldOK
<1>4. WizardOK
  <2>1. mounts \in Seq(Disks)
    <3>1. mounts = <<>> \/ \E d \in Disks \ Unpartitioned : mounts = <<d>>
      BY DEF Init
    <3>2. \A d \in Disks : <<d>> \in Seq(Disks)
      BY ShortSequences
    <3> QED BY <3>1, <3>2, EmptySeq
  <2>2. /\ hdd \in Names /\ eof = FALSE /\ bad = NoDisk /\ good = NoDisk
        /\ said = [restoreMode |-> "", runMode |-> ""]
    BY DEF Init
  <2>3. said \in [restoreMode : Saids, runMode : Saids]
    BY <2>2 DEF Saids
  <2> QED BY <2>1, <2>2, <2>3 DEF WizardOK
<1>5. RestOK /\ PcOK
  <2>1. written = 0 /\ faults = 0 /\ pc = "options"
    BY DEF Init
  <2>2. Len(Settings) = 4
    BY DEF Settings
  <2> QED BY <2>1, <2>2, DisksAssumption DEF RestOK, PcOK
<1> QED BY <1>1, <1>2, <1>3, <1>4, <1>5, Parts

\* What an option is given is of its kind.
LEMMA ValueOf ==
    ASSUME LineOK, optind <= Len(argv)
    PROVE  LET o == argv[optind] IN
           /\ o \in Options /\ o.opt \in DOMAIN OptionValues
           /\ o.val \in OptionValues[o.opt]
<1>1. argv[optind] \in Options
  BY LineOf, ElementOfSeq DEF LineOK
<1>2. \A o \in Options : o.opt \in DOMAIN OptionValues /\ o.val \in OptionValues[o.opt]
  BY DEF Options
<1> QED BY <1>1, <1>2

LEMMA GivenType ==
    ASSUME NEW p \in Params, NEW o \in Options
    PROVE  Given(p, o) \in Params
<1>1. o.opt \in DOMAIN OptionValues /\ o.val \in OptionValues[o.opt]
  BY DEF Options
<1>2. CASE o.opt = "d"
  <2>1. o.val \in Devices
    BY <1>1, <1>2 DEF OptionValues, Devices
  <2>2. Given(p, o) = [p EXCEPT !.diskDev = o.val]
    BY <1>2 DEF Given
  <2> QED BY <2>1, <2>2 DEF Params
<1>3. CASE o.opt = "p"
  <2>1. o.val \in Devices
    BY <1>1, <1>3 DEF OptionValues, Devices
  <2>2. Given(p, o) = [p EXCEPT !.partDev = o.val]
    BY <1>3 DEF Given
  <2> QED BY <2>1, <2>2 DEF Params
<1>4. CASE o.opt = "s"
  <2>1. o.val = "status"
    BY <1>1, <1>4 DEF OptionValues
  <2>2. Given(p, o) = [p EXCEPT !.storageFile = o.val]
    BY <1>4 DEF Given
  <2> QED BY <2>1, <2>2 DEF Params
<1>5. CASE o.opt = "r"
  <2>1. o.val = "dir"
    BY <1>1, <1>5 DEF OptionValues
  <2>2. Given(p, o) = [p EXCEPT !.restoreDir = o.val]
    BY <1>5 DEF Given
  <2> QED BY <2>1, <2>2 DEF Params
<1>6. CASE o.opt = "m"
  <2>1. AppMode(o.val) \in AppModes
    BY DEF AppMode, AppModes
  <2>2. Given(p, o) = [p EXCEPT !.app_mode = AppMode(o.val)]
    BY <1>6 DEF Given
  <2> QED BY <2>1, <2>2 DEF Params
<1>7. CASE o.opt = "t"
  <2>1. RestoreMode(o.val) \in RestoreModes
    BY DEF RestoreMode, RestoreModes
  <2>2. Given(p, o) = [p EXCEPT !.restore_mode = RestoreMode(o.val)]
    BY <1>7 DEF Given
  <2> QED BY <2>1, <2>2 DEF Params
<1>8. CASE o.opt \notin {"d", "p", "s", "r", "m", "t"}
  BY <1>8 DEF Given
<1> QED BY <1>2, <1>3, <1>4, <1>5, <1>6, <1>7, <1>8

LEMMA OptionTypes ==
    ASSUME TypeOK, Option \/ Help \/ OptionsDone \/ RunWizard
    PROVE  TypeOK'
<1>1. PcOK /\ LineOK /\ params \in Params /\ WorldOK /\ WizardOK /\ RestOK
  BY Parts
<1>2. CASE Option
  <2>1. /\ optind <= Len(argv) /\ optind' = optind + 1 /\ UNCHANGED <<argv, pc>>
        /\ params' = Given(params, argv[optind]) /\ UNCHANGED <<written, faults, wizard, world>>
    BY <1>2 DEF Option
  <2>2. LineOK'
    BY <1>1, <2>1, LineOf DEF LineOK
  <2>3. params' \in Params
    BY <1>1, <2>1, ValueOf, GivenType
  <2> QED BY <1>1, <2>1, <2>2, <2>3, WorldKept, WizardKept, Parts DEF PcOK, RestOK
<1>3. CASE Help \/ OptionsDone
  <2>1. /\ pc' \in {"exited", "validate"}
        /\ UNCHANGED <<argv, optind, params, written, faults, wizard, world>>
    BY <1>3 DEF Help, OptionsDone
  <2>2. PcOK' /\ LineOK' /\ RestOK' /\ params' \in Params
    BY <1>1, <2>1 DEF PcOK, Ends, LineOK, RestOK
  <2> QED BY <1>1, <2>1, <2>2, WorldKept, WizardKept, Parts
<1>4. CASE RunWizard
  <2>1. /\ optind <= Len(argv) /\ optind' = optind + 1 /\ argv' = argv
        /\ pc' = "badDisk" /\ unplugged' = {}
        /\ UNCHANGED <<params, written, faults, wizard, attached, events, queue, moves>>
    BY <1>4 DEF RunWizard
  <2>2. LineOK'
    BY <1>1, <2>1, LineOf DEF LineOK
  <2>3. WorldOK'
    <3>1. unplugged' \subseteq Disks \X Names
      BY ONLY <2>1, Zenon
    <3> QED BY <1>1, <2>1, <3>1 DEF WorldOK, Attachable
  <2>4. PcOK' /\ RestOK' /\ params' \in Params
    BY <1>1, <2>1 DEF PcOK, WizardSteps, RestOK
  <2> QED BY <1>1, <2>1, <2>2, <2>3, <2>4, WizardKept, Parts
<1> QED BY <1>2, <1>3, <1>4

LEMMA EventTypes ==
    ASSUME TypeOK, Ignore \/ BadDisk \/ GoodDisk
    PROVE  TypeOK'
<1>1. PcOK /\ LineOK /\ params \in Params /\ WorldOK /\ WizardOK /\ RestOK
  BY Parts
<1>2. /\ events # <<>> /\ events' = Tail(events)
      /\ UNCHANGED <<argv, optind, written, faults, mounts, eof, said,
                     attached, queue, moves, unplugged>>
  BY DEF Ignore, BadDisk, GoodDisk, wizard
<1>3. events' \in Seq(Event) /\ Head(events) \in Event
  BY <1>1, <1>2, Received DEF WorldOK
<1>4. Head(events).name \in Names /\ Head(events).disk \in Disks
  BY <1>3 DEF Event
<1>5. LineOK' /\ WorldOK' /\ RestOK'
  BY <1>1, <1>2, <1>3 DEF LineOK, WorldOK, Attachable, RestOK
<1>6. CASE Ignore
  <2>1. UNCHANGED <<pc, params, wizard>>
    BY <1>6 DEF Ignore
  <2> QED BY <1>1, <1>5, <2>1, WizardKept, Parts DEF PcOK
<1>7. CASE BadDisk
  <2>1. /\ params' = [params EXCEPT !.diskDev = <<Head(events).name>>,
                                    !.partDev = <<Head(events).name>>]
        /\ bad' = Head(events).disk /\ pc' = "goodDisk" /\ UNCHANGED <<hdd, good>>
    BY <1>7 DEF BadDisk
  <2>2. params' \in Params
    <3>1. <<Head(events).name>> \in Devices
      BY <1>4 DEF Devices
    <3> QED BY <1>1, <2>1, <3>1 DEF Params
  <2>3. PcOK' /\ WizardOK'
    BY <1>1, <1>2, <1>4, <2>1 DEF PcOK, WizardSteps, WizardOK
  <2> QED BY <1>5, <2>2, <2>3, Parts
<1>8. CASE GoodDisk
  <2>1. /\ hdd' = Head(events).name /\ good' = Head(events).disk
        /\ pc' = "umount" /\ UNCHANGED <<params, bad>>
    BY <1>8 DEF GoodDisk
  <2>2. PcOK' /\ WizardOK'
    BY <1>1, <1>2, <1>4, <2>1 DEF PcOK, WizardSteps, WizardOK
  <2> QED BY <1>1, <1>5, <2>1, <2>2, Parts
<1> QED BY <1>6, <1>7, <1>8

LEMMA MountTypes ==
    ASSUME TypeOK, Umount \/ Mount \/ Fuse
    PROVE  TypeOK'
<1>1. PcOK /\ LineOK /\ params \in Params /\ WorldOK /\ WizardOK /\ RestOK
  BY Parts
<1>2. /\ UNCHANGED <<argv, optind, written, hdd, eof, bad, good, said, world>>
      /\ pc' \in {"mount", "fuse", "restoreMode", "failed"}
  BY DEF Umount, Mount, Fuse
<1>3. faults' \in 0 .. MaxFaults
  <2>1. UNCHANGED faults \/ (faults < MaxFaults /\ faults' = faults + 1)
    BY DEF Umount, Mount, Fuse
  <2>2. MaxFaults \in Nat /\ faults \in 0 .. MaxFaults
    BY <1>1, DisksAssumption DEF RestOK
  <2> QED BY ONLY <2>1, <2>2
<1>4. PcOK' /\ LineOK' /\ RestOK' /\ WorldOK'
  BY <1>1, <1>2, <1>3, WorldKept DEF PcOK, WizardSteps, Ends, LineOK, RestOK
<1>5. mounts' \in Seq(Disks)
  <2>1. \/ UNCHANGED mounts
        \/ mounts # <<>> /\ mounts' = Front(mounts)
        \/ PartExists(<<hdd>>) /\ mounts' = Append(mounts, attached[hdd])
    BY DEF Umount, Mount, Fuse
  <2>2. mounts # <<>> => Front(mounts) \in Seq(Disks)
    <3> SUFFICES ASSUME mounts # <<>> PROVE Front(mounts) \in Seq(Disks)
      OBVIOUS
    <3>1. mounts \in Seq(Disks) /\ Len(mounts) \in Nat /\ Len(mounts) > 0
      BY <1>1, EmptySeq, LenProperties DEF WizardOK
    <3>2. Front(mounts) = SubSeq(mounts, 1, Len(mounts) - 1)
      BY DEF Front
    <3>3. \A m \in 1 .. Len(mounts) - 1 : mounts[m] \in Disks
      BY <3>1, ElementOfSeq
    <3> QED BY <3>1, <3>2, <3>3, SubSeqProperties
  <2>3. PartExists(<<hdd>>) => attached[hdd] \in Disks
    <3> SUFFICES ASSUME NEW n \in Names, <<hdd>> = <<n>>, attached[n] \in Disks \ Unpartitioned
                 PROVE  attached[hdd] \in Disks
      BY DEF PartExists
    <3>1. hdd = n
      OBVIOUS
    <3> QED BY <3>1
  <2>4. mounts \in Seq(Disks) /\ \A d \in Disks : Append(mounts, d) \in Seq(Disks)
    BY <1>1, AppendProperties DEF WizardOK
  <2> QED BY ONLY <2>1, <2>2, <2>3, <2>4
<1>6. WizardOK'
  BY <1>1, <1>2, <1>5 DEF WizardOK
<1>7. params' \in Params
  <2>1. \/ UNCHANGED params \/ params' = [params EXCEPT !.restoreDir = "mnt"]
        \/ params' = [params EXCEPT !.restore_mode = "RESTORE_UNKNOWN"]
    BY DEF Umount, Mount, Fuse
  <2> QED BY <1>1, <2>1 DEF Params, RestoreModes
<1> QED BY <1>4, <1>6, <1>7, Parts

LEMMA PromptTypes ==
    ASSUME TypeOK, GetRestoreMode \/ GetRunMode
    PROVE  TypeOK'
<1>1. PcOK /\ LineOK /\ params \in Params /\ WorldOK /\ WizardOK /\ RestOK
  BY Parts
<1>2. UNCHANGED <<argv, optind, written, faults, hdd, mounts, bad, good, world>>
  BY DEF GetRestoreMode, GetRunMode
<1>3. LineOK' /\ RestOK' /\ WorldOK'
  BY <1>1, <1>2, WorldKept DEF LineOK, RestOK
<1>4. \A a \in Answers : a \in Saids
  BY DEF Answers, Saids
<1>5. CASE GetRestoreMode
  <2>1. PICK a \in Answers :
          /\ eof' = (a = "eof")
          /\ said' = [said EXCEPT !.restoreMode = a]
          /\ \/ params' = [params EXCEPT !.restore_mode = "RESTORE_ALL",
                                         !.app_mode = "APP_BAD_MODE"]
             \/ params' = [params EXCEPT !.restore_mode = "RESTORE_ONLY_GOOD",
                                         !.app_mode = "APP_BAD_MODE"]
             \/ params' = params
          /\ pc' = IF a = "other" THEN pc ELSE "runMode"
    BY <1>5 DEF GetRestoreMode
  <2>2. params' \in Params
    BY <1>1, <2>1 DEF Params, AppModes, RestoreModes
  <2>3. PcOK'
    BY <1>1, <2>1 DEF PcOK, WizardSteps
  <2>4. eof' \in BOOLEAN /\ said' \in [restoreMode : Saids, runMode : Saids]
    <3>1. said \in [restoreMode : Saids, runMode : Saids]
      BY <1>1 DEF WizardOK
    <3> QED BY <1>4, <2>1, <3>1
  <2>5. WizardOK'
    BY <1>1, <1>2, <2>4 DEF WizardOK
  <2> QED BY <1>3, <2>2, <2>3, <2>5, Parts
<1>6. CASE GetRunMode
  <2>1. PICK a \in Answers :
          /\ eof' = (a = "eof")
          /\ said' = [said EXCEPT !.runMode = a]
          /\ \/ params' = [params EXCEPT !.app_mode = "APP_START",
                                         !.storageFile = "mnt/restorer.file"]
                /\ pc' = "validate"
             \/ params' = [params EXCEPT !.app_mode = "APP_CONTINUE",
                                         !.storageFile = "mnt/restorer.file"]
                /\ pc' = "validate"
             \/ UNCHANGED <<params, pc>>
    BY <1>6 DEF GetRunMode
  <2>2. params' \in Params
    BY <1>1, <2>1 DEF Params, AppModes
  <2>3. PcOK'
    BY <1>1, <2>1 DEF PcOK
  <2>4. eof' \in BOOLEAN /\ said' \in [restoreMode : Saids, runMode : Saids]
    <3>1. said \in [restoreMode : Saids, runMode : Saids]
      BY <1>1 DEF WizardOK
    <3> QED BY <1>4, <2>1, <3>1
  <2>5. WizardOK'
    BY <1>1, <1>2, <2>4 DEF WizardOK
  <2> QED BY <1>3, <2>2, <2>3, <2>5, Parts
<1> QED BY <1>5, <1>6

\* A name that has a device file has a disk.
LEMMA DiskOf ==
    ASSUME NEW dev \in Devices, DiskExists(dev), WorldOK
    PROVE  dev # <<>> /\ dev[1] \in Names /\ dev = <<dev[1]>> /\ attached[dev[1]] \in Disks
<1>1. PICK n \in Names : dev = <<n>> /\ attached[n] # NoDisk
  BY DEF DiskExists
<1>2. attached[n] \in Disks
  BY <1>1 DEF WorldOK, Attachable
<1> QED BY <1>1, <1>2

LEMMA DriveTypes ==
    ASSUME TypeOK, \/ ValidateParams \/ ValidateDevFiles \/ ApplyConfig
                   \/ SetSelfParameters \/ DriveGone \/ Throws
    PROVE  TypeOK'
<1>1. PcOK /\ LineOK /\ params \in Params /\ WorldOK /\ WizardOK /\ RestOK
  BY Parts
<1>2. UNCHANGED <<argv, optind, params, wizard>>
  BY DEF ValidateParams, ValidateDevFiles, ApplyConfig, SetSelfParameters, DriveGone, Throws
<1>3. LineOK' /\ params' \in Params /\ WizardOK'
  BY <1>1, <1>2, WizardKept DEF LineOK
<1>4. CASE ApplyConfig
  <2>1. /\ written < Len(Settings) /\ DiskExists(params.diskDev)
        /\ queue' = [queue EXCEPT ![attached[params.diskDev[1]]] =
                                     @ \cup {Settings[written + 1]}]
        /\ written' = written + 1
        /\ UNCHANGED <<pc, faults, attached, events, moves, unplugged>>
    BY <1>4 DEF ApplyConfig
  <2>2. Len(Settings) = 4 /\ \A k \in 1 .. 4 : Settings[k] \in ToSet(Settings)
    BY DEF Settings, ToSet
  <2>3. written \in Nat /\ written + 1 \in 1 .. 4
    BY ONLY <1>1, <2>1, <2>2 DEF RestOK
  <2>4. queue' \in [Disks -> SUBSET ToSet(Settings)]
    <3> DEFINE v == Settings[written + 1]
    <3>1. v \in ToSet(Settings)
      BY <2>2, <2>3
    <3>2. queue \in [Disks -> SUBSET ToSet(Settings)]
      BY <1>1 DEF WorldOK
    <3> HIDE DEF v
    <3>3. \A d \in Disks : queue[d] \cup {v} \in SUBSET ToSet(Settings)
      BY <3>1, <3>2
    <3> QED BY <2>1, <3>2, <3>3 DEF v
  <2>5. WorldOK'
    BY <1>1, <2>1, <2>4 DEF WorldOK, Attachable
  <2>6. written' \in 0 .. Len(Settings)
    BY ONLY <2>1, <2>2, <2>3
  <2>7. PcOK' /\ RestOK'
    BY <1>1, <2>1, <2>6 DEF PcOK, RestOK
  <2> QED BY <1>3, <2>5, <2>7, Parts
<1>5. CASE Throws
  <2>1. /\ faults < MaxFaults /\ faults' = faults + 1 /\ pc' = "failed"
        /\ UNCHANGED <<written, world>>
    BY <1>5 DEF Throws
  <2>2. faults' \in 0 .. MaxFaults
    <3>1. MaxFaults \in Nat /\ faults \in 0 .. MaxFaults
      BY <1>1, DisksAssumption DEF RestOK
    <3> QED BY ONLY <2>1, <3>1
  <2>3. PcOK' /\ RestOK'
    BY <1>1, <2>1, <2>2 DEF PcOK, Ends, RestOK
  <2> QED BY <1>1, <1>3, <2>1, <2>3, WorldKept, Parts
<1>6. CASE ValidateParams \/ ValidateDevFiles \/ SetSelfParameters \/ DriveGone
  <2>1. pc' \in {"devFiles", "failed", "tune", "run"} /\ UNCHANGED <<written, faults, world>>
    BY <1>6 DEF ValidateParams, ValidateDevFiles, SetSelfParameters, DriveGone
  <2>2. PcOK' /\ RestOK'
    BY <1>1, <2>1 DEF PcOK, Ends, RestOK
  <2> QED BY <1>1, <1>3, <2>1, <2>2, WorldKept, Parts
<1> QED BY <1>4, <1>5, <1>6

LEMMA MoveTypes ==
    ASSUME TypeOK, NEW n \in Names, Unplug(n) \/ \E d \in Disks : Plug(d, n)
    PROVE  TypeOK'
<1>1. PcOK /\ LineOK /\ params \in Params /\ WorldOK /\ WizardOK /\ RestOK
  BY Parts
<1>2. moves < MaxMoves /\ moves' = moves + 1
      /\ UNCHANGED <<argv, optind, pc, params, wizard, written, faults>>
  BY DEF Unplug, Plug
<1>3. PcOK' /\ LineOK' /\ params' \in Params /\ WizardOK' /\ RestOK'
  BY <1>1, <1>2, WizardKept DEF PcOK, LineOK, RestOK
<1>4. moves' \in 0 .. MaxMoves
  <2>1. MaxMoves \in Nat /\ moves \in 0 .. MaxMoves
    BY <1>1, DisksAssumption DEF WorldOK
  <2> QED BY ONLY <1>2, <2>1
<1>5. attached \in [Names -> Disks \cup {NoDisk}] /\ events \in Seq(Event)
  BY <1>1 DEF WorldOK, Attachable
<1>6. CASE Unplug(n)
  <2>1. /\ attached[n] # NoDisk /\ attached' = [attached EXCEPT ![n] = NoDisk]
        /\ Heard(EventsOf("remove", n, attached[n]))
        /\ unplugged' = unplugged \cup {<<attached[n], n>>} /\ queue' = queue
    BY <1>6 DEF Unplug
  <2>2. attached[n] \in Disks
    BY <1>5, <2>1
  <2>3. events' \in Seq(Event)
    BY <1>5, <2>1, <2>2, EventsType, HeardBehind
  <2>4. Attachable(attached)'
    BY <1>1, <2>1 DEF WorldOK, Attachable
  <2>5. unplugged' \subseteq Disks \X Names
    <3>1. <<attached[n], n>> \in Disks \X Names
      BY <2>2
    <3> QED BY <1>1, <2>1, <3>1 DEF WorldOK
  <2>6. WorldOK'
    BY <1>1, <1>4, <2>1, <2>3, <2>4, <2>5 DEF WorldOK
  <2> QED BY <1>3, <2>6, Parts
<1>7. ASSUME NEW d \in Disks, Plug(d, n) PROVE TypeOK'
  <2>1. /\ \A other \in Names : attached[other] # d
        /\ attached' = [attached EXCEPT ![n] = d]
        /\ queue' = [queue EXCEPT ![d] = {}] /\ unplugged' = unplugged
        /\ Heard(EventsOf("add", n, d))
    BY <1>7 DEF Plug
  <2>2. events' \in Seq(Event)
    BY <1>5, <2>1, EventsType, HeardBehind
  <2>3. Attachable(attached)'
    BY <1>1, <2>1 DEF WorldOK, Attachable
  <2>4. queue' \in [Disks -> SUBSET ToSet(Settings)]
    BY <1>1, <2>1 DEF WorldOK
  <2>5. WorldOK'
    BY <1>1, <1>4, <2>1, <2>2, <2>3, <2>4 DEF WorldOK
  <2> QED BY <1>3, <2>5, Parts
<1> QED BY <1>6, <1>7

LEMMA StutterTypes ==
    ASSUME TypeOK, UNCHANGED vars
    PROVE  TypeOK'
<1>1. PcOK /\ LineOK /\ params \in Params /\ WorldOK /\ WizardOK /\ RestOK
  BY Parts
<1>2. UNCHANGED <<pc, argv, optind, params, written, faults, world, wizard>>
  BY DEF vars, world, wizard
<1>3. PcOK' /\ LineOK' /\ params' \in Params /\ RestOK'
  BY <1>1, <1>2 DEF PcOK, LineOK, RestOK
<1> QED BY <1>1, <1>2, <1>3, WorldKept, WizardKept, Parts

LEMMA StepTypes == TypeOK /\ [Next]_vars => TypeOK'
<1> SUFFICES ASSUME TypeOK, [Next]_vars PROVE TypeOK'
  OBVIOUS
<1>1. CASE Program
  BY <1>1, OptionTypes, EventTypes, MountTypes, PromptTypes, DriveTypes DEF Program
<1>2. CASE Throws
  BY <1>2, DriveTypes
<1>3. CASE Ended \/ UNCHANGED vars
  BY <1>3, StutterTypes DEF Ended
<1>4. CASE \E n \in Names : Unplug(n) \/ \E d \in Disks : Plug(d, n)
  BY <1>4, MoveTypes
<1> QED BY <1>1, <1>2, <1>3, <1>4 DEF Next

-----------------------------------------------------------------------------
(* What the options decide                                                 *)

\* Where an option stands among the first k, and what it was given last.
Among(line, o, k) == {j \in 1 .. k : line[j].opt = o}
LastGiven(line, o, k) ==
    line[CHOOSE j \in Among(line, o, k) : \A m \in Among(line, o, k) : m <= j].val

\* The parameters are what the first k options of the line mean.
Obeyed(line, k, p) ==
    LET Of(o, default) == IF Among(line, o, k) = {} THEN default ELSE LastGiven(line, o, k)
    IN /\ p.diskDev = Of("d", <<>>) /\ p.partDev = Of("p", <<>>)
       /\ p.storageFile = Of("s", "storage.file") /\ p.restoreDir = Of("r", "")
       /\ p.app_mode = IF Among(line, "m", k) = {} THEN "APP_BAD_MODE"
                       ELSE NamedMode(LastGiven(line, "m", k))
       /\ p.restore_mode = IF Among(line, "t", k) = {} THEN "RESTORE_ONLY_GOOD"
                           ELSE RestoreMode(LastGiven(line, "t", k))

\* The options before the wizard decide, and no step behind them changes what
\* they decided.
Parsed ==
    /\ pc = "options" => ~ByWizard /\ Obeyed(argv, optind - 1, params)
    /\ pc \in WizardSteps => ByWizard
    /\ Configured /\ ~ByWizard => Obeyed(argv, Len(argv), params)

\* One more option takes the place of the earlier ones of its kind.
LEMMA OneMore ==
    ASSUME NEW line, NEW o, NEW k \in Nat
    PROVE  /\ line[k + 1].opt = o => /\ Among(line, o, k + 1) # {}
                                     /\ LastGiven(line, o, k + 1) = line[k + 1].val
           /\ line[k + 1].opt # o => /\ Among(line, o, k + 1) = Among(line, o, k)
                                     /\ LastGiven(line, o, k + 1) = LastGiven(line, o, k)
<1> DEFINE A == Among(line, o, k + 1)
<1>1. \A j : j \in 1 .. k + 1 <=> j \in 1 .. k \/ j = k + 1
  OBVIOUS
<1>2. ASSUME line[k + 1].opt = o
      PROVE  A # {} /\ LastGiven(line, o, k + 1) = line[k + 1].val
  <2>1. k + 1 \in A /\ \A m \in A : m \in Nat /\ m <= k + 1
    BY <1>2 DEF Among
  <2> HIDE DEF A
  <2>2. \A j \in A : (\A m \in A : m <= j) => j = k + 1
    BY <2>1
  <2>3. (CHOOSE j \in A : \A m \in A : m <= j) = k + 1
    <3>1. \E j \in A : \A m \in A : m <= j
      BY <2>1
    <3> QED BY <2>2, <3>1
  <2> QED BY <2>1, <2>3 DEF LastGiven, A
<1>3. ASSUME line[k + 1].opt # o
      PROVE  A = Among(line, o, k) /\ LastGiven(line, o, k + 1) = LastGiven(line, o, k)
  <2>1. A = Among(line, o, k)
    BY <1>1, <1>3 DEF Among
  <2> QED BY <2>1 DEF LastGiven
<1> QED BY <1>2, <1>3

\* An option does to the parameters what it means.
LEMMA GivenObeys ==
    ASSUME NEW line, NEW k \in Nat, NEW p \in Params, Obeyed(line, k, p),
           line[k + 1] \in Options
    PROVE  Obeyed(line, k + 1, Given(p, line[k + 1]))
<1> DEFINE opt == line[k + 1].opt
           val == line[k + 1].val
           q == Given(p, line[k + 1])
           Of(o, n, default) == IF Among(line, o, n) = {} THEN default ELSE LastGiven(line, o, n)
<1>1. opt \in DOMAIN OptionValues /\ val \in OptionValues[opt]
  BY DEF Options
<1>2. ASSUME NEW o, NEW default
      PROVE  Of(o, k + 1, default) = IF opt = o THEN val ELSE Of(o, k, default)
  BY OneMore
<1>3. /\ opt = "m" => AppMode(val) = NamedMode(val)
  <2> SUFFICES ASSUME opt = "m" PROVE AppMode(val) = NamedMode(val)
    OBVIOUS
  <2>1. val \in {"zero", "one", "two", "word"}
    BY <1>1 DEF OptionValues, Atoi
  <2> QED BY <2>1 DEF AppMode, NamedMode, Atoi
<1>4. /\ q.diskDev = IF opt = "d" THEN val ELSE p.diskDev
      /\ q.partDev = IF opt = "p" THEN val ELSE p.partDev
      /\ q.storageFile = IF opt = "s" THEN val ELSE p.storageFile
      /\ q.restoreDir = IF opt = "r" THEN val ELSE p.restoreDir
      /\ q.app_mode = IF opt = "m" THEN AppMode(val) ELSE p.app_mode
      /\ q.restore_mode = IF opt = "t" THEN RestoreMode(val) ELSE p.restore_mode
  BY DEF Given, Params
<1>5. q.app_mode = IF Among(line, "m", k + 1) = {} THEN "APP_BAD_MODE"
                   ELSE NamedMode(LastGiven(line, "m", k + 1))
  BY <1>3, <1>4, OneMore DEF Obeyed
<1>6. q.restore_mode = IF Among(line, "t", k + 1) = {} THEN "RESTORE_ONLY_GOOD"
                       ELSE RestoreMode(LastGiven(line, "t", k + 1))
  BY <1>4, OneMore DEF Obeyed
<1>7. /\ p.diskDev = Of("d", k, <<>>) /\ p.partDev = Of("p", k, <<>>)
      /\ p.storageFile = Of("s", k, "storage.file") /\ p.restoreDir = Of("r", k, "")
  BY DEF Obeyed
<1>8. /\ q.diskDev = Of("d", k + 1, <<>>) /\ q.partDev = Of("p", k + 1, <<>>)
      /\ q.storageFile = Of("s", k + 1, "storage.file") /\ q.restoreDir = Of("r", k + 1, "")
  <2> HIDE DEF Of, q, opt, val
  <2> QED BY <1>2, <1>4, <1>7
<1> QED BY <1>5, <1>6, <1>8 DEF Obeyed

LEMMA InitParsed == Init => Parsed
<1> SUFFICES ASSUME Init PROVE Parsed
  OBVIOUS
<1>1. pc = "options" /\ optind = 1 /\ params = Defaults
  BY DEF Init
<1>2. ~ByWizard
  <2>1. Len(argv) \in Nat
    BY InitTypes, Parts, LineOf
  <2> QED BY <1>1, <2>1 DEF ByWizard
<1>3. Obeyed(argv, optind - 1, params)
  <2>1. \A o : Among(argv, o, optind - 1) = {}
    BY <1>1 DEF Among
  <2> QED BY <1>1, <2>1 DEF Obeyed, Defaults
<1> QED BY <1>1, <1>2, <1>3 DEF Parsed, WizardSteps, Configured

LEMMA StepParsed ==
    ASSUME TypeOK, Parsed, [Next]_vars
    PROVE  Parsed'
<1>1. LineOK /\ params \in Params
  BY Parts
<1>2. Len(argv) \in Nat /\ optind \in 1 .. Len(argv) + 1
  BY <1>1, LineOf DEF LineOK
<1>3. CASE Option
  <2>1. /\ pc = "options" /\ pc' = pc /\ argv' = argv /\ optind' = optind + 1
        /\ optind <= Len(argv) /\ argv[optind].opt # "w"
        /\ params' = Given(params, argv[optind])
    BY <1>3 DEF Option
  <2>2. ~ByWizard'
    <3> SUFFICES ASSUME NEW j \in 1 .. Len(argv), j < optind + 1, argv[j].opt = "w"
                 PROVE  FALSE
      BY <2>1 DEF ByWizard
    <3>1. j < optind
      <4>1. j # optind
        BY <2>1
      <4> QED BY <1>2, <4>1
    <3> QED BY <2>1, <3>1 DEF Parsed, ByWizard
  <2>3. Obeyed(argv, optind, params')
    <3>1. PICK k \in Nat : k = optind - 1
      BY <1>2
    <3>2. optind = k + 1
      BY <1>2, <3>1
    <3>3. argv[k + 1] \in Options
      BY <1>1, <2>1, <3>2, ValueOf
    <3>4. Obeyed(argv, k, params)
      BY <2>1, <3>1 DEF Parsed
    <3> QED BY <1>1, <2>1, <3>2, <3>3, <3>4, GivenObeys
  <2>4. optind' - 1 = optind
    BY <1>2, <2>1
  <2> QED BY <2>1, <2>2, <2>3, <2>4 DEF Parsed, WizardSteps, Configured
<1>4. CASE OptionsDone
  <2>1. /\ pc = "options" /\ pc' = "validate" /\ optind > Len(argv)
        /\ UNCHANGED <<argv, optind, params>>
    BY <1>4 DEF OptionsDone
  <2>2. optind - 1 = Len(argv)
    BY <1>2, <2>1
  <2> QED BY <2>1, <2>2 DEF Parsed, WizardSteps
<1>5. CASE Help
  BY <1>5 DEF Help, Parsed, WizardSteps, Configured
<1>6. CASE RunWizard
  <2>1. /\ optind <= Len(argv) /\ argv[optind].opt = "w" /\ pc' = "badDisk"
        /\ argv' = argv /\ optind' = optind + 1
    BY <1>6 DEF RunWizard
  <2>2. ByWizard'
    <3>1. optind \in 1 .. Len(argv) /\ optind < optind + 1
      BY <1>2, <2>1
    <3> QED BY <2>1, <3>1 DEF ByWizard
  <2> QED BY <2>1, <2>2 DEF Parsed, Configured
<1>7. ASSUME UNCHANGED <<argv, optind>>, pc \in WizardSteps,
             pc' \in WizardSteps \cup {"validate", "failed"}
      PROVE  Parsed'
  BY <1>7 DEF Parsed, ByWizard, WizardSteps
<1>8. ASSUME UNCHANGED <<argv, optind, params>>, pc' = pc \/ pc' = "failed"
      PROVE  Parsed'
  BY <1>8 DEF Parsed, ByWizard, WizardSteps, Configured
<1>9. ASSUME UNCHANGED <<argv, optind, params>>, Configured,
             pc' \in {"devFiles", "failed", "tune", "run"}
      PROVE  Parsed'
  BY <1>9 DEF Parsed, ByWizard, WizardSteps, Configured
<1>10. CASE BadDisk \/ GoodDisk \/ Umount \/ Mount \/ Fuse \/ GetRestoreMode
  BY <1>7, <1>10 DEF BadDisk, GoodDisk, Umount, Mount, Fuse, GetRestoreMode, WizardSteps
<1>11. CASE GetRunMode
  BY <1>7, <1>11 DEF GetRunMode, WizardSteps
<1>12. CASE Ignore \/ Throws \/ Ended \/ UNCHANGED vars
  BY <1>8, <1>12 DEF Ignore, Throws, Ended, vars
<1>13. CASE ValidateParams \/ ValidateDevFiles \/ SetSelfParameters \/ DriveGone
  BY <1>9, <1>13
  DEF ValidateParams, ValidateDevFiles, SetSelfParameters, DriveGone, Configured
<1>14. CASE ApplyConfig
  BY <1>8, <1>14 DEF ApplyConfig
<1>15. CASE \E n \in Names : Unplug(n) \/ \E d \in Disks : Plug(d, n)
  BY <1>8, <1>15 DEF Unplug, Plug
<1> QED BY <1>3, <1>4, <1>5, <1>6, <1>10, <1>11, <1>12, <1>13, <1>14, <1>15 DEF Next, Program

LEMMA ParsedDecides == TypeOK /\ Parsed => OptionsDecide
<1> SUFFICES ASSUME TypeOK, Parsed, Configured, ~ByWizard PROVE OptionsDecide
  BY DEF OptionsDecide
<1>1. Obeyed(argv, Len(argv), params)
  BY DEF Parsed
<1> QED BY <1>1 DEF Obeyed, OptionsDecide, Meant, AsIs, Among, LastGiven

-----------------------------------------------------------------------------
(* What the operator decides                                               *)

WizardRan == Configured /\ ByWizard

\* What the prompts and the disks have decided so far.
Answered ==
    /\ pc \in WizardSteps \ {"badDisk"} => params.diskDev = params.partDev
    /\ pc \in {"fuse", "restoreMode", "runMode"} => params.restoreDir = "mnt"
    /\ pc = "runMode" =>
         /\ params.restore_mode = "RESTORE_ALL" => said.restoreMode = "1"
         /\ params.restore_mode = "RESTORE_ONLY_GOOD" => said.restoreMode \in {"0", "eof"}
    /\ WizardDecides

LEMMA InitAnswered == Init => Answered
BY DEF Init, Answered, WizardDecides, Configured, WizardSteps

\* A step that changes neither parameters nor answers, and skips no question.
LEMMA AnsweredKept ==
    ASSUME Answered, UNCHANGED <<argv, optind, params, said>>,
           \/ pc' \in {pc, "failed", "exited"}
           \/ Configured /\ pc' \in {"devFiles", "tune", "run"}
           \/ pc = "umount" /\ pc' = "mount"
           \/ pc = "goodDisk" /\ pc' = "umount"
    PROVE  Answered'
<1>1. ByWizard' = ByWizard /\ Configured' => Configured
  BY DEF ByWizard, Configured
<1>2. WizardDecides'
  BY <1>1 DEF Answered, WizardDecides, ByWizard, Configured
<1>3. pc' \in WizardSteps \ {"badDisk"} => params.diskDev = params.partDev
  BY DEF Answered, WizardSteps, Configured
<1>4. pc' \in {"fuse", "restoreMode", "runMode"} => pc' = pc
  BY DEF Answered, WizardSteps, Configured
<1> QED BY <1>2, <1>3, <1>4 DEF Answered

LEMMA StepAnswered ==
    ASSUME TypeOK, Parsed, Answered, [Next]_vars
    PROVE  Answered'
<1>1. params \in Params /\ WizardOK
  BY Parts
<1>2. said \in [restoreMode : Saids, runMode : Saids]
  BY <1>1 DEF WizardOK
<1>3. CASE Option
  BY <1>3 DEF Option, Answered, WizardDecides, Configured, WizardSteps
<1>4. CASE OptionsDone
  <2>1. pc' = "validate" /\ ~ByWizard'
    BY <1>4 DEF OptionsDone, Parsed, ByWizard
  <2> QED BY <2>1 DEF Answered, WizardDecides, WizardSteps
<1>5. CASE RunWizard
  BY <1>5 DEF RunWizard, Answered, WizardDecides, Configured, WizardSteps
<1>6. CASE BadDisk
  <2>1. pc' = "goodDisk" /\ params' = [params EXCEPT !.diskDev = <<Head(events).name>>,
                                                     !.partDev = <<Head(events).name>>]
    BY <1>6 DEF BadDisk
  <2>2. params'.diskDev = params'.partDev
    BY <1>1, <2>1 DEF Params
  <2> QED BY <2>1, <2>2 DEF Answered, WizardDecides, Configured
<1>7. CASE Mount
  <2>1. /\ pc = "mount"
        /\ \/ params' = [params EXCEPT !.restoreDir = "mnt"] /\ pc' = "fuse"
           \/ pc' = "failed" /\ UNCHANGED params
    BY <1>7 DEF Mount
  <2>2. params.diskDev = params.partDev
    BY <2>1 DEF Answered, WizardSteps
  <2>3. pc' = "fuse" => params'.restoreDir = "mnt" /\ params'.diskDev = params'.partDev
    BY <1>1, <2>1, <2>2 DEF Params
  <2> QED BY <2>1, <2>3 DEF Answered, WizardDecides, Configured, WizardSteps
<1>8. CASE Fuse
  <2>1. /\ pc = "fuse" /\ pc' = "restoreMode"
        /\ params' = [params EXCEPT !.restore_mode = "RESTORE_UNKNOWN"]
    BY <1>8 DEF Fuse
  <2>2. params.diskDev = params.partDev /\ params.restoreDir = "mnt"
    BY <2>1 DEF Answered, WizardSteps
  <2>3. params'.restoreDir = "mnt" /\ params'.diskDev = params'.partDev
    BY <1>1, <2>1, <2>2 DEF Params
  <2> QED BY <2>1, <2>3 DEF Answered, WizardDecides, Configured
<1>9. CASE GetRestoreMode
  <2>1. PICK a \in Answers :
          /\ said' = [said EXCEPT !.restoreMode = a]
          /\ \/ a = "1" /\ params' = [params EXCEPT !.restore_mode = "RESTORE_ALL",
                                                    !.app_mode = "APP_BAD_MODE"]
             \/ a \in {"0", "eof"} /\ params' = [params EXCEPT
                                                   !.restore_mode = "RESTORE_ONLY_GOOD",
                                                   !.app_mode = "APP_BAD_MODE"]
             \/ a = "other" /\ params' = params
          /\ pc' = IF a = "other" THEN pc ELSE "runMode"
    <3>1. \A a \in Answers : a \in {"0", "1", "other", "eof"}
      BY DEF Answers
    <3> QED BY <1>9, <3>1 DEF GetRestoreMode
  <2>2. pc = "restoreMode" /\ params.diskDev = params.partDev /\ params.restoreDir = "mnt"
    BY <1>9 DEF GetRestoreMode, Answered, WizardSteps
  <2>3. params'.restoreDir = "mnt" /\ params'.diskDev = params'.partDev
    BY <1>1, <2>1, <2>2 DEF Params
  <2>4. said'.restoreMode = a
    BY <1>2, <2>1
  <2>5. pc' = "runMode" =>
         /\ params'.restore_mode = "RESTORE_ALL" => said'.restoreMode = "1"
         /\ params'.restore_mode = "RESTORE_ONLY_GOOD" => said'.restoreMode \in {"0", "eof"}
    BY <1>1, <2>1, <2>2, <2>4 DEF Params
  <2>6. pc' \in {"restoreMode", "runMode"}
    BY <2>1, <2>2
  <2> QED BY <2>3, <2>5, <2>6 DEF Answered, WizardDecides, Configured
<1>10. CASE GetRunMode
  <2> DEFINE Taken(m) ==
          IF m = "other" THEN UNCHANGED <<params, pc>>
          ELSE /\ params' = [params EXCEPT
                     !.app_mode = IF m = "1" THEN "APP_START" ELSE "APP_CONTINUE",
                     !.storageFile = "mnt/restorer.file"]
               /\ pc' = "validate"
  <2>0. PICK a \in Answers :
          said' = [said EXCEPT !.runMode = a] /\ \E m \in Read(a) : Taken(m)
    BY <1>10 DEF GetRunMode
  <2>1. PICK m \in Read(a) : said' = [said EXCEPT !.runMode = a] /\ Taken(m)
    BY <2>0
  <2>2. /\ pc = "runMode" /\ params.diskDev = params.partDev /\ params.restoreDir = "mnt"
        /\ params.restore_mode = "RESTORE_ALL" => said.restoreMode = "1"
        /\ params.restore_mode = "RESTORE_ONLY_GOOD" => said.restoreMode \in {"0", "eof"}
    BY <1>10 DEF GetRunMode, Answered, WizardSteps
  <2>3. said'.restoreMode = said.restoreMode /\ said'.runMode = a
    BY <1>2, <2>1
  <2>4. CASE m = "other"
    <3>1. pc' = "runMode" /\ params' = params
      BY <2>1, <2>2, <2>4
    <3> QED BY <2>2, <2>3, <3>1 DEF Answered, WizardDecides, Configured
  <2>5. CASE m # "other"
    <3>1. /\ params'.diskDev = params'.partDev /\ params'.restoreDir = "mnt"
          /\ params'.storageFile = "mnt/restorer.file"
          /\ params'.restore_mode = params.restore_mode
          /\ params'.app_mode = IF m = "1" THEN "APP_START" ELSE "APP_CONTINUE"
      BY <1>1, <2>1, <2>2, <2>5 DEF Params
    <3>2. /\ m = "1" => a \in {"1", "eof"}
          /\ m # "1" => a \in {"0", "eof"}
      BY <2>5 DEF Read, Answers
    <3>3. pc' = "validate"
      BY <2>1, <2>5
    <3>4. WizardDecides'
      BY <2>2, <2>3, <3>1, <3>2 DEF WizardDecides
    <3> QED BY <3>3, <3>4 DEF Answered, WizardSteps
  <2> QED BY <2>4, <2>5
<1>11. CASE Help \/ Ignore \/ GoodDisk \/ Umount \/ Throws
  <2>1. CASE Help \/ Ignore \/ Throws
    BY <2>1, AnsweredKept DEF Help, Ignore, Throws, wizard
  <2>2. CASE GoodDisk
    <3>1. pc = "goodDisk" /\ pc' = "umount" /\ UNCHANGED <<argv, optind, params, said>>
      BY ONLY <2>2 DEF GoodDisk
    <3> QED BY <3>1, AnsweredKept
  <2>3. CASE Umount
    <3>1. pc = "umount" /\ pc' = "mount" /\ UNCHANGED <<argv, optind, params, said>>
      BY ONLY <2>3 DEF Umount
    <3> QED BY <3>1, AnsweredKept
  <2> QED BY <1>11, <2>1, <2>2, <2>3
<1>12. CASE Ended \/ UNCHANGED vars
  BY <1>12, AnsweredKept DEF Ended, vars
<1>13. CASE ValidateParams \/ ValidateDevFiles
  BY <1>13, AnsweredKept DEF ValidateParams, ValidateDevFiles, wizard, Configured
<1>14. CASE ApplyConfig \/ SetSelfParameters \/ DriveGone
  BY <1>14, AnsweredKept DEF ApplyConfig, SetSelfParameters, DriveGone, wizard, Configured
<1>15. CASE \E n \in Names : Unplug(n) \/ \E d \in Disks : Plug(d, n)
  BY <1>15, AnsweredKept DEF Unplug, Plug, wizard
<1> QED BY <1>3, <1>4, <1>5, <1>6, <1>7, <1>8, <1>9, <1>10, <1>11, <1>12, <1>13, <1>14, <1>15
        DEF Next, Program

\* The parameters a run gets are what was asked for: on the command line, each
\* option once or many times and in any order, or of the operator of the wizard,
\* and a status file is begun anew only on the answer 1 or when the input ended
\* (ArgsParser::_parseArgs, Wizard::run, Application::init).
THEOREM ParametersAreDecided == Spec => []ParametersDecided
<1> DEFINE I == TypeOK /\ Parsed /\ Answered
<1>1. Init => I
  BY InitTypes, InitParsed, InitAnswered
<1>2. I /\ [Next]_vars => I'
  BY StepTypes, StepParsed, StepAnswered
<1>3. I => ParametersDecided
  BY ParsedDecides DEF ParametersDecided, Answered
<1> QED BY <1>1, <1>2, <1>3, PTL DEF Spec

-----------------------------------------------------------------------------
(* Where the disks are                                                     *)

\* A disk is still behind the name under which it arrived, or has left.
Stays(n, d) == attached[n] = d \/ Left(d)

AfterBad == pc \in WizardSteps \ {"badDisk"} \/ WizardRan
AfterGood == pc \in {"umount", "mount", "fuse", "restoreMode", "runMode"} \/ WizardRan
AfterMount == pc \in {"fuse", "restoreMode", "runMode"} \/ WizardRan

MountedGood == Left(good) \/ (mounts # <<>> /\ Last(mounts) = good)

\* What was said of a disk when it arrived stays true as long as it stays; so
\* the names the wizard took mean the disks it took them for.
Placed ==
    /\ \A j \in DOMAIN events :
         Accepts(events[j]) => Stays(events[j].name, events[j].disk)
    /\ AfterBad => /\ bad \in Disks /\ params.partDev # <<>>
                   /\ Stays(params.partDev[1], bad)
    /\ AfterGood => good \in Disks
    /\ pc \in {"umount", "mount", "fuse"} => Stays(hdd, good)
    /\ AfterMount => MountedGood

LEMMA NameOfEvent ==
    ASSUME NEW n \in Names, NEW d \in Disks, NEW k \in DOMAIN EventsOf("add", n, d),
           Accepts(EventsOf("add", n, d)[k])
    PROVE  EventsOf("add", n, d)[k].name = n
<1> DEFINE Of(type) == [action |-> "add", type |-> type, name |-> n, disk |-> d]
<1>1. \A type : Of(type).name = n
  OBVIOUS
<1>2. EventsOf("add", n, d)[1] = Of("disk")
  BY DEF EventsOf
<1>3. k = 1
  BY EventsType
<1> QED BY <1>1, <1>2, <1>3

LEMMA InitPlaced == Init => Placed
<1> SUFFICES ASSUME Init PROVE Placed
  OBVIOUS
<1>1. pc = "options" /\ DOMAIN events = {}
  <2>1. pc = "options" /\ events = <<>>
    BY DEF Init
  <2> QED BY <2>1
<1>2. ~AfterBad /\ ~AfterGood /\ ~AfterMount /\ pc \notin {"umount", "mount", "fuse"}
  BY <1>1 DEF AfterBad, AfterGood, AfterMount, WizardRan, Configured, WizardSteps
<1> QED BY <1>1, <1>2 DEF Placed

\* A step that moves no disk and takes no event.
LEMMA PlacedKept ==
    ASSUME Placed, Parsed, UNCHANGED <<events, attached, unplugged, bad, good, hdd>>,
           AfterBad' => AfterBad /\ params'.partDev = params.partDev,
           AfterGood' => AfterGood,
           pc' \in {"umount", "mount", "fuse"} => pc \in {"umount", "mount", "fuse"},
           AfterMount' => MountedGood'
    PROVE  Placed'
<1>1. \A n, d : (Stays(n, d))' <=> Stays(n, d)
  BY DEF Stays, Left
<1>2. (\A j \in DOMAIN events : Accepts(events[j]) => Stays(events[j].name, events[j].disk))'
  BY <1>1 DEF Placed, Accepts
<1>3. AfterBad' => /\ bad' \in Disks /\ params'.partDev # <<>>
                   /\ attached[params'.partDev[1]] = bad \/ Left(bad)
  BY DEF Placed, Stays
<1>4. (AfterBad => Stays(params.partDev[1], bad))'
  BY <1>3 DEF Stays, Left
<1>5. (AfterGood => good \in Disks)' /\ (pc \in {"umount", "mount", "fuse"} => Stays(hdd, good))'
  BY DEF Placed, Stays, Left
<1> QED BY <1>2, <1>3, <1>4, <1>5 DEF Placed

\* What stands on the second disk's mount point does not change with its place.
LEMMA MountedKept ==
    MountedGood /\ UNCHANGED <<mounts, good, unplugged>> => MountedGood'
BY DEF MountedGood, Left

\* A disk stays where it is known to be, or leaves.
LEMMA MoveStays ==
    ASSUME WorldOK, NEW m \in Names, Unplug(m) \/ \E x \in Disks : Plug(x, m),
           NEW n, NEW d \in Disks, Stays(n, d), n \in Names
    PROVE  attached'[n] = d \/ LeftThen(d)
<1>1. attached \in [Names -> Disks \cup {NoDisk}]
  BY DEF WorldOK, Attachable
<1>2. Left(d) => LeftThen(d)
  BY DEF Unplug, Plug, Left, LeftThen
<1>3. CASE attached[n] = d /\ Unplug(m)
  <2>1. attached' = [attached EXCEPT ![m] = NoDisk] /\ <<attached[m], m>> \in unplugged'
    BY <1>3 DEF Unplug
  <2>2. CASE n = m
    BY <1>3, <2>1, <2>2 DEF LeftThen
  <2>3. CASE n # m
    BY <1>1, <1>3, <2>1, <2>3
  <2> QED BY <2>2, <2>3
<1>4. ASSUME attached[n] = d, NEW x \in Disks, Plug(x, m) PROVE attached'[n] = d
  <2>1. attached[m] = NoDisk /\ attached' = [attached EXCEPT ![m] = x]
    BY <1>4 DEF Plug
  <2>2. n # m
    BY <1>4, <2>1, DisksAssumption
  <2> QED BY <1>1, <1>4, <2>1, <2>2
<1> QED BY <1>2, <1>3, <1>4 DEF Stays

LEMMA MovePlaced ==
    ASSUME TypeOK, Placed, NEW m \in Names, Unplug(m) \/ \E x \in Disks : Plug(x, m)
    PROVE  Placed'
<1>1. WorldOK /\ WizardOK /\ params \in Params
  BY Parts
<1>2. UNCHANGED <<argv, optind, pc, params, hdd, mounts, bad, good>>
  BY DEF Unplug, Plug, wizard
<1>3. \A d : Left(d) => LeftThen(d)
  BY DEF Unplug, Plug, Left, LeftThen
<1>4. ASSUME NEW j \in DOMAIN events', Accepts(events'[j])
      PROVE  attached'[events'[j].name] = events'[j].disk \/ LeftThen(events'[j].disk)
  <2>1. events \in Seq(Event)
    BY <1>1 DEF WorldOK
  <2>2. ASSUME j \in DOMAIN events, events'[j] = events[j]
        PROVE  attached'[events'[j].name] = events'[j].disk \/ LeftThen(events'[j].disk)
    <3>1. events[j] \in Event
      BY <2>1, <2>2, ElementOfSeq
    <3>2. events[j].name \in Names /\ events[j].disk \in Disks
      BY <3>1 DEF Event
    <3>3. Stays(events[j].name, events[j].disk)
      BY <1>4, <2>2 DEF Placed
    <3> QED BY <1>1, <2>2, <3>2, <3>3, MoveStays
  <2>3. CASE Unplug(m)
    <3>1. attached[m] \in Disks /\ Heard(EventsOf("remove", m, attached[m]))
      BY <1>1, <2>3 DEF Unplug, WorldOK, Attachable
    <3>2. j \in DOMAIN events /\ events'[j] = events[j]
      BY <1>4, <2>1, <3>1, EventsType, HeardBehind
    <3> QED BY <2>2, <3>2
  <2>4. ASSUME NEW x \in Disks, Plug(x, m)
        PROVE  attached'[events'[j].name] = events'[j].disk \/ LeftThen(events'[j].disk)
    <3>1. Heard(EventsOf("add", m, x)) /\ attached' = [attached EXCEPT ![m] = x]
      BY <2>4 DEF Plug
    <3>2. \/ j \in DOMAIN events /\ events'[j] = events[j]
          \/ \E k \in DOMAIN EventsOf("add", m, x) : events'[j] = EventsOf("add", m, x)[k]
      BY <1>4, <2>1, <3>1, EventsType, HeardBehind
    <3>3. CASE \E k \in DOMAIN EventsOf("add", m, x) : events'[j] = EventsOf("add", m, x)[k]
      <4>1. events'[j].name = m /\ events'[j].disk = x
        BY <1>4, <3>3, NameOfEvent, EventsType
      <4>2. attached'[m] = x
        BY <1>1, <3>1 DEF WorldOK, Attachable
      <4> QED BY <4>1, <4>2
    <3> QED BY <2>2, <3>2, <3>3
  <2> QED BY <2>3, <2>4
<1>5. AfterBad => /\ bad \in Disks /\ params.partDev # <<>>
                  /\ attached'[params.partDev[1]] = bad \/ LeftThen(bad)
  <2> SUFFICES ASSUME AfterBad
               PROVE  /\ bad \in Disks /\ params.partDev # <<>>
                      /\ attached'[params.partDev[1]] = bad \/ LeftThen(bad)
    OBVIOUS
  <2>1. bad \in Disks /\ params.partDev # <<>> /\ Stays(params.partDev[1], bad)
    BY DEF Placed
  <2>2. params.partDev[1] \in Names
    <3>1. params.partDev \in Devices
      BY <1>1 DEF Params
    <3> QED BY <2>1, <3>1 DEF Devices
  <2> QED BY <1>1, <2>1, <2>2, MoveStays
<1>6. AfterGood => good \in Disks
  BY DEF Placed
<1>7. pc \in {"umount", "mount", "fuse"} => attached'[hdd] = good \/ LeftThen(good)
  <2> SUFFICES ASSUME pc \in {"umount", "mount", "fuse"}
               PROVE  attached'[hdd] = good \/ LeftThen(good)
    OBVIOUS
  <2>1. good \in Disks /\ Stays(hdd, good) /\ hdd \in Names
    BY <1>1, <1>6 DEF Placed, AfterGood, WizardOK
  <2> QED BY <1>1, <2>1, MoveStays
<1>8. AfterMount => LeftThen(good) \/ (mounts # <<>> /\ Last(mounts) = good)
  BY <1>3 DEF Placed, MountedGood
<1>9. /\ AfterBad' <=> AfterBad
      /\ AfterGood' <=> AfterGood
      /\ AfterMount' <=> AfterMount
  BY <1>2 DEF AfterBad, AfterGood, AfterMount, WizardRan, Configured, ByWizard
<1> QED BY <1>2, <1>4, <1>5, <1>6, <1>7, <1>8, <1>9
        DEF Placed, Stays, Left, LeftThen, MountedGood, Accepts

\* The event that is taken, and those left behind it.
LEMMA TakenPlaced ==
    ASSUME WorldOK, Placed, events # <<>>, events' = Tail(events),
           UNCHANGED <<attached, unplugged>>
    PROVE  LET e == Head(events) IN
           /\ e.name \in Names /\ e.disk \in Disks
           /\ Accepts(e) => Stays(e.name, e.disk)
           /\ \A j \in DOMAIN events' :
                Accepts(events'[j]) => Stays(events'[j].name, events'[j].disk)
           /\ \A n, d : (Stays(n, d))' <=> Stays(n, d)
<1>1. events \in Seq(Event)
  BY DEF WorldOK
<1>2. /\ Head(events) = events[1] /\ 1 \in DOMAIN events /\ events[1] \in Event
      /\ \A j \in DOMAIN events' : j + 1 \in DOMAIN events /\ events'[j] = events[j + 1]
  BY <1>1, Received
<1>3. Head(events).name \in Names /\ Head(events).disk \in Disks
  BY <1>2 DEF Event
<1>4. \A j \in DOMAIN events :
        Accepts(events[j]) => Stays(events[j].name, events[j].disk)
  BY DEF Placed
<1>5. \A n, d : (Stays(n, d))' <=> Stays(n, d)
  BY DEF Stays, Left
<1> QED BY <1>2, <1>3, <1>4, <1>5

LEMMA EventPlaced ==
    ASSUME TypeOK, Placed, Ignore \/ BadDisk \/ GoodDisk
    PROVE  Placed'
<1> DEFINE e == Head(events)
<1>1. WorldOK /\ params \in Params
  BY Parts
<1>2. events # <<>> /\ events' = Tail(events) /\ UNCHANGED <<attached, unplugged, mounts, argv, optind>>
  BY DEF Ignore, BadDisk, GoodDisk, wizard
<1>3. /\ e.name \in Names /\ e.disk \in Disks
      /\ Accepts(e) => Stays(e.name, e.disk)
      /\ \A j \in DOMAIN events' :
           Accepts(events'[j]) => Stays(events'[j].name, events'[j].disk)
      /\ \A n, d : (Stays(n, d))' <=> Stays(n, d)
  BY <1>1, <1>2, TakenPlaced
<1>4. (\A j \in DOMAIN events : Accepts(events[j]) => Stays(events[j].name, events[j].disk))'
  BY <1>3 DEF Accepts
<1>5. CASE Ignore
  <2>1. pc \in {"badDisk", "goodDisk"} /\ UNCHANGED <<pc, params, bad, good, hdd>>
    BY <1>5 DEF Ignore, wizard
  <2>2. /\ AfterBad' <=> AfterBad
        /\ ~AfterGood' /\ ~AfterMount'
    BY <1>2, <2>1 DEF AfterBad, AfterGood, AfterMount, WizardRan, Configured, ByWizard
  <2> QED BY <1>3, <1>4, <2>1, <2>2 DEF Placed
<1>6. CASE BadDisk
  <2>1. /\ pc' = "goodDisk" /\ Accepts(e) /\ bad' = e.disk
        /\ params' = [params EXCEPT !.diskDev = <<e.name>>, !.partDev = <<e.name>>]
    BY <1>6 DEF BadDisk
  <2>2. ~AfterGood' /\ ~AfterMount'
    BY <2>1 DEF AfterGood, AfterMount, WizardRan, Configured
  <2>3. params'.partDev = <<e.name>>
    BY <1>1, <2>1 DEF Params
  <2>4. params'.partDev # <<>> /\ params'.partDev[1] = e.name
    BY <2>3
  <2>5. attached'[params'.partDev[1]] = bad' \/ LeftThen(bad')
    BY <1>2, <1>3, <2>1, <2>4 DEF Stays, Left, LeftThen
  <2>6. (AfterBad => /\ bad \in Disks /\ params.partDev # <<>>
                     /\ Stays(params.partDev[1], bad))'
    BY <1>3, <2>1, <2>4, <2>5 DEF Stays, Left, LeftThen
  <2> QED BY <1>4, <2>1, <2>2, <2>6 DEF Placed
<1>7. CASE GoodDisk
  <2>1. /\ pc = "goodDisk" /\ pc' = "umount" /\ Accepts(e)
        /\ hdd' = e.name /\ good' = e.disk /\ UNCHANGED <<params, bad>>
    BY <1>7 DEF GoodDisk
  <2>2. AfterBad /\ ~AfterMount'
    BY <2>1 DEF AfterBad, AfterMount, WizardRan, Configured, WizardSteps
  <2>3. (Stays(params.partDev[1], bad))' /\ bad' \in Disks /\ params'.partDev # <<>>
    <3>1. (Stays(params.partDev[1], bad))' <=> Stays(params.partDev[1], bad)
      BY <1>2, <2>1 DEF Stays, Left
    <3> QED BY <2>1, <2>2, <3>1 DEF Placed
  <2>4. (Stays(hdd, good))'
    BY <1>2, <1>3, <2>1 DEF Stays, Left
  <2> QED BY <1>3, <1>4, <2>1, <2>2, <2>3, <2>4 DEF Placed
<1> QED BY <1>5, <1>6, <1>7

\* What is mounted last is the second disk's, unless it left.
LEMMA MountPlaced ==
    ASSUME TypeOK, Placed, Parsed, Mount \/ Fuse
    PROVE  Placed'
<1>1. WizardOK /\ params \in Params
  BY Parts
<1>2. /\ UNCHANGED <<argv, optind, hdd, bad, good, events, attached, unplugged>>
      /\ pc \in {"mount", "fuse"} /\ pc' \in {"fuse", "restoreMode", "failed"}
  BY DEF Mount, Fuse, world
<1>3. params'.partDev = params.partDev
  <2>1. \/ UNCHANGED params \/ params' = [params EXCEPT !.restoreDir = "mnt"]
        \/ params' = [params EXCEPT !.restore_mode = "RESTORE_UNKNOWN"]
    BY DEF Mount, Fuse
  <2> QED BY <1>1, <2>1 DEF Params
<1>4. \A d \in Disks : Append(mounts, d) # <<>> /\ Last(Append(mounts, d)) = d
  <2> SUFFICES ASSUME NEW d \in Disks
               PROVE  Append(mounts, d) # <<>> /\ Last(Append(mounts, d)) = d
    OBVIOUS
  <2> DEFINE s == Append(mounts, d)
  <2>1. mounts \in Seq(Disks) /\ Len(mounts) \in Nat
    BY <1>1, LenProperties DEF WizardOK
  <2>2. Len(s) = Len(mounts) + 1 /\ s[Len(mounts) + 1] = d
    BY <2>1, AppendProperties
  <2>3. Len(s) # 0 /\ s[Len(s)] = d
    BY <2>1, <2>2
  <2>4. s # <<>>
    BY <2>3
  <2> QED BY <2>3, <2>4 DEF Last
<1>5. good \in Disks /\ Stays(hdd, good)
  BY <1>2 DEF Placed, AfterGood
<1>6. AfterMount' => MountedGood'
  <2>1. CASE mounts' = Append(mounts, attached[hdd])
    <3>1. CASE Left(good)
      BY <1>2, <3>1 DEF MountedGood, Left
    <3>2. CASE attached[hdd] = good
      <4>1. mounts' # <<>> /\ Last(mounts') = good
        BY <1>4, <1>5, <2>1, <3>2
      <4> QED BY <1>2, <4>1 DEF MountedGood
    <3> QED BY <1>5, <3>1, <3>2 DEF Stays
  <2>2. CASE Fuse /\ mounts' = mounts
    <3>1. MountedGood
      BY <2>2 DEF Fuse, Placed, AfterMount
    <3> QED BY <1>2, <2>2, <3>1, MountedKept
  <2>3. CASE pc' = "failed"
    BY <2>3 DEF AfterMount, WizardRan, Configured
  <2> QED BY <2>1, <2>2, <2>3 DEF Mount, Fuse
<1>7. AfterBad /\ AfterGood
  BY <1>2 DEF AfterBad, AfterGood, WizardSteps
<1> QED BY <1>2, <1>3, <1>6, <1>7, PlacedKept

LEMMA StepPlaced ==
    ASSUME TypeOK, Inv, Parsed, Placed, [Next]_vars
    PROVE  Placed'
<1>1. params \in Params
  BY Parts
<1>2. ASSUME UNCHANGED <<events, attached, unplugged, bad, good, hdd>>,
             pc' \in {"options", "exited", "failed", "badDisk"}
      PROVE  Placed'
  <2>1. ~AfterBad' /\ ~AfterGood' /\ ~AfterMount'
    BY <1>2 DEF AfterBad, AfterGood, AfterMount, WizardRan, Configured, WizardSteps
  <2> QED BY <1>2, <2>1, PlacedKept
<1>3. ASSUME UNCHANGED <<events, attached, unplugged, bad, good, hdd, argv, optind, mounts>>,
             params'.partDev = params.partDev,
             \/ pc' = pc
             \/ pc = "restoreMode" /\ pc' = "runMode"
             \/ pc = "runMode" /\ pc' = "validate"
             \/ Configured /\ pc' \in {"devFiles", "tune", "run"}
      PROVE  Placed'
  <2>1. (AfterBad' => AfterBad) /\ (AfterGood' => AfterGood) /\ (AfterMount' => AfterMount)
        /\ (pc' \in {"umount", "mount", "fuse"} => pc' = pc)
    BY <1>3 DEF AfterBad, AfterGood, AfterMount, WizardRan, Configured, ByWizard, WizardSteps
  <2>2. AfterMount' => MountedGood'
    BY <1>3, <2>1, MountedKept DEF Placed
  <2> QED BY <1>3, <2>1, <2>2, PlacedKept
<1>4. CASE Option \/ Help
  BY <1>2, <1>4 DEF Option, Help, wizard, world
<1>5. CASE OptionsDone
  <2>1. /\ pc = "options" /\ pc' = "validate"
        /\ UNCHANGED <<argv, optind, events, attached, unplugged, bad, good, hdd>>
    BY <1>5 DEF OptionsDone, wizard, world
  <2>2. ~ByWizard'
    BY <2>1 DEF Parsed, ByWizard
  <2>3. ~AfterBad' /\ ~AfterGood' /\ ~AfterMount'
    BY <2>1, <2>2 DEF AfterBad, AfterGood, AfterMount, WizardRan, WizardSteps
  <2> QED BY <2>1, <2>3, PlacedKept
<1>6. CASE RunWizard
  <2>1. pc = "options" /\ pc' = "badDisk" /\ UNCHANGED events
    BY <1>6 DEF RunWizard
  <2>2. DOMAIN events' = {}
    <3>1. events' = <<>>
      BY <2>1 DEF Inv, InOrder
    <3> QED BY <3>1
  <2>3. ~AfterBad' /\ ~AfterGood' /\ ~AfterMount'
    BY <2>1 DEF AfterBad, AfterGood, AfterMount, WizardRan, Configured, WizardSteps
  <2> QED BY <2>1, <2>2, <2>3 DEF Placed
<1>7. CASE Ignore \/ BadDisk \/ GoodDisk
  BY <1>7, EventPlaced
<1>8. CASE Umount
  <2>1. /\ pc = "umount" /\ pc' = "mount"
        /\ UNCHANGED <<params, hdd, bad, good, events, attached, unplugged>>
    BY ONLY <1>8 DEF Umount, world
  <2>2. ~AfterMount' /\ AfterBad /\ AfterGood
    BY <2>1 DEF AfterBad, AfterGood, AfterMount, WizardRan, Configured, WizardSteps
  <2> QED BY <2>1, <2>2, PlacedKept
<1>9. CASE Mount \/ Fuse
  BY <1>9, MountPlaced
<1>10. CASE GetRestoreMode
  <2>1. \/ params' = [params EXCEPT !.restore_mode = "RESTORE_ALL", !.app_mode = "APP_BAD_MODE"]
        \/ params' = [params EXCEPT !.restore_mode = "RESTORE_ONLY_GOOD", !.app_mode = "APP_BAD_MODE"]
        \/ params' = params
    BY <1>10 DEF GetRestoreMode
  <2>2. params'.partDev = params.partDev
    BY <1>1, <2>1 DEF Params
  <2>3. /\ pc = "restoreMode" /\ pc' \in {"restoreMode", "runMode"}
        /\ UNCHANGED <<events, attached, unplugged, bad, good, hdd, argv, optind, mounts>>
    BY <1>10 DEF GetRestoreMode, world
  <2> QED BY <1>3, <2>2, <2>3
<1>11. CASE GetRunMode
  <2>1. \/ /\ \E v : params' = [params EXCEPT !.app_mode = v, !.storageFile = "mnt/restorer.file"]
           /\ pc' = "validate"
        \/ UNCHANGED <<params, pc>>
    BY <1>11 DEF GetRunMode
  <2>2. params'.partDev = params.partDev
    BY <1>1, <2>1 DEF Params
  <2>3. /\ pc = "runMode"
        /\ UNCHANGED <<events, attached, unplugged, bad, good, hdd, argv, optind, mounts>>
    BY <1>11 DEF GetRunMode, world
  <2> QED BY <1>3, <2>1, <2>2, <2>3
<1>12. CASE ValidateParams \/ ValidateDevFiles \/ SetSelfParameters \/ DriveGone
  <2>1. /\ Configured /\ pc' \in {"failed", "devFiles", "tune", "run"}
        /\ UNCHANGED <<events, attached, unplugged, bad, good, hdd, argv, optind, mounts, params>>
    BY <1>12
    DEF ValidateParams, ValidateDevFiles, SetSelfParameters, DriveGone, Configured, wizard, world
  <2> QED BY <1>2, <1>3, <2>1
<1>13. CASE ApplyConfig
  BY <1>3, <1>13 DEF ApplyConfig, wizard
<1>14. CASE Throws
  BY <1>2, <1>14 DEF Throws, wizard, world
<1>15. CASE Ended \/ UNCHANGED vars
  BY <1>3, <1>15 DEF Ended, vars
<1>16. CASE \E n \in Names : Unplug(n) \/ \E d \in Disks : Plug(d, n)
  BY <1>16, MovePlaced
<1> QED BY <1>4, <1>5, <1>6, <1>7, <1>8, <1>9, <1>10, <1>11, <1>12, <1>13, <1>14, <1>15, <1>16
        DEF Next, Program

LEMMA PlacedRuns == Placed => RunsBetween
BY DEF Placed, RunsBetween, AfterBad, AfterMount, WizardRan, Configured, Stays, MountedGood

-----------------------------------------------------------------------------
(* The setup of the drive                                                  *)

SettingsTo(k) == {Settings[j] : j \in 1 .. k}

\* The settings made are those of the disk behind the name, and of no other,
\* unless that name was vacated.
SetUp(n) ==
    \/ Vacated(n)
    \/ /\ attached[n] \in Disks
       /\ queue[attached[n]] = SettingsTo(written)
       /\ \A d \in Disks : d # attached[n] => queue[d] = {}

Tuning ==
    /\ pc \notin {"tune", "run", "failed"} => written = 0
    /\ written = 0 => \A d \in Disks : queue[d] = {}
    /\ written > 0 => \E n \in Names : params.diskDev = <<n>> /\ SetUp(n)
    /\ pc = "run" => written \in {0, Len(Settings)}

LEMMA SettingsAre ==
    /\ Len(Settings) = 4 /\ SettingsTo(Len(Settings)) = ToSet(Settings)
    /\ SettingsTo(0) = {}
    /\ \A k \in 0 .. 3 : SettingsTo(k + 1) = SettingsTo(k) \cup {Settings[k + 1]}
<1>1. Len(Settings) = 4
  BY DEF Settings
<1>2. SettingsTo(Len(Settings)) = ToSet(Settings)
  <2>1. DOMAIN Settings = 1 .. 4
    BY DEF Settings
  <2> QED BY <1>1, <2>1 DEF ToSet, SettingsTo
<1>3. \A k \in 0 .. 3 : SettingsTo(k + 1) = SettingsTo(k) \cup {Settings[k + 1]}
  BY DEF SettingsTo
<1> QED BY <1>1, <1>2, <1>3 DEF SettingsTo

LEMMA InitTuning == Init => Tuning
<1> SUFFICES ASSUME Init PROVE Tuning
  OBVIOUS
<1>1. pc = "options" /\ written = 0 /\ queue = [d \in Disks |-> {}]
  BY DEF Init
<1> QED BY ONLY <1>1 DEF Tuning

\* A step that has to do with no setting.
LEMMA TuningKept ==
    ASSUME Tuning, UNCHANGED <<attached, queue, written>>,
           unplugged' = unplugged \/ written = 0,
           params'.diskDev = params.diskDev \/ written = 0,
           pc \in {"tune", "run", "failed"} => pc' \in {"tune", "run", "failed"},
           pc' = "run" => pc = "run" \/ written \in {0, Len(Settings)}
    PROVE  Tuning'
<1>1. CASE written = 0
  BY <1>1 DEF Tuning
<1>2. CASE written # 0
  BY <1>2 DEF Tuning, SetUp, Vacated
<1> QED BY <1>1, <1>2

LEMMA ApplyTuning ==
    ASSUME TypeOK, Tuning, ApplyConfig
    PROVE  Tuning'
<1>1. params \in Params /\ WorldOK /\ RestOK
  BY Parts
<1>2. /\ pc = "tune" /\ written < Len(Settings) /\ DiskExists(params.diskDev)
      /\ queue' = [queue EXCEPT ![attached[params.diskDev[1]]] = @ \cup {Settings[written + 1]}]
      /\ written' = written + 1 /\ UNCHANGED <<pc, params, attached, unplugged>>
  BY DEF ApplyConfig
<1>3. PICK n \in Names : params.diskDev = <<n>> /\ attached[n] \in Disks
  <2>1. params.diskDev \in Devices
    BY <1>1 DEF Params
  <2> QED BY <1>1, <1>2, <2>1, DiskOf
<1>4. written \in 0 .. 3 /\ written' > 0 /\ written' # 0
  BY <1>1, <1>2, SettingsAre DEF RestOK
<1> DEFINE d == attached[n]
           v == Settings[written + 1]
<1>5. queue' = [queue EXCEPT ![d] = queue[d] \cup {v}]
  <2>1. params.diskDev[1] = n
    BY <1>3
  <2> QED BY <1>2, <2>1
<1>6. queue \in [Disks -> SUBSET ToSet(Settings)]
  BY <1>1 DEF WorldOK
<1>7. (SetUp(n))'
  <2>1. CASE Vacated(n)
    BY <1>2, <2>1 DEF SetUp, Vacated
  <2>2. CASE queue[d] = SettingsTo(written) /\ \A x \in Disks : x # d => queue[x] = {}
    <3>1. queue'[d] = SettingsTo(written) \cup {v}
      BY <1>3, <1>5, <1>6, <2>2
    <3>2. queue'[d] = SettingsTo(written')
      BY <1>2, <1>4, <3>1, SettingsAre
    <3>3. \A x \in Disks : x # d => queue'[x] = {}
      BY <1>3, <1>5, <1>6, <2>2
    <3>4. attached'[n] = d /\ d \in Disks /\ (SettingsTo(written))' = SettingsTo(written')
      BY <1>2, <1>3 DEF SettingsTo
    <3> HIDE DEF d
    <3> QED BY <3>2, <3>3, <3>4 DEF SetUp
  <2>3. CASE written = 0
    BY <1>3, <2>2, <2>3, SettingsAre DEF Tuning
  <2>4. CASE written > 0
    <3>1. SetUp(n)
      BY <1>3, <2>4 DEF Tuning
    <3> QED BY <2>1, <2>2, <3>1 DEF SetUp
  <2> QED BY <1>4, <2>3, <2>4
<1>8. params'.diskDev = <<n>>
  BY <1>2, <1>3
<1> QED BY <1>2, <1>4, <1>7, <1>8 DEF Tuning

\* A disk that comes or goes: the settings are where they were, or the name was
\* vacated.
LEMMA MoveTuning ==
    ASSUME TypeOK, Tuning, NEW m \in Names, Unplug(m) \/ \E x \in Disks : Plug(x, m)
    PROVE  Tuning'
<1>1. WorldOK /\ RestOK
  BY Parts
<1>2. UNCHANGED <<pc, params, written>>
  BY DEF Unplug, Plug
<1>3. /\ queue \in [Disks -> SUBSET ToSet(Settings)]
      /\ attached \in [Names -> Disks \cup {NoDisk}]
  BY <1>1 DEF WorldOK, Attachable
<1>4. queue' = queue \/ \E x \in Disks : queue' = [queue EXCEPT ![x] = {}]
  BY DEF Unplug, Plug
<1>5. ASSUME NEW n \in Names, SetUp(n) PROVE (SetUp(n))'
  <2>1. CASE Vacated(n)
    BY <2>1 DEF Unplug, Plug, SetUp, Vacated
  <2>2. CASE Unplug(m) /\ m = n /\ ~Vacated(n)
    <3>1. <<attached[n], n>> \in unplugged' /\ attached[n] \in Disks
      BY <1>5, <2>2 DEF Unplug, SetUp
    <3> QED BY <3>1 DEF SetUp, Vacated
  <2>3. CASE Unplug(m) /\ m # n /\ ~Vacated(n)
    <3>1. attached'[n] = attached[n] /\ queue' = queue
      BY <1>3, <2>3 DEF Unplug
    <3> QED BY <1>2, <1>5, <2>3, <3>1 DEF SetUp, SettingsTo
  <2>4. ASSUME NEW x \in Disks, Plug(x, m), ~Vacated(n) PROVE (SetUp(n))'
    <3>1. /\ attached[m] = NoDisk /\ attached[n] # x
          /\ attached' = [attached EXCEPT ![m] = x] /\ queue' = [queue EXCEPT ![x] = {}]
      BY <2>4 DEF Plug
    <3>2. attached[n] \in Disks
      BY <1>5, <2>4 DEF SetUp
    <3>3. attached'[n] = attached[n] /\ queue'[attached[n]] = queue[attached[n]]
      BY <1>3, <3>1, <3>2, DisksAssumption
    <3>4. \A d \in Disks : d # attached[n] => queue'[d] = {}
      BY <1>3, <1>5, <2>4, <3>1 DEF SetUp
    <3>5. queue[attached[n]] = SettingsTo(written) /\ (SettingsTo(written))' = SettingsTo(written)
      BY <1>2, <1>5, <2>4 DEF SetUp, SettingsTo
    <3> QED BY <3>2, <3>3, <3>4, <3>5 DEF SetUp
  <2> QED BY <2>1, <2>2, <2>3, <2>4
<1>6. (\A d \in Disks : queue[d] = {}) => \A d \in Disks : queue'[d] = {}
  BY <1>3, <1>4
<1> QED BY <1>2, <1>5, <1>6 DEF Tuning

LEMMA StepTuning ==
    ASSUME TypeOK, Tuning, [Next]_vars
    PROVE  Tuning'
<1>1. params \in Params
  BY Parts
<1>2. CASE Option \/ Help \/ OptionsDone \/ RunWizard
  <2>1. /\ pc = "options" /\ UNCHANGED <<attached, queue, written>>
        /\ pc' \in {"options", "exited", "validate", "badDisk"}
    BY <1>2 DEF Option, Help, OptionsDone, RunWizard, world
  <2>2. written = 0
    BY <2>1 DEF Tuning
  <2> QED BY <2>1, <2>2, TuningKept
<1>3. CASE Ignore \/ BadDisk \/ GoodDisk
  <2>1. /\ pc \in {"badDisk", "goodDisk"} /\ UNCHANGED <<attached, queue, written, unplugged>>
        /\ pc' \in {"badDisk", "goodDisk", "umount"}
    BY <1>3 DEF Ignore, BadDisk, GoodDisk
  <2>2. written = 0
    BY <2>1 DEF Tuning
  <2> QED BY <2>1, <2>2, TuningKept
<1>4. CASE Umount \/ Mount \/ Fuse \/ GetRestoreMode \/ GetRunMode
  <2>1. /\ pc \in WizardSteps /\ UNCHANGED <<attached, queue, written, unplugged>>
        /\ pc' \in WizardSteps \cup {"validate", "failed"}
    <3>1. CASE Umount
      BY ONLY <3>1 DEF Umount, world, WizardSteps
    <3>2. CASE Mount \/ Fuse
      BY <3>2 DEF Mount, Fuse, world, WizardSteps
    <3>3. CASE GetRestoreMode
      BY <3>3 DEF GetRestoreMode, world, WizardSteps
    <3>4. CASE GetRunMode
      BY <3>4 DEF GetRunMode, world, WizardSteps
    <3> QED BY <1>4, <3>1, <3>2, <3>3, <3>4
  <2>2. written = 0
    BY <2>1 DEF Tuning, WizardSteps
  <2> QED BY <2>1, <2>2, TuningKept DEF WizardSteps
<1>5. CASE ValidateParams \/ ValidateDevFiles
  <2>1. /\ pc \in {"validate", "devFiles"} /\ UNCHANGED <<attached, queue, written, unplugged>>
        /\ pc' \in {"devFiles", "failed", "tune", "run"}
    BY <1>5 DEF ValidateParams, ValidateDevFiles, world
  <2>2. written = 0
    BY <2>1 DEF Tuning
  <2> QED BY <2>1, <2>2, TuningKept
<1>6. CASE ApplyConfig
  BY <1>6, ApplyTuning
<1>7. CASE SetSelfParameters \/ DriveGone \/ Throws
  <2>1. /\ UNCHANGED <<attached, queue, written, unplugged, params>>
        /\ pc' \in {"failed", "run"} /\ (pc' = "run" => written = Len(Settings))
    BY <1>7 DEF SetSelfParameters, DriveGone, Throws, world
  <2> QED BY <2>1, TuningKept
<1>8. CASE Ended \/ UNCHANGED vars
  <2>1. UNCHANGED <<attached, queue, written, unplugged, params, pc>>
    BY <1>8 DEF Ended, vars
  <2> QED BY <2>1, TuningKept
<1>9. CASE \E n \in Names : Unplug(n) \/ \E d \in Disks : Plug(d, n)
  BY <1>9, MoveTuning
<1> QED BY <1>2, <1>3, <1>4, <1>5, <1>6, <1>7, <1>8, <1>9 DEF Next, Program

LEMMA TuningIsWhole == TypeOK /\ Tuning => TunedWhole
<1> SUFFICES ASSUME TypeOK, Tuning, NEW d \in Disks, queue[d] # {}
             PROVE  \/ \E n \in Names : params.diskDev = <<n>> /\ Vacated(n)
                    \/ /\ params.diskDev # <<>> /\ attached[params.diskDev[1]] = d
                       /\ queue[d] = {Settings[j] : j \in 1 .. written}
                       /\ pc = "run" => queue[d] = ToSet(Settings)
  BY DEF TunedWhole
<1>1. written > 0
  <2>1. written # 0
    BY DEF Tuning
  <2>2. RestOK
    BY Parts
  <2>3. written \in Nat
    BY <2>2, SettingsAre DEF RestOK
  <2> QED BY <2>1, <2>3
<1>2. PICK n \in Names : params.diskDev = <<n>> /\ SetUp(n)
  BY <1>1 DEF Tuning
<1>3. CASE Vacated(n)
  BY <1>2, <1>3
<1>4. CASE ~Vacated(n)
  <2>1. attached[n] = d /\ queue[d] = SettingsTo(written)
    BY <1>2, <1>4 DEF SetUp
  <2>2. pc = "run" => queue[d] = ToSet(Settings)
    <3> SUFFICES ASSUME pc = "run" PROVE queue[d] = ToSet(Settings)
      OBVIOUS
    <3>1. written = Len(Settings)
      <4>1. written # 0
        BY <1>1
      <4> QED BY <4>1 DEF Tuning
    <3> QED BY <2>1, <3>1, SettingsAre
  <2>3. params.diskDev # <<>> /\ params.diskDev[1] = n
    BY <1>2
  <2> QED BY <2>1, <2>2, <2>3 DEF SettingsTo
<1> QED BY <1>3, <1>4

\* A run begins between the disks the operator gave: what is mounted to restore
\* to is of the second one, the device to restore is the first one, and that one
\* is set up as a whole, whatever was plugged meanwhile; only a disk that was
\* plugged out is excepted (Wizard.cpp, Drive::_applyConfig, Application::init).
THEOREM RunIsBetweenTheDisks == Spec => []RunIsPrepared
<1> DEFINE I == TypeOK /\ Inv /\ Parsed /\ Placed /\ Tuning
<1>1. Init => I
  BY InitTypes, InitInv, InitParsed, InitPlaced, InitTuning
<1>2. I /\ [Next]_vars => I'
  BY StepTypes, StepInv, StepParsed, StepPlaced, StepTuning
<1>3. I => RunIsPrepared
  BY PlacedRuns, TuningIsWhole DEF RunIsPrepared
<1> QED BY <1>1, <1>2, <1>3, PTL DEF Spec

-----------------------------------------------------------------------------
(* DirWalk: the shape of the walk                                          *)

Frames == [node : Nodes, isOpen : BOOLEAN, current : Nat]

\* The frames: one per node, from the root down; those not open are new.
Shape ==
    /\ stack \in Seq(Frames)
    /\ phase = "walk" => stack # <<>>
    /\ phase \in {"unmount", "done", "spin"} => stack = <<>>
    /\ 1 \in DOMAIN stack => stack[1].node = Root
    /\ \A k, l \in DOMAIN stack : stack[k].node = stack[l].node => k = l
    /\ \A k \in DOMAIN stack : stack[k].isOpen => stack[k].node \in Dirs
    /\ \A k \in DOMAIN stack :
         ~stack[k].isOpen => stack[k].node \notin failed /\ stack[k].current = 0
    /\ failed \cap cached = {} /\ Root \notin failed
    /\ phase = "walk" => Root \in cached

\* The nodes of R are those the walk has met, of each open directory those up
\* to the iterator's place.
Met(R) ==
    /\ \A k \in DOMAIN stack : stack[k].node \in R
    /\ failed \subseteq R
    /\ \A d \in Dirs : \A c \in DOMAIN Entries[d] :
         Entries[d][c] \in R =>
            /\ d \in R
            /\ \A k \in DOMAIN stack : stack[k].node = d => c <= stack[k].current

MetOnce == \E R \in SUBSET Nodes : Met(R)

\* The references a node has, counted without sets.
IsReached(n) == \E k \in DOMAIN stack : k > 1 /\ stack[k].node = n
IsOpened(n) ==
    \E k \in DOMAIN stack : stack[k].node = n /\ stack[k].isOpen /\ n \notin failed

Count(n) ==
    (IF n = Root /\ phase # "done" THEN 1 ELSE 0)
    + (IF IsReached(n) THEN 1 ELSE 0) + (IF IsOpened(n) THEN 1 ELSE 0)
    - (IF n \in failed /\ ~OnStack(n) THEN 1 ELSE 0)

Counted ==
    phase \in {"walk", "unmount"} => \A n \in Nodes : references[n] = Count(n)

WalkInv == WalkTypeOK /\ Shape /\ MetOnce /\ Counted

-----------------------------------------------------------------------------
(* The frames                                                              *)

\* A set without two elements has at most one.
LEMMA AtMostOne ==
    ASSUME NEW S, \A x, y \in S : x = y
    PROVE  Cardinality(S) = IF S = {} THEN 0 ELSE 1
<1>1. CASE S = {}
  BY <1>1, FS_EmptySet
<1>2. CASE S # {}
  <2>1. PICK x \in S : TRUE
    BY <1>2
  <2>2. S = {x}
    BY <2>1
  <2> QED BY <1>2, <2>2, FS_Singleton
<1> QED BY <1>1, <1>2

\* No count of frames is above 1, so the two ways of counting agree.
LEMMA CountIsHolders == WalkInv => WalkSound
<1> SUFFICES ASSUME WalkInv, phase \in {"walk", "unmount"}, NEW n \in Nodes
             PROVE  references[n] = Holders(n)
                            - (IF n \in failed /\ ~OnStack(n) THEN 1 ELSE 0)
  BY DEF WalkInv, WalkSound, ReferencesAccounted
<1> DEFINE S == {k \in DOMAIN stack : k > 1 /\ stack[k].node = n}
           T == {k \in DOMAIN stack : stack[k].node = n /\ stack[k].isOpen
                                      /\ n \notin failed}
<1>1. Cardinality(S) = IF IsReached(n) THEN 1 ELSE 0
  <2>1. \A x, y \in S : x = y
    BY DEF WalkInv, Shape
  <2>2. S = {} <=> ~IsReached(n)
    BY DEF IsReached
  <2> HIDE DEF S
  <2> QED BY <2>1, <2>2, AtMostOne
<1>2. Cardinality(T) = IF IsOpened(n) THEN 1 ELSE 0
  <2>1. \A x, y \in T : x = y
    BY DEF WalkInv, Shape
  <2>2. T = {} <=> ~IsOpened(n)
    BY DEF IsOpened
  <2> HIDE DEF T
  <2> QED BY <2>1, <2>2, AtMostOne
<1>3. references[n] = Count(n)
  BY DEF WalkInv, Counted
<1>4. Holders(n) = (IF n = Root /\ phase # "done" THEN 1 ELSE 0)
                   + Cardinality(S) + Cardinality(T)
  BY DEF Holders
<1> QED BY <1>1, <1>2, <1>3, <1>4 DEF Count

\* The last frame, and the stack with another one in its place.
LEMMA TopFrame ==
    ASSUME Shape, phase = "walk"
    PROVE  /\ Len(stack) \in Nat /\ Len(stack) >= 1
           /\ DOMAIN stack = 1 .. Len(stack)
           /\ Top = stack[Len(stack)] /\ Top \in Frames
           /\ Node \in Nodes
           /\ Front(stack) \in Seq(Frames)
           /\ Len(Front(stack)) = Len(stack) - 1
           /\ DOMAIN Front(stack) = 1 .. Len(stack) - 1
           /\ \A k \in 1 .. Len(stack) - 1 : Front(stack)[k] = stack[k]
<1>1. Len(stack) \in Nat /\ Len(stack) >= 1 /\ DOMAIN stack = 1 .. Len(stack)
      /\ stack \in Seq(Frames)
  BY DEF Shape
<1>2. Top = stack[Len(stack)] /\ Top \in Frames /\ Node \in Nodes
  <2>1. Top = stack[Len(stack)]
    BY DEF Top, Last
  <2>2. stack[Len(stack)] \in Frames
    BY <1>1
  <2> QED BY <2>1, <2>2 DEF Node, Frames
<1>3. Front(stack) = SubSeq(stack, 1, Len(stack) - 1)
  BY DEF Front
<1>4. /\ SubSeq(stack, 1, Len(stack) - 1) \in Seq(Frames)
      /\ Len(SubSeq(stack, 1, Len(stack) - 1)) = Len(stack) - 1
      /\ \A k \in 1 .. Len(stack) - 1 : SubSeq(stack, 1, Len(stack) - 1)[k] = stack[k]
  BY <1>1, SubSeqProperties
<1> QED BY <1>1, <1>2, <1>3, <1>4, LenProperties

LEMMA TopSet ==
    ASSUME Shape, phase = "walk", NEW f \in Frames
    PROVE  /\ SetTop(f) \in Seq(Frames)
           /\ Len(SetTop(f)) = Len(stack) /\ DOMAIN SetTop(f) = DOMAIN stack
           /\ \A k \in 1 .. Len(stack) - 1 : SetTop(f)[k] = stack[k]
           /\ SetTop(f)[Len(stack)] = f
<1> DEFINE s == Front(stack)
<1>1. s \in Seq(Frames) /\ Len(s) = Len(stack) - 1 /\ Len(stack) \in Nat
      /\ Len(stack) >= 1 /\ DOMAIN stack = 1 .. Len(stack)
      /\ \A k \in 1 .. Len(stack) - 1 : s[k] = stack[k]
  BY TopFrame, Zenon
<1> HIDE DEF s
<1>2. /\ Append(s, f) \in Seq(Frames) /\ Len(Append(s, f)) = Len(s) + 1
      /\ \A k \in 1 .. Len(s) : Append(s, f)[k] = s[k]
      /\ Append(s, f)[Len(s) + 1] = f
  BY <1>1, AppendProperties
<1>3. SetTop(f) = Append(s, f)
  BY DEF SetTop, s
<1>4. DOMAIN Append(s, f) = 1 .. Len(Append(s, f))
  BY <1>2, LenProperties
<1> QED BY <1>1, <1>2, <1>3, <1>4, SMTT(30)

\* What opening changes in the stack: the last frame, and of it isOpen only.
LEMMA OpenedTop ==
    ASSUME Shape, phase = "walk", stack' = SetTop([Top EXCEPT !.isOpen = TRUE])
    PROVE  /\ stack' \in Seq(Frames) /\ DOMAIN stack' = DOMAIN stack
           /\ \A k \in DOMAIN stack :
                /\ stack'[k].node = stack[k].node
                /\ stack'[k].current = stack[k].current
                /\ stack'[k].isOpen <=> stack[k].isOpen \/ k = Len(stack)
<1> DEFINE f == [Top EXCEPT !.isOpen = TRUE]
<1>1. f \in Frames /\ f.node = Top.node /\ f.current = Top.current /\ f.isOpen
  BY TopFrame DEF Frames
<1> HIDE DEF f
<1>2. stack' = SetTop(f)
  BY DEF f
<1>3. /\ SetTop(f) \in Seq(Frames)
      /\ Len(SetTop(f)) = Len(stack) /\ DOMAIN SetTop(f) = DOMAIN stack
      /\ \A k \in 1 .. Len(stack) - 1 : SetTop(f)[k] = stack[k]
      /\ SetTop(f)[Len(stack)] = f
  BY <1>1, TopSet
<1>4. Top = stack[Len(stack)] /\ DOMAIN stack = 1 .. Len(stack) /\ Len(stack) \in Nat
  BY TopFrame
<1> QED
  <2> SUFFICES ASSUME NEW k \in DOMAIN stack
               PROVE  /\ stack'[k].node = stack[k].node
                      /\ stack'[k].current = stack[k].current
                      /\ stack'[k].isOpen <=> stack[k].isOpen \/ k = Len(stack)
    BY <1>2, <1>3
  <2>1. CASE k = Len(stack)
    BY <2>1, <1>1, <1>2, <1>3, <1>4
  <2>2. CASE k # Len(stack)
    <3>1. k \in 1 .. Len(stack) - 1
      BY <2>2, <1>4
    <3> QED BY <3>1, <2>2, <1>2, <1>3
  <2> QED BY <2>1, <2>2

\* What going down changes: the iterator of the last frame, and a new frame.
LEMMA WentDown ==
    ASSUME Shape, phase = "walk", NEW n \in Nodes,
           stack' = Append(SetTop([Top EXCEPT !.current = @ + 1]), Frame(n))
    PROVE  /\ stack' \in Seq(Frames) /\ DOMAIN stack' = 1 .. Len(stack) + 1
           /\ stack'[Len(stack) + 1] = Frame(n)
           /\ \A k \in DOMAIN stack :
                /\ stack'[k].node = stack[k].node
                /\ stack'[k].isOpen = stack[k].isOpen
                /\ stack'[k].current =
                     IF k = Len(stack) THEN stack[k].current + 1 ELSE stack[k].current
<1> DEFINE f == [Top EXCEPT !.current = @ + 1]
<1>1. f \in Frames /\ f.node = Top.node /\ f.current = Top.current + 1
      /\ f.isOpen = Top.isOpen
  BY TopFrame DEF Frames
<1> HIDE DEF f
<1>2. stack' = Append(SetTop(f), Frame(n))
  BY DEF f
<1>3. /\ SetTop(f) \in Seq(Frames)
      /\ Len(SetTop(f)) = Len(stack) /\ DOMAIN SetTop(f) = DOMAIN stack
      /\ \A k \in 1 .. Len(stack) - 1 : SetTop(f)[k] = stack[k]
      /\ SetTop(f)[Len(stack)] = f
  BY <1>1, TopSet
<1>4. Top = stack[Len(stack)] /\ DOMAIN stack = 1 .. Len(stack) /\ Len(stack) \in Nat
  BY TopFrame
<1>5. Frame(n) \in Frames
  BY DEF Frame, Frames
<1>6. /\ stack' \in Seq(Frames) /\ Len(stack') = Len(stack) + 1
      /\ \A k \in 1 .. Len(stack) : stack'[k] = SetTop(f)[k]
      /\ stack'[Len(stack) + 1] = Frame(n)
  <2> DEFINE s == SetTop(f)
  <2> HIDE DEF s
  <2>1. s \in Seq(Frames) /\ Len(s) = Len(stack) /\ stack' = Append(s, Frame(n))
    BY <1>2, <1>3 DEF s
  <2>2. /\ stack' \in Seq(Frames) /\ Len(stack') = Len(stack) + 1
        /\ \A k \in 1 .. Len(stack) : stack'[k] = s[k]
        /\ stack'[Len(stack) + 1] = Frame(n)
    <3>1. \A seq \in Seq(Frames), elt \in Frames :
            /\ Append(seq, elt) \in Seq(Frames)
            /\ Len(Append(seq, elt)) = Len(seq) + 1
            /\ \A k \in 1 .. Len(seq) : Append(seq, elt)[k] = seq[k]
            /\ Append(seq, elt)[Len(seq) + 1] = elt
      BY AppendProperties
    <3> QED BY ONLY <2>1, <1>5, <3>1
  <2> QED BY ONLY <2>1, <2>2, <1>3 DEF s
<1>7. DOMAIN stack' = 1 .. Len(stack) + 1
  BY <1>6, LenProperties
<1>8. ASSUME NEW k \in DOMAIN stack
      PROVE  /\ stack'[k].node = stack[k].node
             /\ stack'[k].isOpen = stack[k].isOpen
             /\ stack'[k].current =
                  IF k = Len(stack) THEN stack[k].current + 1 ELSE stack[k].current
  <2>1. CASE k = Len(stack)
    BY <2>1, <1>1, <1>3, <1>4, <1>6
  <2>2. CASE k # Len(stack)
    <3>1. k \in 1 .. Len(stack) - 1
      BY <2>2, <1>4
    <3> QED BY <3>1, <2>2, <1>3, <1>4, <1>6
  <2> QED BY <2>1, <2>2
<1> QED BY <1>6, <1>7, <1>8

\* What the last frame says of the counts of its node.
LEMMA TopCounts ==
    ASSUME Shape, phase = "walk"
    PROVE  /\ IsReached(Node) <=> Len(stack) > 1
           /\ IsOpened(Node) <=> Top.isOpen /\ Node \notin failed
           /\ OnStack(Node)
           /\ Node = Root <=> Len(stack) = 1
<1>1. /\ Len(stack) \in Nat /\ Len(stack) >= 1 /\ DOMAIN stack = 1 .. Len(stack)
      /\ Top = stack[Len(stack)] /\ Node = stack[Len(stack)].node
  BY TopFrame DEF Node
<1>2. \A k \in DOMAIN stack : stack[k].node = Node => k = Len(stack)
  BY <1>1 DEF Shape
<1>3. stack[1].node = Root
  BY <1>1 DEF Shape
<1>4. IsReached(Node) <=> Len(stack) > 1
  BY <1>1, <1>2 DEF IsReached
<1>5. IsOpened(Node) <=> Top.isOpen /\ Node \notin failed
  BY <1>1, <1>2 DEF IsOpened
<1>6. OnStack(Node)
  BY <1>1 DEF OnStack
<1>7. Node = Root <=> Len(stack) = 1
  BY <1>1, <1>2, <1>3
<1> QED BY <1>4, <1>5, <1>6, <1>7

\* The part of WalkTypeOK about the frames.
Follow ==
    \A k \in DOMAIN stack :
       /\ stack[k].current \in 0 .. Len(Child(stack[k].node))
       /\ k > 1 =>
            \E c \in DOMAIN Child(stack[k - 1].node) :
               /\ c = stack[k - 1].current
               /\ stack[k].node = Child(stack[k - 1].node)[c]

\* Children that come into memory disturb no frame.
LEMMA FollowStays ==
    ASSUME WalkInv, stack' \in Seq(Frames), DOMAIN stack' = DOMAIN stack,
           \A k \in DOMAIN stack : /\ stack'[k].node = stack[k].node
                                   /\ stack'[k].current = stack[k].current,
           cached \subseteq cached', cached' \subseteq Dirs
    PROVE  Follow'
<1>1. Follow
  BY DEF WalkInv, WalkTypeOK, Follow
<1>2. \A d \in Dirs : Len(Entries[d]) \in Nat
  BY TreeAssumption
<1>3. DOMAIN stack \subseteq Nat
  BY DEF WalkInv, Shape
<1> SUFFICES ASSUME NEW k \in DOMAIN stack
             PROVE  /\ stack[k].current \in
                         0 .. Len(IF stack[k].node \in cached'
                                    THEN Entries[stack[k].node] ELSE <<>>)
                    /\ k > 1 =>
                         LET d == stack[k - 1].node
                             child == IF d \in cached' THEN Entries[d] ELSE <<>>
                         IN  \E c \in DOMAIN child :
                                c = stack[k - 1].current /\ stack[k].node = child[c]
  <2>1. \A k \in DOMAIN stack : k > 1 => k - 1 \in DOMAIN stack
    BY DEF WalkInv, Shape
  <2> QED BY <2>1 DEF Follow, Child
<1>4. stack[k].current \in 0 .. Len(IF stack[k].node \in cached'
                                      THEN Entries[stack[k].node] ELSE <<>>)
  <2>1. CASE stack[k].node \in cached
    BY <2>1, <1>1 DEF Follow, Child
  <2>2. CASE stack[k].node \notin cached
    <3>1. stack[k].current \in 0 .. 0
      <4>1. stack[k].current \in 0 .. Len(<<>>)
        BY <2>2, <1>1 DEF Follow, Child
      <4> QED BY <4>1
    <3>2. CASE stack[k].node \in cached'
      BY <3>1, <3>2, <1>2
    <3>3. CASE stack[k].node \notin cached'
      BY <3>1, <3>3
    <3> QED BY <3>2, <3>3
  <2> QED BY <2>1, <2>2
<1>5. ASSUME k > 1
      PROVE  LET d == stack[k - 1].node
                 child == IF d \in cached' THEN Entries[d] ELSE <<>>
             IN  \E c \in DOMAIN child :
                    c = stack[k - 1].current /\ stack[k].node = child[c]
  <2>1. stack[k - 1].node \in cached
    BY <1>1, <1>5 DEF Follow, Child
  <2> QED BY <1>1, <1>5, <2>1 DEF Follow, Child
<1> QED BY <1>4, <1>5

-----------------------------------------------------------------------------
(* Opening                                                                 *)

\* What both outcomes of exfat_opendir share.
LEMMA OpenMet ==
    ASSUME WalkInv, phase = "walk", stack' = SetTop([Top EXCEPT !.isOpen = TRUE]),
           failed' \subseteq failed \cup {Node}
    PROVE  MetOnce'
<1>1. PICK R \in SUBSET Nodes : Met(R)
  BY DEF WalkInv, MetOnce
<1>2. /\ DOMAIN stack' = DOMAIN stack
      /\ \A k \in DOMAIN stack : /\ stack'[k].node = stack[k].node
                                 /\ stack'[k].current = stack[k].current
  BY OpenedTop DEF WalkInv
<1>3. Node \in R
  BY <1>1, TopFrame DEF WalkInv, Met, Node
<1>4. Met(R)'
  BY <1>1, <1>2, <1>3 DEF Met
<1> QED BY <1>1, <1>4 DEF MetOnce

LEMMA OpenShape ==
    ASSUME WalkInv, phase = "walk", phase' = phase, Node \in Dirs, ~Top.isOpen,
           stack' = SetTop([Top EXCEPT !.isOpen = TRUE]),
           \/ failed' = failed /\ cached' = cached \cup {Node}
           \/ failed' = failed \cup {Node} /\ cached' = cached /\ Node \notin cached
    PROVE  Shape'
<1>1. /\ stack' \in Seq(Frames) /\ DOMAIN stack' = DOMAIN stack
      /\ \A k \in DOMAIN stack :
           /\ stack'[k].node = stack[k].node
           /\ stack'[k].current = stack[k].current
           /\ stack'[k].isOpen <=> stack[k].isOpen \/ k = Len(stack)
  BY OpenedTop DEF WalkInv
<1>2. /\ Len(stack) \in DOMAIN stack /\ Node = stack[Len(stack)].node
      /\ Top = stack[Len(stack)]
  BY TopFrame DEF WalkInv, Node
<1>3. \A k \in DOMAIN stack : k # Len(stack) => stack[k].node # Node
  BY <1>2 DEF WalkInv, Shape
<1>4. Node \notin failed /\ Root \in cached
  BY <1>2 DEF WalkInv, Shape
<1>5. stack # <<>> /\ stack' # <<>>
  BY <1>1, <1>2
<1>6. /\ 1 \in DOMAIN stack' => stack'[1].node = Root
      /\ \A k, l \in DOMAIN stack' : stack'[k].node = stack'[l].node => k = l
      /\ \A k \in DOMAIN stack' : stack'[k].isOpen => stack'[k].node \in Dirs
  <2>1. 1 \in DOMAIN stack => stack[1].node = Root
    BY DEF WalkInv, Shape
  <2>2. \A k, l \in DOMAIN stack : stack[k].node = stack[l].node => k = l
    BY DEF WalkInv, Shape
  <2>3. \A k \in DOMAIN stack : stack[k].isOpen => stack[k].node \in Dirs
    BY DEF WalkInv, Shape
  <2>4. \A k, l \in DOMAIN stack' : stack'[k].node = stack'[l].node => k = l
    BY ONLY <1>1, <2>2
  <2>5. \A k \in DOMAIN stack' : stack'[k].isOpen => stack'[k].node \in Dirs
    BY <1>1, <1>2, <2>3, Zenon
  <2> QED BY <1>1, <2>1, <2>4, <2>5
<1>7. \A k \in DOMAIN stack' :
        ~stack'[k].isOpen => stack'[k].node \notin failed' /\ stack'[k].current = 0
  BY <1>1, <1>3 DEF WalkInv, Shape
<1>8. failed' \cap cached' = {} /\ Root \notin failed' /\ Root \in cached'
  BY <1>4 DEF WalkInv, Shape
<1> QED BY <1>1, <1>5, <1>6, <1>7, <1>8 DEF Shape

\* The counts of the other nodes are what they were.
LEMMA OpenOthers ==
    ASSUME WalkInv, phase = "walk", phase' = phase,
           stack' = SetTop([Top EXCEPT !.isOpen = TRUE]),
           failed' \in {failed, failed \cup {Node}},
           NEW n \in Nodes \ {Node}
    PROVE  Count(n)' = Count(n)
<1>1. /\ DOMAIN stack' = DOMAIN stack
      /\ \A k \in DOMAIN stack :
           /\ stack'[k].node = stack[k].node
           /\ stack'[k].isOpen <=> stack[k].isOpen \/ k = Len(stack)
  BY OpenedTop DEF WalkInv
<1>2. stack[Len(stack)].node # n
  BY TopFrame DEF WalkInv, Node
<1>3. n \in failed' <=> n \in failed
  OBVIOUS
<1>4. IsReached(n)' <=> IsReached(n)
  BY <1>1 DEF IsReached
<1>5. IsOpened(n)' <=> IsOpened(n)
  BY <1>1, <1>2, <1>3 DEF IsOpened
<1>6. OnStack(n)' <=> OnStack(n)
  BY <1>1 DEF OnStack
<1> QED BY <1>3, <1>4, <1>5, <1>6 DEF Count

LEMMA OpenDirInv == WalkInv /\ OpenDir => WalkInv'
<1> SUFFICES ASSUME WalkInv, OpenDir PROVE WalkInv'
  OBVIOUS
<1>1. /\ phase = "walk" /\ phase' = phase /\ Node \in Dirs /\ ~Top.isOpen
      /\ references' = [references EXCEPT ![Node] = @ + 1]
      /\ cached' = cached \cup {Node} /\ failed' = failed
      /\ stack' = SetTop([Top EXCEPT !.isOpen = TRUE])
      /\ badNames' = badNames /\ out' = out
  BY DEF OpenDir, Get
<1>2. Node \in Nodes /\ Dirs \subseteq Nodes
  BY <1>1, TreeAssumption
<1>3. WalkTypeOK'
  <2>1. Follow'
    BY <1>1, OpenedTop, FollowStays DEF WalkInv, WalkTypeOK
  <2>2. references' \in [Nodes -> Int]
    BY <1>1, <1>2 DEF WalkInv, WalkTypeOK
  <2> QED BY <1>1, <2>1, <2>2 DEF WalkInv, WalkTypeOK, Follow
<1>4. Shape' /\ MetOnce'
  BY <1>1, OpenShape, OpenMet
<1>5. Counted'
  <2> SUFFICES ASSUME NEW n \in Nodes PROVE references'[n] = Count(n)'
    BY DEF Counted
  <2>1. references[n] = Count(n) /\ references \in [Nodes -> Int]
    BY <1>1 DEF WalkInv, Counted, WalkTypeOK
  <2>2. CASE n # Node
    BY <1>1, <2>1, <2>2, OpenOthers
  <2>3. CASE n = Node
    <3>1. /\ IsReached(Node) <=> Len(stack) > 1
          /\ ~IsOpened(Node) /\ OnStack(Node) /\ Node \notin failed
      BY <1>1, TopCounts, TopFrame DEF WalkInv, Shape, Node
    <3>2. phase' = "walk" /\ Shape'
      BY <1>1, <1>4
    <3>3. /\ DOMAIN stack' = DOMAIN stack
          /\ \A k \in DOMAIN stack : stack'[k].node = stack[k].node
          /\ stack'[Len(stack)].isOpen /\ Len(stack) \in DOMAIN stack
          /\ stack[Len(stack)].node = Node
      <4>1. Len(stack) \in DOMAIN stack /\ stack[Len(stack)].node = Node
        BY <1>1, TopFrame DEF WalkInv, Node
      <4>2. /\ DOMAIN stack' = DOMAIN stack
            /\ \A k \in DOMAIN stack :
                 /\ stack'[k].node = stack[k].node
                 /\ stack'[k].isOpen <=> stack[k].isOpen \/ k = Len(stack)
        BY <1>1, OpenedTop DEF WalkInv
      <4>3. stack'[Len(stack)].isOpen
        BY ONLY <4>1, <4>2, Zenon
      <4> QED BY <4>1, <4>2, <4>3
    <3>4. IsReached(n)' <=> IsReached(n)
      BY <3>3 DEF IsReached
    <3>5. OnStack(n)'
      BY <2>3, <3>3 DEF OnStack
    <3>6. IsOpened(n)'
      BY <2>3, <1>1, <3>1, <3>3 DEF IsOpened
    <3>7. references'[n] = references[n] + 1
      BY <1>1, <2>1, <2>3
    <3> QED BY <1>1, <2>1, <2>3, <3>1, <3>4, <3>5, <3>6, <3>7 DEF Count
  <2> QED BY <2>2, <2>3
<1> QED BY <1>3, <1>4, <1>5 DEF WalkInv

LEMMA OpenDirFailsInv == WalkInv /\ OpenDirFails => WalkInv'
<1> SUFFICES ASSUME WalkInv, OpenDirFails PROVE WalkInv'
  OBVIOUS
<1>1. /\ phase = "walk" /\ phase' = phase /\ Node \in Dirs /\ ~Top.isOpen
      /\ Node \notin cached
      /\ references' = [[references EXCEPT ![Node] = @ + 1] EXCEPT ![Node] = @ - 1]
      /\ cached' = cached /\ failed' = failed \cup {Node}
      /\ stack' = SetTop([Top EXCEPT !.isOpen = TRUE])
      /\ badNames' = badNames /\ out' = out
  BY DEF OpenDirFails, Get, Put
<1>2. references' = references
  <2>1. Node \in Nodes /\ references \in [Nodes -> Int]
    BY <1>1, TreeAssumption DEF WalkInv, WalkTypeOK
  <2> QED BY ONLY <1>1, <2>1
<1>3. WalkTypeOK'
  <2>1. Follow'
    BY <1>1, OpenedTop, FollowStays DEF WalkInv, WalkTypeOK
  <2> QED BY <1>1, <1>2, <2>1 DEF WalkInv, WalkTypeOK, Follow
<1>4. Shape' /\ MetOnce'
  BY <1>1, OpenShape, OpenMet
<1>5. Counted'
  <2> SUFFICES ASSUME NEW n \in Nodes PROVE references'[n] = Count(n)'
    BY DEF Counted
  <2>1. references[n] = Count(n)
    BY <1>1 DEF WalkInv, Counted
  <2>2. CASE n # Node
    BY <1>1, <1>2, <2>1, <2>2, OpenOthers
  <2>3. CASE n = Node
    <3>1. ~IsOpened(Node) /\ OnStack(Node) /\ Node \notin failed
      BY <1>1, TopCounts, TopFrame DEF WalkInv, Shape, Node
    <3>2. /\ DOMAIN stack' = DOMAIN stack
          /\ \A k \in DOMAIN stack : stack'[k].node = stack[k].node
      BY <1>1, OpenedTop DEF WalkInv
    <3>3. (IsReached(n)' <=> IsReached(n)) /\ (OnStack(n)' <=> OnStack(n))
      BY <3>2 DEF IsReached, OnStack
    <3>4. ~IsOpened(n)'
      BY <2>3, <1>1 DEF IsOpened
    <3> QED BY <1>1, <1>2, <2>1, <2>3, <3>1, <3>3, <3>4 DEF Count
  <2> QED BY <2>2, <2>3
<1> QED BY <1>3, <1>4, <1>5 DEF WalkInv

-----------------------------------------------------------------------------
(* Going down                                                              *)

\* The child that exfat_readdir returns was not met before.
LEMMA ChildIsNew ==
    ASSUME WalkInv, phase = "walk", NEW R \in SUBSET Nodes, Met(R), Node \in Dirs,
           Top.current < Len(Child(Node))
    PROVE  LET c == Top.current + 1
               n == Child(Node)[c]
           IN  /\ Child(Node) = Entries[Node] /\ c \in DOMAIN Entries[Node]
               /\ n \in Nodes \ {Root} /\ n \notin R
<1>1. Top \in Frames /\ Top.current \in Nat
  BY TopFrame DEF WalkInv, Frames
<1>2. Entries[Node] \in Seq(Nodes \ {Root})
  BY TreeAssumption
<1>3. Child(Node) = Entries[Node]
  <2>1. CASE Node \in cached
    BY <2>1 DEF Child
  <2>2. CASE Node \notin cached
    <3>1. Len(Child(Node)) = 0
      BY <2>2 DEF Child
    <3> QED BY <3>1, <1>1
  <2> QED BY <2>1, <2>2
<1> DEFINE c == Top.current + 1
<1>4. c \in DOMAIN Entries[Node] /\ Entries[Node][c] \in Nodes \ {Root}
  BY <1>1, <1>2, <1>3
<1>5. /\ Len(stack) \in DOMAIN stack /\ stack[Len(stack)] = Top
      /\ stack[Len(stack)].node = Node
  BY TopFrame DEF WalkInv, Node
<1>6. Entries[Node][c] \in R => c <= Top.current
  BY <1>4, <1>5 DEF Met
<1>7. Entries[Node][c] \notin R
  BY <1>1, <1>6
<1> QED BY <1>3, <1>4, <1>7

LEMMA ReadDirInv == WalkInv /\ ReadDir => WalkInv'
<1> SUFFICES ASSUME WalkInv, ReadDir PROVE WalkInv'
  OBVIOUS
<1> DEFINE c == Top.current + 1
           n == Child(Node)[c]
           N == Len(stack)
<1>1. /\ phase = "walk" /\ phase' = "walk" /\ Node \in Dirs /\ Top.isOpen
      /\ Top.current < Len(Child(Node))
      /\ references' = [references EXCEPT ![n] = @ + 1]
      /\ stack' = Append(SetTop([Top EXCEPT !.current = @ + 1]), Frame(n))
      /\ badNames' = badNames /\ cached' = cached /\ out' = out /\ failed' = failed
  BY DEF ReadDir, Get
<1>2. PICK R \in SUBSET Nodes : Met(R)
  BY DEF WalkInv, MetOnce
<1>3. /\ Child(Node) = Entries[Node] /\ c \in DOMAIN Entries[Node]
      /\ n \in Nodes \ {Root} /\ n \notin R
  BY <1>1, <1>2, ChildIsNew
<1>4. /\ N \in Nat /\ N >= 1 /\ DOMAIN stack = 1 .. N /\ Top = stack[N]
      /\ stack[N].node = Node /\ stack[N].current \in Nat
  BY <1>1, TopFrame DEF WalkInv, Node, Frames
<1> HIDE DEF c, n, N
<1>5. /\ stack' \in Seq(Frames) /\ DOMAIN stack' = 1 .. N + 1
      /\ stack'[N + 1] = Frame(n)
      /\ \A k \in DOMAIN stack :
           /\ stack'[k].node = stack[k].node
           /\ stack'[k].isOpen = stack[k].isOpen
           /\ stack'[k].current = IF k = N THEN c ELSE stack[k].current
  <2>1. n \in Nodes
    BY <1>3
  <2> QED BY <1>1, <1>4, <2>1, WentDown DEF WalkInv, N, c
<1>6. /\ stack'[N + 1].node = n /\ ~stack'[N + 1].isOpen
      /\ stack'[N + 1].current = 0
  BY <1>5 DEF Frame
<1>7. c \in Nat /\ stack[N].current = c - 1
  BY <1>4 DEF c
<1>8. \A k \in DOMAIN stack : stack[k].node # n
  BY <1>2, <1>3 DEF Met
<1>9. n \notin failed
  BY <1>2, <1>3 DEF Met
<1>10. Follow'
  <2>1. Follow
    BY DEF WalkInv, WalkTypeOK, Follow
  <2>2. Len(Entries[Node]) \in Nat /\ c \in 1 .. Len(Entries[Node])
        /\ Child(Node) = Entries[Node] /\ n = Entries[Node][c]
    BY <1>1, <1>3, TreeAssumption DEF n
  <2> SUFFICES ASSUME NEW k \in 1 .. N + 1
               PROVE  /\ stack'[k].current \in 0 .. Len(Child(stack'[k].node))
                      /\ k > 1 =>
                           \E b \in DOMAIN Child(stack'[k - 1].node) :
                              /\ b = stack'[k - 1].current
                              /\ stack'[k].node = Child(stack'[k - 1].node)[b]
    <3>1. \A d : (IF d \in cached' THEN Entries[d] ELSE <<>>) = Child(d)
      BY <1>1 DEF Child
    <3> QED BY <3>1, <1>5 DEF Follow, Child
  <2>3. CASE k = N + 1
    <3>1. stack'[k].current = 0 /\ stack'[k].node = n
      BY <1>6, <2>3
    <3>2. 0 \in 0 .. Len(Child(n))
      <4>1. CASE n \in cached
        <5>1. n \in Dirs /\ Child(n) = Entries[n]
          BY <4>1 DEF Child, WalkInv, WalkTypeOK
        <5> QED BY <5>1, TreeAssumption
      <4>2. CASE n \notin cached
        BY <4>2 DEF Child
      <4> QED BY <4>1, <4>2
    <3>3. stack'[k - 1].node = Node /\ stack'[k - 1].current = c
      BY <1>4, <1>5, <2>3
    <3>4. c \in DOMAIN Child(Node) /\ n = Child(Node)[c]
      BY <1>3 DEF n
    <3> QED BY <3>1, <3>2, <3>3, <3>4
  <2>4. CASE k = N
    <3>1. stack'[k].current = c /\ stack'[k].node = Node
      BY <1>4, <1>5, <2>4
    <3>2. c \in 0 .. Len(Child(Node))
      BY <2>2
    <3>3. ASSUME k > 1
          PROVE  /\ k - 1 \in DOMAIN stack /\ k - 1 # N
                 /\ stack'[k - 1].node = stack[k - 1].node
                 /\ stack'[k - 1].current = stack[k - 1].current
                 /\ stack'[k].node = stack[k].node
      BY <1>4, <1>5, <2>4, <3>3
    <3>4. k \in DOMAIN stack
      BY <1>4, <2>4
    <3> QED BY <3>1, <3>2, <3>3, <3>4, <2>1 DEF Follow
  <2>5. CASE k < N
    <3>1. k \in DOMAIN stack /\ k # N
      BY <1>4, <2>5
    <3>2. k > 1 => k - 1 \in DOMAIN stack /\ k - 1 # N
      BY <1>4, <2>5
    <3> QED BY <3>1, <3>2, <2>1, <1>5 DEF Follow
  <2> QED BY <2>3, <2>4, <2>5, <1>4
<1>11. WalkTypeOK'
  <2>1. references' \in [Nodes -> Int]
    BY <1>1, <1>3 DEF WalkInv, WalkTypeOK
  <2> QED BY <1>1, <1>10, <2>1 DEF WalkInv, WalkTypeOK, Follow
<1>12. Shape'
  <2>1. stack # <<>> /\ stack' # <<>> /\ 1 \in DOMAIN stack
    BY <1>4, <1>5
  <2>2. stack'[1].node = Root
    BY <1>5, <2>1 DEF WalkInv, Shape
  <2>3. \A k, l \in DOMAIN stack' : stack'[k].node = stack'[l].node => k = l
    <3>1. \A k, l \in DOMAIN stack : stack[k].node = stack[l].node => k = l
      BY DEF WalkInv, Shape
    <3>2. \A k \in DOMAIN stack' : k \in DOMAIN stack \/ k = N + 1
      BY <1>4, <1>5
    <3>3. \A k \in DOMAIN stack : stack'[k].node = stack[k].node
      BY <1>5
    <3> QED BY ONLY <3>1, <3>2, <3>3, <1>6, <1>8
  <2>4. \A k \in DOMAIN stack' : k \in DOMAIN stack \/ k = N + 1
    BY <1>4, <1>5
  <2>5. \A k \in DOMAIN stack' : stack'[k].isOpen => stack'[k].node \in Dirs
    BY <1>5, <1>6, <2>4 DEF WalkInv, Shape
  <2>6. ASSUME NEW k \in DOMAIN stack', ~stack'[k].isOpen
        PROVE  stack'[k].node \notin failed' /\ stack'[k].current = 0
    <3>1. CASE k = N + 1
      BY <3>1, <1>1, <1>6, <1>9
    <3>2. CASE k # N + 1
      <4>1. k \in DOMAIN stack /\ ~stack[k].isOpen
        BY <3>2, <2>4, <2>6, <1>5
      <4>2. k # N
        BY <4>1, <1>1, <1>4
      <4>3. stack[k].node \notin failed /\ stack[k].current = 0
        BY <4>1 DEF WalkInv, Shape
      <4> QED BY <4>1, <4>2, <4>3, <1>1, <1>5
    <3> QED BY <3>1, <3>2
  <2>7. failed' \cap cached' = {} /\ Root \notin failed' /\ Root \in cached'
    BY <1>1 DEF WalkInv, Shape
  <2> QED BY <1>1, <1>5, <2>1, <2>2, <2>3, <2>5, <2>6, <2>7 DEF Shape
<1>13. MetOnce'
  <2>1. PICK Q \in SUBSET Nodes : Q = R \cup {n}
    BY <1>3
  <2>2. \A k \in DOMAIN stack' : k \in DOMAIN stack \/ k = N + 1
    BY <1>4, <1>5
  <2>3. \A k \in DOMAIN stack' : stack'[k].node \in Q
    BY <2>1, <1>2, <1>5, <1>6, <2>2 DEF Met
  <2>4. failed' \subseteq Q
    BY <2>1, <1>1, <1>2 DEF Met
  <2>5. ASSUME NEW d \in Dirs, NEW b \in DOMAIN Entries[d], Entries[d][b] \in Q
        PROVE  /\ d \in Q
               /\ \A k \in DOMAIN stack' : stack'[k].node = d => b <= stack'[k].current
    <3>1. CASE Entries[d][b] = n
      <4>1. d = Node /\ b = c
        BY <3>1, <1>1, <1>3, TreeAssumption DEF n
      <4>2. Node \in R
        BY <1>2, <1>4 DEF Met
      <4>3. \A k \in DOMAIN stack' : stack'[k].node = Node => k = N
        BY <1>3, <1>4, <1>5, <1>6, <2>2, <4>2 DEF WalkInv, Shape
      <4>4. stack'[N].current = c
        BY <1>4, <1>5
      <4> QED BY <2>1, <4>1, <4>2, <4>3, <4>4, <1>7
    <3>2. CASE Entries[d][b] \in R
      <4>1. d \in R /\ \A k \in DOMAIN stack : stack[k].node = d => b <= stack[k].current
        BY <3>2, <1>2 DEF Met
      <4>2. b \in Nat
        BY TreeAssumption
      <4>3. \A k \in DOMAIN stack : stack'[k].node = d => b <= stack'[k].current
        BY ONLY <4>1, <4>2, <1>4, <1>5, <1>7
      <4>4. stack'[N + 1].node # d
        BY <4>1, <1>3, <1>6
      <4> QED BY <2>1, <4>1, <4>3, <4>4, <2>2
    <3> QED BY <2>1, <3>1, <3>2, <2>5
  <2>6. Met(Q)'
    BY <2>3, <2>4, <2>5 DEF Met
  <2> QED BY <2>1, <2>6 DEF MetOnce
<1>14. Counted'
  <2> SUFFICES ASSUME NEW m \in Nodes PROVE references'[m] = Count(m)'
    BY DEF Counted
  <2>1. references[m] = Count(m) /\ references \in [Nodes -> Int]
    BY <1>1 DEF WalkInv, Counted, WalkTypeOK
  <2>2. \A k \in DOMAIN stack' : k \in DOMAIN stack \/ k = N + 1
    BY <1>4, <1>5
  <2>3. \A k \in DOMAIN stack : k \in DOMAIN stack' /\ k # N + 1
    BY <1>4, <1>5
  <2>4. CASE m # n
    <3>1. (IsReached(m)' <=> IsReached(m)) /\ (OnStack(m)' <=> OnStack(m))
      BY <2>2, <2>3, <2>4, <1>5, <1>6 DEF IsReached, OnStack
    <3>2. IsOpened(m)' <=> IsOpened(m)
      BY <2>2, <2>3, <2>4, <1>1, <1>5, <1>6, ZenonT(40) DEF IsOpened
    <3>3. references'[m] = references[m]
      BY <1>1, <2>1, <2>4
    <3> QED BY <2>1, <1>1, <3>1, <3>2, <3>3 DEF Count
  <2>5. CASE m = n
    <3>1. ~IsReached(m) /\ ~OnStack(m) /\ ~IsOpened(m)
      BY <2>5, <1>8 DEF IsReached, OnStack, IsOpened
    <3>2. N + 1 \in DOMAIN stack' /\ N + 1 > 1
      BY <1>4, <1>5
    <3>3. IsReached(m)' /\ OnStack(m)'
      BY <3>2, <2>5, <1>6 DEF IsReached, OnStack
    <3>4. ~IsOpened(m)'
      BY <2>2, <2>5, <1>5, <1>6, <1>8 DEF IsOpened
    <3>5. references'[m] = references[m] + 1
      BY <1>1, <2>1, <2>5
    <3>6. m # Root /\ m \notin failed
      BY <1>3, <1>9, <2>5
    <3> QED BY <2>1, <1>1, <3>1, <3>3, <3>4, <3>5, <3>6 DEF Count
  <2> QED BY <2>4, <2>5
<1> QED BY <1>11, <1>12, <1>13, <1>14 DEF WalkInv

-----------------------------------------------------------------------------
(* Coming back                                                             *)

\* Returning from a frame keeps the tree, what was met, and the counts of the
\* other nodes; of its own node nothing is left but what a failure cost.
LEMMA ReturnInv ==
    ASSUME WalkInv, phase = "walk", NEW refs \in [Nodes -> Int], Return(refs),
           cached' = cached, failed' = failed, badNames' = badNames,
           out' \in Seq(Files),
           \A n \in Nodes \ {Node} : refs[n] = references[n],
           refs[Node] = (IF Node = Root THEN 1 ELSE 0)
                        + (IF Len(stack) > 1 THEN 1 ELSE 0)
                        - (IF Node \in failed THEN 1 ELSE 0)
    PROVE  WalkInv'
<1> DEFINE N == Len(stack)
<1>1. /\ N \in Nat /\ N >= 1 /\ DOMAIN stack = 1 .. N
      /\ stack[N].node = Node /\ Node \in Nodes
  BY TopFrame, SMTT(30) DEF WalkInv, Node
<1>2. /\ stack' \in Seq(Frames) /\ DOMAIN stack' = 1 .. N - 1 /\ Len(stack') = N - 1
      /\ \A k \in DOMAIN stack' : stack'[k] = stack[k]
  BY TopFrame, Zenon DEF WalkInv, Return
<1>3. /\ phase' = (IF N > 1 THEN "walk" ELSE "unmount")
      /\ references' = IF N > 1 THEN [refs EXCEPT ![Node] = @ - 1] ELSE refs
  BY DEF Return, Put
<1> HIDE DEF N
<1>4. \A k \in DOMAIN stack' : k \in DOMAIN stack /\ k # N
  BY <1>1, <1>2
<1>5. \A k \in DOMAIN stack : k = N \/ k \in DOMAIN stack'
  BY <1>1, <1>2
<1>6. WalkTypeOK'
  <2>1. Follow
    BY DEF WalkInv, WalkTypeOK, Follow
  <2>2. \A k \in DOMAIN stack' : k > 1 => k - 1 \in DOMAIN stack'
    BY <1>1, <1>2
  <2>3. Follow'
    <3>1. \A d : (IF d \in cached' THEN Entries[d] ELSE <<>>) = Child(d)
      BY DEF Child
    <3>2. ASSUME NEW k \in DOMAIN stack'
          PROVE  /\ stack'[k].current \in 0 .. Len(Child(stack'[k].node))
                 /\ k > 1 =>
                      \E b \in DOMAIN Child(stack'[k - 1].node) :
                         /\ b = stack'[k - 1].current
                         /\ stack'[k].node = Child(stack'[k - 1].node)[b]
      <4>1. k \in DOMAIN stack /\ stack'[k] = stack[k]
        BY <1>2, <1>4
      <4>2. k > 1 => stack'[k - 1] = stack[k - 1]
        BY <1>2, <2>2
      <4> QED BY <4>1, <4>2, <2>1 DEF Follow
    <3> QED BY <3>1, <3>2 DEF Follow, Child
  <2>4. references' \in [Nodes -> Int]
    BY <1>1, <1>3
  <2>5. phase' \in {"walk", "unmount"}
    BY <1>3
  <2> QED BY <2>3, <2>4, <2>5 DEF WalkInv, WalkTypeOK, Follow
<1>7. Shape'
  <2>1. phase' = "walk" => stack' # <<>>
    BY <1>1, <1>2, <1>3
  <2>2. phase' = "unmount" => stack' = <<>>
    <3>1. N = 1 => Len(stack') = 0
      BY <1>2
    <3> QED BY <3>1, <1>1, <1>2, <1>3, EmptySeq
  <2>3. 1 \in DOMAIN stack' => stack'[1].node = Root
    BY <1>2, <1>4 DEF WalkInv, Shape
  <2>4. \A k, l \in DOMAIN stack' : stack'[k].node = stack'[l].node => k = l
    BY <1>2, <1>4 DEF WalkInv, Shape
  <2>5. \A k \in DOMAIN stack' : stack'[k].isOpen => stack'[k].node \in Dirs
    BY <1>2, <1>4 DEF WalkInv, Shape
  <2>6. \A k \in DOMAIN stack' :
          ~stack'[k].isOpen => stack'[k].node \notin failed /\ stack'[k].current = 0
    BY <1>2, <1>4 DEF WalkInv, Shape
  <2>7. phase' \in {"walk", "unmount"}
    BY <1>3
  <2>8. failed \cap cached = {} /\ Root \notin failed /\ Root \in cached
    BY DEF WalkInv, Shape
  <2> QED BY <1>2, <2>1, <2>2, <2>3, <2>4, <2>5, <2>6, <2>7, <2>8 DEF Shape
<1>8. MetOnce'
  <2>1. PICK R \in SUBSET Nodes : Met(R)
    BY DEF WalkInv, MetOnce
  <2>2. Met(R)'
    BY <2>1, <1>2, <1>4 DEF Met
  <2> QED BY <2>1, <2>2 DEF MetOnce
<1>9. Counted'
  <2> SUFFICES ASSUME NEW n \in Nodes PROVE references'[n] = Count(n)'
    BY DEF Counted
  <2>1. phase' \in {"walk", "unmount"}
    BY <1>3
  <2>2. CASE n # Node
    <3>1. (IsReached(n)' <=> IsReached(n)) /\ (OnStack(n)' <=> OnStack(n))
      BY <1>1, <1>2, <1>4, <1>5, <2>2 DEF IsReached, OnStack
    <3>2. IsOpened(n)' <=> IsOpened(n)
      BY <1>1, <1>2, <1>4, <1>5, <2>2 DEF IsOpened
    <3>3. references'[n] = references[n]
      BY <1>3, <2>2
    <3>4. references[n] = Count(n)
      BY DEF WalkInv, Counted
    <3> QED BY <2>1, <3>1, <3>2, <3>3, <3>4 DEF Count
  <2>3. CASE n = Node
    <3>1. \A k \in DOMAIN stack' : stack'[k].node # n
      BY <1>1, <1>2, <1>4, <2>3 DEF WalkInv, Shape
    <3>2. ~IsReached(n)' /\ ~IsOpened(n)' /\ ~OnStack(n)'
      BY <3>1 DEF IsReached, IsOpened, OnStack
    <3>3. references'[n] = refs[n] - (IF N > 1 THEN 1 ELSE 0)
      BY <1>3, <2>3
    <3>4. refs[n] = (IF n = Root THEN 1 ELSE 0) + (IF N > 1 THEN 1 ELSE 0)
                    - (IF n \in failed THEN 1 ELSE 0)
      BY <2>3 DEF N
    <3>5. references'[n] = (IF n = Root THEN 1 ELSE 0) - (IF n \in failed THEN 1 ELSE 0)
      BY ONLY <3>3, <3>4
    <3> QED BY <2>1, <3>2, <3>5 DEF Count
  <2> QED BY <2>2, <2>3
<1> QED BY <1>6, <1>7, <1>8, <1>9 DEF WalkInv

LEMMA ListFileInv == WalkInv /\ ListFile => WalkInv'
<1> SUFFICES ASSUME WalkInv, ListFile PROVE WalkInv'
  OBVIOUS
<1>1. /\ phase = "walk" /\ Node \in Files /\ out' = Append(out, Node)
      /\ Return(references) /\ badNames' = badNames /\ cached' = cached
      /\ failed' = failed
  BY DEF ListFile
<1>2. references \in [Nodes -> Int] /\ out' \in Seq(Files)
  BY <1>1 DEF WalkInv, WalkTypeOK
<1>3. Node \notin Dirs /\ Root \in Dirs /\ Node \in Nodes
  BY <1>1, TreeAssumption DEF Files
<1>4. ~Top.isOpen /\ Node \notin failed
  BY <1>1, <1>3, TopFrame DEF WalkInv, Shape, Node
<1>5. references[Node] = (IF Node = Root THEN 1 ELSE 0)
                         + (IF Len(stack) > 1 THEN 1 ELSE 0)
                         - (IF Node \in failed THEN 1 ELSE 0)
  <2>1. references[Node] = Count(Node)
    BY <1>1, <1>3 DEF WalkInv, Counted
  <2>2. (IsReached(Node) <=> Len(stack) > 1) /\ ~IsOpened(Node)
    BY <1>1, <1>4, TopCounts DEF WalkInv
  <2> QED BY <1>1, <1>4, <2>1, <2>2 DEF Count
<1>6. PICK r \in [Nodes -> Int] : r = references
  BY <1>2
<1> QED BY <1>1, <1>2, <1>5, <1>6, ReturnInv

LEMMA CloseDirInv == WalkInv /\ CloseDir => WalkInv'
<1> SUFFICES ASSUME WalkInv, CloseDir PROVE WalkInv'
  OBVIOUS
<1> DEFINE refs == [references EXCEPT ![Node] = @ - 1]
<1>1. /\ phase = "walk" /\ Top.isOpen /\ out' = out
      /\ Return(refs) /\ badNames' = badNames /\ cached' = cached
      /\ failed' = failed
  BY DEF CloseDir, Put
<1>2. references \in [Nodes -> Int] /\ out' \in Seq(Files) /\ Node \in Nodes
  BY <1>1, TopFrame DEF WalkInv, WalkTypeOK
<1>3. refs \in [Nodes -> Int] /\ \A n \in Nodes \ {Node} : refs[n] = references[n]
  BY <1>2
<1>4. refs[Node] = references[Node] - 1
  BY <1>2
<1> HIDE DEF refs
<1>5. refs[Node] = (IF Node = Root THEN 1 ELSE 0)
                   + (IF Len(stack) > 1 THEN 1 ELSE 0)
                   - (IF Node \in failed THEN 1 ELSE 0)
  <2>1. references[Node] = Count(Node)
    BY <1>1, <1>2 DEF WalkInv, Counted
  <2>2. /\ IsReached(Node) <=> Len(stack) > 1
        /\ IsOpened(Node) <=> Node \notin failed
        /\ OnStack(Node)
    BY <1>1, TopCounts DEF WalkInv
  <2>3. Count(Node) = (IF Node = Root THEN 1 ELSE 0)
                      + (IF Len(stack) > 1 THEN 1 ELSE 0)
                      + (IF Node \in failed THEN 0 ELSE 1)
    BY <1>1, <2>2 DEF Count
  <2> QED BY ONLY <1>4, <2>1, <2>3
<1>6. PICK r \in [Nodes -> Int] : r = refs
  BY <1>3
<1> QED BY <1>1, <1>2, <1>3, <1>5, <1>6, ReturnInv

-----------------------------------------------------------------------------
(* The end of the walk                                                     *)

LEMMA EndInv == WalkInv /\ (Abort \/ Unmount) => WalkInv'
<1> SUFFICES ASSUME WalkInv, Abort \/ Unmount PROVE WalkInv'
  OBVIOUS
<1>1. CASE Abort
  <2>1. phase' = "aborted" /\ UNCHANGED <<badNames, stack, references, cached, out, failed>>
    BY <1>1 DEF Abort
  <2>2. WalkTypeOK'
    <3>1. Follow'
      BY <2>1, FollowStays DEF WalkInv, Shape, WalkTypeOK
    <3> QED BY <2>1, <3>1 DEF WalkInv, WalkTypeOK, Follow
  <2>3. Shape'
    BY <2>1 DEF WalkInv, Shape
  <2>4. MetOnce'
    BY <2>1 DEF WalkInv, MetOnce, Met
  <2>5. Counted'
    BY <2>1 DEF Counted
  <2> QED BY <2>2, <2>3, <2>4, <2>5 DEF WalkInv
<1>2. CASE Unmount
  <2>1. /\ phase = "unmount" /\ phase' \in {"spin", "done"} /\ stack' = stack
        /\ badNames' = badNames /\ out' = out /\ failed' = failed
        /\ cached' \in {cached, {}}
    BY <1>2 DEF Unmount
  <2>2. stack = <<>>
    BY <2>1 DEF WalkInv, Shape
  <2>3. references' \in [Nodes -> Int]
    <3>1. Put(references, Root) \in [Nodes -> Int]
      BY TreeAssumption DEF WalkInv, WalkTypeOK, Put
    <3> QED BY <3>1, <1>2 DEF Unmount
  <2>4. WalkTypeOK'
    BY <2>1, <2>2, <2>3 DEF WalkInv, WalkTypeOK
  <2>5. Shape'
    BY <2>1, <2>2 DEF WalkInv, Shape
  <2>6. MetOnce'
    BY <2>1 DEF WalkInv, MetOnce, Met
  <2>7. Counted'
    BY <2>1 DEF Counted
  <2> QED BY <2>4, <2>5, <2>6, <2>7 DEF WalkInv
<1> QED BY <1>1, <1>2

LEMMA InitWalk == WalkInit => WalkInv
<1> SUFFICES ASSUME WalkInit PROVE WalkInv
  OBVIOUS
<1>1. /\ stack \in Seq(Frames) /\ DOMAIN stack = {1} /\ stack # <<>>
      /\ stack[1].node = Root /\ ~stack[1].isOpen /\ stack[1].current = 0
  BY TreeAssumption DEF WalkInit, Frame, Frames
<1>2. Root \in Dirs /\ Dirs \subseteq Nodes /\ Len(Entries[Root]) \in Nat
  BY TreeAssumption
<1>3. WalkTypeOK
  <2>1. Follow
    <3>1. Child(Root) = Entries[Root]
      BY DEF WalkInit, Child
    <3> QED BY <1>1, <1>2, <3>1 DEF Follow
  <2> QED BY <1>2, <2>1, EmptySeq DEF WalkInit, WalkTypeOK, Follow
<1>4. Shape
  BY <1>1 DEF WalkInit, Shape
<1>5. MetOnce
  <2>1. Met({Root})
    BY <1>1, <1>2, TreeAssumption DEF WalkInit, Met
  <2> QED BY <1>2, <2>1 DEF MetOnce
<1>6. Counted
  BY <1>1 DEF WalkInit, Counted, Count, IsReached, IsOpened
<1> QED BY <1>3, <1>4, <1>5, <1>6 DEF WalkInv

LEMMA NextWalk == WalkInv /\ [WalkNext]_walkVars => WalkInv'
<1> SUFFICES ASSUME WalkInv, [WalkNext]_walkVars PROVE WalkInv'
  OBVIOUS
<1>1. CASE UNCHANGED walkVars
  <2>1. UNCHANGED <<badNames, phase, stack, references, cached, out, failed>>
    BY <1>1 DEF walkVars
  <2>2. WalkTypeOK'
    <3>1. Follow'
      BY <2>1, FollowStays DEF WalkInv, Shape, WalkTypeOK
    <3> QED BY <2>1, <3>1 DEF WalkInv, WalkTypeOK, Follow
  <2>3. Shape'
    BY <2>1 DEF WalkInv, Shape
  <2>4. MetOnce'
    BY <2>1 DEF WalkInv, MetOnce, Met
  <2>5. Counted'
    BY <2>1 DEF WalkInv, Counted, Count, IsReached, IsOpened, OnStack
  <2> QED BY <2>2, <2>3, <2>4, <2>5 DEF WalkInv
<1> QED BY <1>1, OpenDirInv, OpenDirFailsInv, ReadDirInv, ListFileInv, CloseDirInv,
           EndInv DEF WalkNext

\* Through the whole walk every node is referenced by its holders and nobody
\* else, less one for each failure to open: exfat_get_node and exfat_put_node
\* are paired on every path of _dirsRecursiveWalk but that one.
THEOREM WalkIsSound == WalkSpec => []WalkSound
<1>1. WalkSpec => []WalkInv
  BY InitWalk, NextWalk, PTL DEF WalkSpec
<1> QED BY <1>1, CountIsHolders, PTL

-----------------------------------------------------------------------------
(* Induction.  The order of the natural numbers is well-founded, so a set   *)
(* of them has a least element; sets take the place of predicates.          *)

\* A set of natural numbers has a least element.
LEMMA LeastElement ==
    ASSUME NEW T, T \subseteq Nat, T # {}
    PROVE  \E m \in T : \A n \in T : m <= n
<1>1. PICK R : /\ IsWellFoundedOn(R, Nat)
               /\ \A n, k \in Nat : n < k => <<n, k>> \in R
  <2>1. \A n, k \in Nat : n < k => <<n, k>> \in OpToRel(<, Nat)
    BY DEF OpToRel
  <2> QED BY <2>1, NatLessThanWellFounded, Zenon
<1>2. PICK m \in T : \A n \in T : ~(<<n, m>> \in R)
  <2>1. IsWellFoundedOn(R, Nat) /\ T \subseteq Nat /\ T # {}
    BY <1>1
  <2>2. \A A, B, C : IsWellFoundedOn(A, B) /\ C \subseteq B /\ C # {} =>
          \E x \in C : \A y \in C : ~(<<y, x>> \in A)
    BY WFMin
  <2> QED BY ONLY <2>1, <2>2, Zenon
<1>3. ASSUME NEW n \in T PROVE m <= n
  <2>1. n \in Nat /\ m \in Nat
    OBVIOUS
  <2>2. ~(n < m)
    BY <1>1, <1>2, <2>1
  <2> QED BY ONLY <2>1, <2>2
<1> QED BY <1>3

\* A set with 0 and all successors is Nat.
LEMMA SetInduction ==
    ASSUME NEW S, 0 \in S, \A n \in Nat : n \in S => n + 1 \in S
    PROVE  Nat \subseteq S
<1> SUFFICES ASSUME Nat \ S # {} PROVE FALSE
  OBVIOUS
<1>1. PICK m \in Nat \ S : \A n \in Nat \ S : m <= n
  BY LeastElement
<1>2. m - 1 \in Nat /\ m - 1 \notin S
  BY <1>1
<1> QED BY <1>1, <1>2

-----------------------------------------------------------------------------
(* Concatenation.  FlattenSeq is defined by recursion; what is proved of it *)
(* is that it is the last of the running concatenations.                    *)

\* p[k] is the concatenation of the first k of the sequences g.
Running(p, N, T, g) ==
    /\ p \in [0 .. N -> Seq(T)]
    /\ p[0] = <<>>
    /\ \A k \in 0 .. N - 1 : p[k + 1] = p[k] \o g[k + 1]

\* The running concatenations exist.
LEMMA RunningExists ==
    ASSUME NEW T, NEW N \in Nat, NEW g \in [1 .. N -> Seq(T)]
    PROVE  \E p : Running(p, N, T, g)
<1> DEFINE S == {n \in Nat : n <= N => \E p : Running(p, n, T, g)}
<1>1. 0 \in S
  <2>1. Running([k \in 0 .. 0 |-> <<>>], 0, T, g)
    BY EmptySeq DEF Running
  <2> QED BY <2>1
<1>2. ASSUME NEW n \in Nat, n \in S PROVE n + 1 \in S
  <2> SUFFICES ASSUME n + 1 <= N PROVE \E p : Running(p, n + 1, T, g)
    OBVIOUS
  <2>1. PICK p : Running(p, n, T, g)
    BY <1>2
  <2> DEFINE q == [k \in 0 .. n + 1 |-> IF k = n + 1 THEN p[n] \o g[n + 1] ELSE p[k]]
  <2>2. p \in [0 .. n -> Seq(T)] /\ p[0] = <<>> /\ \A k \in 0 .. n - 1 : p[k + 1] = p[k] \o g[k + 1]
    BY <2>1 DEF Running
  <2>3. p[n] \o g[n + 1] \in Seq(T)
    <3>1. p[n] \in Seq(T) /\ g[n + 1] \in Seq(T)
      BY <2>2
    <3> QED BY <3>1, ConcatProperties
  <2>4. q \in [0 .. n + 1 -> Seq(T)]
    BY <2>2, <2>3
  <2>5. q[0] = <<>>
    BY <2>2
  <2>6. ASSUME NEW k \in 0 .. n PROVE q[k + 1] = q[k] \o g[k + 1]
    <3>1. CASE k = n
      <4>1. q[n + 1] = p[n] \o g[n + 1] /\ q[n] = p[n]
        <5>1. n + 1 \in 0 .. n + 1 /\ n \in 0 .. n + 1 /\ n # n + 1
          OBVIOUS
        <5> QED BY ONLY <5>1
      <4> HIDE DEF q
      <4> QED BY <3>1, <4>1
    <3>2. CASE k # n
      <4>1. k \in 0 .. n - 1 /\ k + 1 \in 0 .. n + 1 /\ k + 1 # n + 1 /\ k # n + 1
        BY <3>2
      <4>2. q[k + 1] = p[k + 1] /\ q[k] = p[k]
        BY <4>1
      <4> QED BY <2>2, <4>1, <4>2
    <3> QED BY <3>1, <3>2
  <2>7. \A k \in 0 .. (n + 1) - 1 : k \in 0 .. n
    OBVIOUS
  <2>8. Running(q, n + 1, T, g)
    <3> HIDE DEF q
    <3>1. \A k \in 0 .. (n + 1) - 1 : q[k + 1] = q[k] \o g[k + 1]
      BY <2>6, <2>7
    <3> QED BY <2>4, <2>5, <3>1, Zenon DEF Running
  <2> QED BY <2>8
<1> HIDE DEF S
<1>3. Nat \subseteq S
  BY <1>1, <1>2, SetInduction
<1> QED BY <1>3 DEF S

\* FlattenSeq is the last of the running concatenations.
LEMMA Flattens ==
    ASSUME NEW T, NEW N \in Nat, NEW g \in [1 .. N -> Seq(T)]
    PROVE  \E p : /\ Running(p, N, T, g)
                  /\ \A s \in Seq(Seq(T)) :
                       /\ Len(s) \in 0 .. N
                       /\ \A k \in 1 .. Len(s) : s[k] = g[k]
                       => FlattenSeq(s) = p[Len(s)]
<1>p. PICK p : Running(p, N, T, g)
  BY RunningExists
<1>s. SUFFICES ASSUME NEW s \in Seq(Seq(T)), NEW n \in 0 .. N, Len(s) = n,
                     \A k \in 1 .. n : s[k] = g[k]
              PROVE  FlattenSeq(s) = p[n]
  <2>1. \A s \in Seq(Seq(T)) :
          /\ Len(s) \in 0 .. N
          /\ \A k \in 1 .. Len(s) : s[k] = g[k]
          => FlattenSeq(s) = p[Len(s)]
    OBVIOUS
  <2> QED BY ONLY <1>p, <2>1, Zenon
<1>1. s \in Seq(Seq(T)) /\ Len(s) = n /\ \A k \in 1 .. n : s[k] = g[k]
  BY <1>s
<1>2. p[0] = <<>> /\ (\A k \in 0 .. n : p[k] \in Seq(T))
      /\ \A k \in 0 .. n - 1 : p[k + 1] = p[k] \o g[k + 1]
  <2>1. /\ p \in [0 .. N -> Seq(T)]
        /\ p[0] = <<>>
        /\ \A k \in 0 .. N - 1 : p[k + 1] = p[k] \o g[k + 1]
    BY <1>p DEF Running
  <2>2. (\A k \in 0 .. n : k \in 0 .. N) /\ \A k \in 0 .. n - 1 : k \in 0 .. N - 1
    OBVIOUS
  <2>3. \A k \in 0 .. n : p[k] \in Seq(T)
    BY ONLY <2>1, <2>2, Zenon
  <2>4. \A k \in 0 .. n - 1 : p[k + 1] = p[k] \o g[k + 1]
    BY ONLY <2>1, <2>2, Zenon
  <2> QED BY <2>1, <2>3, <2>4
<1>3. CASE n = 0
  <2>1. s = <<>>
    BY <1>1, <1>3, EmptySeq
  <2>2. FlattenSeq(s) = <<>>
    BY <2>1, <1>1, <1>3 DEF FlattenSeq
  <2> QED BY <2>2, <1>2, <1>3
<1>4. CASE n # 0
  <2> DEFINE IsFlat(f) == f = [i \in 1 .. Len(s) |-> IF i = 1 THEN s[i] ELSE f[i - 1] \o s[i]]
             q == [i \in 1 .. n |-> p[i]]
  <2>1. IsFlat(q)
    <3>1. ASSUME NEW i \in 1 .. n
          PROVE  p[i] = IF i = 1 THEN g[i] ELSE q[i - 1] \o g[i]
      <4>1. PICK j \in 0 .. n - 1 : j + 1 = i
        <5>1. i - 1 \in 0 .. n - 1 /\ (i - 1) + 1 = i
          OBVIOUS
        <5> QED BY <5>1
      <4>2. p[j + 1] = p[j] \o g[j + 1]
        BY <1>2
      <4>3. CASE j = 0
        <5>1. g[1] \in Seq(T)
          BY <4>1, <4>3
        <5>2. <<>> \o g[1] = g[1]
          BY <5>1, ConcatEmptySeq
        <5> QED BY <5>2, <4>1, <4>2, <4>3, <1>2
      <4>4. CASE j # 0
        <5>1. q[j] = p[j] /\ i - 1 = j /\ i # 1
          BY <4>1, <4>4
        <5> QED BY <5>1, <4>1, <4>2
      <4> QED BY <4>3, <4>4
    <3>2. \A i \in 1 .. n : p[i] = IF i = 1 THEN s[i] ELSE q[i - 1] \o s[i]
      BY <3>1, <1>1
    <3> QED BY <3>2, <1>1
  <2>2. PICK f : IsFlat(f) /\ FlattenSeq(s) = f[Len(s)]
    <3>1. IsFlat(CHOOSE f : IsFlat(f))
      <4> HIDE DEF IsFlat
      <4> QED BY <2>1
    <3>2. FlattenSeq(s) = (CHOOSE f : IsFlat(f))[Len(s)]
      BY <1>1, <1>4 DEF FlattenSeq
    <3> QED BY <3>1, <3>2, Zenon
  <2>3. \A i \in 1 .. n : f[i] = IF i = 1 THEN g[i] ELSE f[i - 1] \o g[i]
    BY <2>2, <1>1
  <2> DEFINE S == {i \in Nat : i + 1 <= n => f[i + 1] = p[i + 1]}
  <2>4. 0 \in S
    <3>1. 1 \in 1 .. n /\ 0 \in 0 .. n - 1
      BY <1>4
    <3>2. f[1] = g[1]
      BY <3>1, <2>3
    <3>3. g[1] \in Seq(T)
      BY <3>1
    <3>4. <<>> \o g[1] = g[1]
      BY <3>3, ConcatEmptySeq
    <3>5. p[0 + 1] = p[0] \o g[0 + 1]
      BY ONLY <3>1, <1>2, Zenon
    <3>6. 0 + 1 = 1
      OBVIOUS
    <3> QED BY <3>2, <3>4, <3>5, <3>6, <1>2
  <2>5. ASSUME NEW i \in Nat, i \in S PROVE i + 1 \in S
    <3> SUFFICES ASSUME i + 2 <= n PROVE f[i + 2] = p[i + 2]
      OBVIOUS
    <3>1. PICK j \in 1 .. n - 1 : j = i + 1
      OBVIOUS
    <3>2. f[j] = p[j]
      BY <2>5, <3>1
    <3>3. f[j + 1] = f[j] \o g[j + 1]
      <4>1. j + 1 \in 1 .. n /\ j + 1 # 1 /\ (j + 1) - 1 = j
        OBVIOUS
      <4> QED BY <4>1, <2>3
    <3>4. p[j + 1] = p[j] \o g[j + 1]
      <4>1. j \in 0 .. n - 1
        OBVIOUS
      <4> QED BY ONLY <4>1, <1>2, Zenon
    <3>5. i + 2 = j + 1
      BY <3>1
    <3> QED BY <3>2, <3>3, <3>4, <3>5
  <2> HIDE DEF S
  <2>6. Nat \subseteq S
    BY <2>4, <2>5, SetInduction
  <2>7. f[n] = p[n]
    <3>1. PICK m \in Nat : m = n - 1 /\ m + 1 = n
      BY <1>4
    <3>2. m \in S
      BY <3>1, <2>6
    <3>3. m + 1 <= n
      BY <3>1
    <3>4. f[m + 1] = p[m + 1]
      BY <3>2, <3>3 DEF S
    <3> QED BY <3>1, <3>4
  <2> QED BY <2>2, <2>7, <1>1
<1> QED BY <1>3, <1>4

-----------------------------------------------------------------------------
(* The recursive definition of what is below a node.  A function that obeys *)
(* it exists because the tree is well-founded, and there is only one.       *)

\* What is below n, if b says what is below its entries and the directories of
\* F do not open.
ListingOf(b, F, n) ==
    IF n \in Files THEN <<n>>
    ELSE IF n \in F THEN <<>>
    ELSE FlattenSeq([k \in DOMAIN Entries[n] |-> b[Entries[n][k]]])

IsListing(b, F) == b = [n \in Nodes |-> ListingOf(b, F, n)]

\* S is closed: it holds the entries of its directories, failed ones excepted.
Closed(S, F) ==
    /\ S \subseteq Nodes
    /\ \A d \in S : d \in Dirs \ F =>
                      \A k \in DOMAIN Entries[d] : Entries[d][k] \in S

\* b obeys the definition on S.
Obeys(b, F, S) == \A n \in S : b[n] = ListingOf(b, F, n)

\* Functions that agree on the entries of a node agree on what is below it.
LEMMA ListingOfAgrees ==
    ASSUME NEW F, NEW G, NEW a, NEW b, NEW n, n \in F <=> n \in G,
           n \in Dirs \ F => \A k \in DOMAIN Entries[n] : a[Entries[n][k]] = b[Entries[n][k]],
           n \in Nodes
    PROVE  ListingOf(a, F, n) = ListingOf(b, G, n)
<1>1. CASE n \in Files \/ n \in F
  BY <1>1 DEF ListingOf
<1>2. CASE n \notin Files /\ n \notin F
  <2>1. n \in Dirs \ F
    BY <1>2 DEF Files
  <2>2. [k \in DOMAIN Entries[n] |-> a[Entries[n][k]]]
        = [k \in DOMAIN Entries[n] |-> b[Entries[n][k]]]
    BY <2>1
  <2> QED BY <1>2, <2>2 DEF ListingOf
<1> QED BY <1>1, <1>2

\* What obeys the definition on a closed set is determined there.
LEMMA ListingsAgree ==
    ASSUME NEW F, NEW G, NEW a, NEW b, NEW S, Closed(S, F),
           Obeys(a, F, S), Obeys(b, G, S), \A n \in S : n \in F <=> n \in G
    PROVE  \A n \in S : a[n] = b[n]
<1> DEFINE C == {n \in S : a[n] # b[n]}
<1> SUFFICES ASSUME C # {} PROVE FALSE
  OBVIOUS
<1>1. C \in SUBSET Nodes
  BY DEF Closed
<1>2. PICK n \in C : n \in Dirs => \A k \in DOMAIN Entries[n] : Entries[n][k] \notin C
  <2> HIDE DEF C
  <2> QED BY <1>1, TreeAssumption
<1>3. n \in S /\ n \in Nodes /\ a[n] # b[n]
  BY <1>1, <1>2
<1>4. n \in Dirs \ F => \A k \in DOMAIN Entries[n] : a[Entries[n][k]] = b[Entries[n][k]]
  BY <1>2, <1>3 DEF Closed
<1>5. ListingOf(a, F, n) = ListingOf(b, G, n)
  BY <1>3, <1>4, ListingOfAgrees
<1> QED BY <1>3, <1>5 DEF Obeys

LEMMA ListingExists == ASSUME NEW F PROVE \E b : IsListing(b, F)
<1> DEFINE Partial(S, b) == Closed(S, F) /\ Obeys(b, F, S)
           Good == {n \in Nodes : \E S, b : Partial(S, b) /\ n \in S}
           val == [n \in Nodes |-> CHOOSE v : \E S, b : Partial(S, b) /\ n \in S /\ v = b[n]]
<1>1. ASSUME NEW S, NEW b, Partial(S, b), NEW n \in S PROVE val[n] = b[n]
  <2>1. n \in Nodes
    BY <1>1 DEF Closed
  <2>2. PICK T, c : Partial(T, c) /\ n \in T /\ val[n] = c[n]
    <3> HIDE DEF Partial
    <3> QED BY <1>1, <2>1
  <2>3. Closed(S \cap T, F) /\ Obeys(b, F, S \cap T) /\ Obeys(c, F, S \cap T)
    BY <1>1, <2>2 DEF Closed, Obeys
  <2>4. b[n] = c[n]
    <3> HIDE DEF Partial
    <3>1. \A m \in S \cap T : b[m] = c[m]
      BY <2>3, ListingsAgree
    <3> QED BY <3>1, <2>2, <1>1
  <2> QED BY <2>2, <2>4
<1> HIDE DEF val
<1>2. Closed(Good, F)
  BY DEF Closed
<1>3. Obeys(val, F, Good)
  <2> SUFFICES ASSUME NEW n \in Good PROVE val[n] = ListingOf(val, F, n)
    BY DEF Obeys
  <2>1. PICK S, b : Partial(S, b) /\ n \in S
    OBVIOUS
  <2>2. val[n] = b[n] /\ b[n] = ListingOf(b, F, n) /\ n \in Nodes
    BY <1>1, <2>1 DEF Obeys, Closed
  <2>3. n \in Dirs \ F =>
          \A k \in DOMAIN Entries[n] : b[Entries[n][k]] = val[Entries[n][k]]
    <3>1. n \in Dirs \ F => \A k \in DOMAIN Entries[n] : Entries[n][k] \in S
      BY <2>1 DEF Closed
    <3> HIDE DEF Partial
    <3> QED BY <1>1, <2>1, <3>1
  <2>4. ListingOf(b, F, n) = ListingOf(val, F, n)
    BY <2>2, <2>3, ListingOfAgrees
  <2> QED BY <2>2, <2>4
<1>4. Nodes \subseteq Good
  <2> SUFFICES ASSUME Nodes \ Good # {} PROVE FALSE
    OBVIOUS
  <2>1. PICK n \in Nodes \ Good :
          n \in Dirs => \A k \in DOMAIN Entries[n] : Entries[n][k] \notin Nodes \ Good
    <3> HIDE DEF Good
    <3>1. Nodes \ Good \in SUBSET Nodes
      OBVIOUS
    <3> QED BY <3>1, TreeAssumption
  <2>2. n \in Dirs => \A k \in DOMAIN Entries[n] : Entries[n][k] \in Good
    <3>1. n \in Dirs => \A k \in DOMAIN Entries[n] : Entries[n][k] \in Nodes
      BY TreeAssumption
    <3> HIDE DEF Good
    <3> QED BY <2>1, <3>1
  <2> DEFINE c == [m \in Nodes |-> IF m = n THEN ListingOf(val, F, n) ELSE val[m]]
             S == Good \cup {n}
  <2>3. Closed(S, F)
    <3> HIDE DEF Good
    <3> QED BY <1>2, <2>1, <2>2 DEF Closed
  <2>4. Obeys(c, F, S)
    <3> SUFFICES ASSUME NEW m \in S PROVE c[m] = ListingOf(c, F, m)
      BY DEF Obeys
    <3>1. m \in Nodes
      BY <2>1
    <3>2. c[m] = ListingOf(val, F, m)
      <4> HIDE DEF Good
      <4> QED BY <1>3, <3>1 DEF Obeys
    <3>3. m \in Dirs \ F => \A k \in DOMAIN Entries[m] : Entries[m][k] \in Good
      <4> HIDE DEF Good
      <4> QED BY <1>2, <2>2 DEF Closed
    <3>4. \A o \in Good : val[o] = c[o]
      BY <2>1
    <3>5. m \in Dirs \ F => \A k \in DOMAIN Entries[m] : val[Entries[m][k]] = c[Entries[m][k]]
      <4> HIDE DEF Good, c
      <4> QED BY <3>3, <3>4
    <3>6. ListingOf(val, F, m) = ListingOf(c, F, m)
      <4> HIDE DEF Good, c
      <4> QED BY <3>1, <3>5, ListingOfAgrees
    <3> QED BY <3>2, <3>6
  <2>5. Partial(S, c)
    <3> HIDE DEF Good, c, S
    <3> QED BY <2>3, <2>4
  <2>6. n \in Good
    <3>1. n \in S
      OBVIOUS
    <3> HIDE DEF Partial, c, S
    <3> QED BY <2>1, <2>5, <3>1
  <2> QED BY <2>1, <2>6
<1>5. Obeys(val, F, Nodes)
  <2> HIDE DEF Good
  <2> QED BY <1>3, <1>4 DEF Obeys
<1>6. IsListing(val, F)
  <2>1. \A n \in Nodes : val[n] = ListingOf(val, F, n)
    BY <1>5 DEF Obeys
  <2>2. val = [n \in Nodes |-> val[n]]
    BY DEF val
  <2> QED BY <2>1, <2>2 DEF IsListing
<1> QED BY <1>6

\* The first c entries of d, and what is below them.
Part(b, d, c) == FlattenSeq([k \in 1 .. c |-> b[Entries[d][k]]])

LEMMA PartGrows ==
    ASSUME NEW b, NEW d \in Dirs, \A k \in DOMAIN Entries[d] : b[Entries[d][k]] \in Seq(Files)
    PROVE  /\ Part(b, d, 0) = <<>>
           /\ \A c \in 0 .. Len(Entries[d]) : Part(b, d, c) \in Seq(Files)
           /\ \A c \in 0 .. Len(Entries[d]) - 1 :
                Part(b, d, c + 1) = Part(b, d, c) \o b[Entries[d][c + 1]]
<1> DEFINE N == Len(Entries[d])
           g == [k \in 1 .. N |-> b[Entries[d][k]]]
<1>1. N \in Nat /\ DOMAIN Entries[d] = 1 .. N
  BY TreeAssumption
<1>2. g \in [1 .. N -> Seq(Files)]
  BY <1>1
<1>3. PICK p : /\ Running(p, N, Files, g)
               /\ \A s \in Seq(Seq(Files)) :
                    /\ Len(s) \in 0 .. N
                    /\ \A k \in 1 .. Len(s) : s[k] = g[k]
                    => FlattenSeq(s) = p[Len(s)]
  <2> HIDE DEF g, N
  <2> QED BY <1>1, <1>2, Flattens
<1>4. ASSUME NEW c \in 0 .. N PROVE Part(b, d, c) = p[c]
  <2> DEFINE s == [k \in 1 .. c |-> b[Entries[d][k]]]
  <2>1. \A k \in 1 .. c : g[k] = b[Entries[d][k]] /\ b[Entries[d][k]] \in Seq(Files)
    BY <1>1
  <2>2. s \in Seq(Seq(Files)) /\ Len(s) = c /\ \A k \in 1 .. c : s[k] = g[k]
    <3>1. c \in Nat
      BY <1>1
    <3> HIDE DEF g, N
    <3> QED BY <2>1, <3>1
  <2>3. FlattenSeq(s) = p[c]
    <3> HIDE DEF g, N, s
    <3> QED BY <1>3, <1>4, <2>2
  <2> QED BY <2>3 DEF Part
<1>5. /\ p \in [0 .. N -> Seq(Files)] /\ p[0] = <<>>
      /\ \A k \in 0 .. N - 1 : p[k + 1] = p[k] \o g[k + 1]
  <2> HIDE DEF g, N
  <2> QED BY <1>3, Zenon DEF Running
<1>6. Part(b, d, 0) = <<>>
  <2>1. 0 \in 0 .. N
    BY <1>1
  <2> QED BY <2>1, <1>4, <1>5
<1>7. \A c \in 0 .. N : Part(b, d, c) \in Seq(Files)
  <2> HIDE DEF g, N
  <2> QED BY <1>4, <1>5
<1>8. ASSUME NEW c \in 0 .. N - 1
      PROVE  Part(b, d, c + 1) = Part(b, d, c) \o b[Entries[d][c + 1]]
  <2>1. c \in 0 .. N /\ c + 1 \in 0 .. N /\ c + 1 \in 1 .. N
    BY <1>1
  <2>2. p[c + 1] = p[c] \o g[c + 1]
    <3> HIDE DEF g, N
    <3> QED BY <1>5
  <2>3. g[c + 1] = b[Entries[d][c + 1]]
    BY <2>1
  <2> HIDE DEF g, N
  <2> QED BY <2>1, <2>2, <2>3, <1>4
<1> QED BY <1>6, <1>7, <1>8

\* A directory that opens lists what is below its entries.
LEMMA DirIsPart ==
    ASSUME NEW b, NEW F, NEW d \in Dirs \ F, IsListing(b, F)
    PROVE  b[d] = Part(b, d, Len(Entries[d]))
<1>1. d \in Nodes /\ d \notin Files /\ DOMAIN Entries[d] = 1 .. Len(Entries[d])
  BY TreeAssumption DEF Files
<1>2. b[d] = ListingOf(b, F, d)
  <2>1. \A n \in Nodes : b[n] = ListingOf(b, F, n)
    BY DEF IsListing
  <2> QED BY <1>1, <2>1
<1> QED BY <1>1, <1>2 DEF ListingOf, Part

LEMMA ListingType ==
    ASSUME NEW b, NEW F, IsListing(b, F)
    PROVE  b \in [Nodes -> Seq(Files)]
<1>1. \A n \in Nodes : b[n] = ListingOf(b, F, n)
  BY DEF IsListing
<1> DEFINE C == {n \in Nodes : b[n] \notin Seq(Files)}
<1>2. C = {}
  <2> SUFFICES ASSUME C # {} PROVE FALSE
    OBVIOUS
  <2>1. PICK n \in C : n \in Dirs => \A k \in DOMAIN Entries[n] : Entries[n][k] \notin C
    <3>1. C \in SUBSET Nodes
      OBVIOUS
    <3> HIDE DEF C
    <3> QED BY <3>1, TreeAssumption
  <2>2. CASE n \in Files
    <3>1. b[n] = <<n>>
      BY <1>1, <2>1, <2>2 DEF ListingOf
    <3>2. <<n>> \in Seq(Files)
      BY <2>2
    <3> QED BY <2>1, <3>1, <3>2
  <2>3. CASE n \in Dirs /\ n \in F
    <3>1. n \notin Files
      BY <2>3 DEF Files
    <3> QED BY <1>1, <2>1, <2>3, <3>1, EmptySeq DEF ListingOf
  <2>4. CASE n \in Dirs \ F
    <3>1. \A k \in DOMAIN Entries[n] : Entries[n][k] \in Nodes
      BY <2>4, TreeAssumption
    <3>2. \A k \in DOMAIN Entries[n] : b[Entries[n][k]] \in Seq(Files)
      BY <2>1, <2>4, <3>1
    <3>3. Len(Entries[n]) \in 0 .. Len(Entries[n])
      BY <2>4, TreeAssumption
    <3>4. b[n] \in Seq(Files)
      <4>1. Part(b, n, Len(Entries[n])) \in Seq(Files)
        BY <2>4, <3>2, <3>3, PartGrows
      <4>2. b[n] = Part(b, n, Len(Entries[n]))
        BY <2>4, DirIsPart
      <4> QED BY <4>1, <4>2
    <3> QED BY <2>1, <3>4
  <2> QED BY <2>1, <2>2, <2>3, <2>4 DEF Files
<1>3. b = [n \in Nodes |-> b[n]]
  BY DEF IsListing
<1> QED BY <1>2, <1>3

-----------------------------------------------------------------------------
(* The list.                                                               *)

\* The entries of a frame's directory that are dealt with.
Done(k) == IF k < Len(stack) THEN stack[k].current - 1 ELSE stack[k].current

\* F: the nodes that the walk is through with.
Through(F) ==
    /\ Closed(F, failed)
    /\ \A k \in DOMAIN stack : stack[k].node \notin F
    /\ \A k \in DOMAIN stack :
         stack[k].node \in Dirs =>
            \A c \in DOMAIN Entries[stack[k].node] :
               c <= Done(k) => Entries[stack[k].node][c] \in F
    /\ \A d \in Dirs : \A c \in DOMAIN Entries[d] :
         Entries[d][c] \in F =>
            d \in F \/ \E k \in DOMAIN stack : stack[k].node = d /\ c <= Done(k)
    /\ \A k \in DOMAIN stack : stack[k].isOpen => stack[k].node \in cached \cup failed

\* p[k]: what had been listed when frame k was entered.
Listed(b, p) ==
    /\ p \in [1 .. Len(stack) + 1 -> Seq(Files)]
    /\ p[1] = <<>>
    /\ \A k \in DOMAIN stack : p[k + 1] = p[k] \o Part(b, stack[k].node, Done(k))
    /\ out = p[Len(stack) + 1]

Walking(b, F, p) == IsListing(b, failed) /\ Through(F) /\ Listed(b, p)

EndedAs(b) == IsListing(b, failed) /\ out = b[Root]

ListSoFar ==
    /\ phase = "walk" => \E b, F, p : Walking(b, F, p)
    /\ phase \in {"unmount", "done", "spin"} => \E b : EndedAs(b)

LEMMA ListingObeys ==
    ASSUME NEW b, NEW F, IsListing(b, F)
    PROVE  \A n \in Nodes : b[n] = ListingOf(b, F, n)
BY DEF IsListing

LEMMA PartNone == \A b, d : Part(b, d, 0) = <<>>
<1> SUFFICES ASSUME NEW b, NEW d PROVE Part(b, d, 0) = <<>>
  OBVIOUS
<1> DEFINE s == [k \in 1 .. 0 |-> b[Entries[d][k]]]
<1>1. s = <<>> /\ Len(s) = 0
  BY EmptySeq
<1>2. FlattenSeq(s) = s
  <2> HIDE DEF s
  <2> QED BY <1>1 DEF FlattenSeq
<1> QED BY <1>1, <1>2 DEF Part

LEMMA PartAgrees ==
    ASSUME NEW a, NEW b, NEW d, NEW n, \A c \in 1 .. n : a[Entries[d][c]] = b[Entries[d][c]]
    PROVE  Part(a, d, n) = Part(b, d, n)
<1>1. [c \in 1 .. n |-> a[Entries[d][c]]] = [c \in 1 .. n |-> b[Entries[d][c]]]
  OBVIOUS
<1> QED BY <1>1 DEF Part

\* A frame above which there is another is in the middle of its directory.
LEMMA DoneIs ==
    ASSUME WalkInv, phase = "walk", NEW k \in DOMAIN stack
    PROVE  /\ Done(k) \in Nat
           /\ stack[k].node \notin Dirs => Done(k) = 0
           /\ stack[k].node \in Dirs => Done(k) <= Len(Entries[stack[k].node])
           /\ k < Len(stack) =>
                /\ stack[k].node \in cached /\ k + 1 \in DOMAIN stack
                /\ stack[k].current \in DOMAIN Entries[stack[k].node]
                /\ stack[k + 1].node = Entries[stack[k].node][stack[k].current]
<1> DEFINE d == stack[k].node
           c == stack[k].current
<1>1. /\ Len(stack) \in Nat /\ DOMAIN stack = 1 .. Len(stack)
      /\ c \in 0 .. Len(Child(d))
      /\ cached \subseteq Dirs
  BY TopFrame DEF WalkInv, WalkTypeOK
<1>2. \A e \in Dirs : Len(Entries[e]) \in Nat /\ DOMAIN Entries[e] = 1 .. Len(Entries[e])
  BY TreeAssumption
<1>3. CASE k < Len(stack)
  <2>1. k + 1 \in DOMAIN stack /\ k + 1 > 1 /\ (k + 1) - 1 = k
    BY <1>1, <1>3
  <2>2. \A m \in DOMAIN stack : m > 1 =>
          \E e \in DOMAIN Child(stack[m - 1].node) :
             /\ e = stack[m - 1].current
             /\ stack[m].node = Child(stack[m - 1].node)[e]
    BY DEF WalkInv, WalkTypeOK
  <2>3. c \in DOMAIN Child(d) /\ stack[k + 1].node = Child(d)[c]
    BY <2>1, <2>2
  <2>4. d \in cached /\ Child(d) = Entries[d]
    BY <2>3 DEF Child
  <2>5. Done(k) = c - 1
    BY <1>3 DEF Done
  <2>6. d \in Dirs /\ c \in 1 .. Len(Entries[d]) /\ Len(Entries[d]) \in Nat
    BY <1>1, <1>2, <2>3, <2>4
  <2> HIDE DEF c, d
  <2>7. Done(k) \in Nat /\ Done(k) <= Len(Entries[d])
    BY ONLY <2>5, <2>6
  <2> QED BY <2>1, <2>3, <2>4, <2>6, <2>7 DEF c, d
<1>4. CASE ~(k < Len(stack))
  <2>1. Done(k) = c
    BY <1>4 DEF Done
  <2>2. CASE d \in cached
    BY <2>1, <2>2, <1>1, <1>2, <1>4 DEF Child
  <2>3. CASE d \notin cached
    <3>1. Len(Child(d)) = 0
      BY <2>3 DEF Child
    <3> QED BY <3>1, <2>1, <1>1, <1>2, <1>4
  <2> QED BY <2>2, <2>3
<1> QED BY <1>3, <1>4

\* What a frame has listed is below nodes the walk is through with.
LEMMA DoneAreThrough ==
    ASSUME WalkInv, phase = "walk", NEW F, Through(F), NEW k \in DOMAIN stack,
           NEW c \in 1 .. Done(k)
    PROVE  Entries[stack[k].node][c] \in F
<1>1. /\ Done(k) \in Nat
      /\ stack[k].node \notin Dirs => Done(k) = 0
      /\ stack[k].node \in Dirs => Done(k) <= Len(Entries[stack[k].node])
  BY DoneIs
<1>2. stack[k].node \in Dirs /\ c <= Done(k)
  BY <1>1
<1>3. Len(Entries[stack[k].node]) \in Nat
      /\ DOMAIN Entries[stack[k].node] = 1 .. Len(Entries[stack[k].node])
  BY <1>2, TreeAssumption
<1>4. c \in DOMAIN Entries[stack[k].node]
  BY <1>1, <1>2, <1>3
<1> QED BY <1>2, <1>4 DEF Through

\* Opening lists nothing, whether it fails or not.
LEMMA FramesStay ==
    ASSUME WalkInv, phase = "walk", NEW b, NEW F, NEW p, Walking(b, F, p),
           NEW a, IsListing(a, failed'), \A n \in F : n \in failed <=> n \in failed',
           failed \subseteq failed',
           stack' \in Seq(Frames), DOMAIN stack' = DOMAIN stack,
           \A k \in DOMAIN stack : /\ stack'[k].node = stack[k].node
                                   /\ stack'[k].current = stack[k].current,
           \A k \in DOMAIN stack : stack'[k].isOpen => stack[k].node \in cached' \cup failed',
           out' = out
    PROVE  Walking(a, F, p)'
<1>1. Len(stack') = Len(stack)
  BY TopFrame DEF WalkInv
<1>2. \A k \in DOMAIN stack : (Done(k))' = Done(k)
  BY <1>1 DEF Done
<1>3. IsListing(b, failed) /\ Through(F) /\ Listed(b, p)
  BY DEF Walking
<1>4. Through(F)'
  <2>1. Closed(F, failed')
    BY <1>3 DEF Through, Closed
  <2>2. \A k \in DOMAIN stack' : stack'[k].node \notin F
    BY <1>3 DEF Through
  <2>3. \A k \in DOMAIN stack' :
          stack'[k].node \in Dirs =>
             \A c \in DOMAIN Entries[stack'[k].node] :
                c <= (Done(k))' => Entries[stack'[k].node][c] \in F
    BY <1>2, <1>3 DEF Through
  <2>4. \A d \in Dirs : \A c \in DOMAIN Entries[d] :
          Entries[d][c] \in F =>
             d \in F \/ \E k \in DOMAIN stack' : stack'[k].node = d /\ c <= (Done(k))'
    BY <1>2, <1>3 DEF Through
  <2>5. \A k \in DOMAIN stack' : stack'[k].isOpen => stack'[k].node \in cached' \cup failed'
    OBVIOUS
  <2> QED BY <2>1, <2>2, <2>3, <2>4, <2>5 DEF Through
<1>5. \A n \in F : a[n] = b[n]
  <2>1. F \subseteq Nodes /\ Closed(F, failed)
    BY <1>3 DEF Through, Closed
  <2>2. Obeys(b, failed, F)
    BY <2>1, <1>3, ListingObeys DEF Obeys
  <2>3. Obeys(a, failed', F)
    BY <2>1, ListingObeys DEF Obeys
  <2> QED BY <2>1, <2>2, <2>3, ListingsAgree
<1>6. Listed(a, p)'
  <2>1. \A k \in DOMAIN stack : Part(a, stack[k].node, Done(k)) = Part(b, stack[k].node, Done(k))
    <3> SUFFICES ASSUME NEW k \in DOMAIN stack
                 PROVE  Part(a, stack[k].node, Done(k)) = Part(b, stack[k].node, Done(k))
      OBVIOUS
    <3>1. \A c \in 1 .. Done(k) : Entries[stack[k].node][c] \in F
      BY <1>3, DoneAreThrough
    <3> QED BY <3>1, <1>5, PartAgrees
  <2>2. \A k \in DOMAIN stack : p[k + 1] = p[k] \o Part(b, stack[k].node, Done(k))
    BY <1>3 DEF Listed
  <2>3. \A k \in DOMAIN stack' : p[k + 1] = p[k] \o Part(a, stack'[k].node, (Done(k))')
    BY <1>2, <2>1, <2>2
  <2> QED BY <1>1, <1>3, <2>3 DEF Listed
<1> QED BY <1>4, <1>6 DEF Walking

LEMMA OpenList ==
    ASSUME WalkInv, ListSoFar, OpenDir \/ OpenDirFails
    PROVE  ListSoFar'
<1>1. /\ phase = "walk" /\ phase' = phase /\ out' = out
      /\ stack' = SetTop([Top EXCEPT !.isOpen = TRUE])
      /\ \/ failed' = failed /\ cached' = cached \cup {Node}
         \/ failed' = failed \cup {Node} /\ cached' = cached
  BY DEF OpenDir, OpenDirFails
<1>2. PICK b, F, p : Walking(b, F, p)
  BY <1>1 DEF ListSoFar
<1>3. PICK a : IsListing(a, failed')
  BY ListingExists
<1>4. /\ stack' \in Seq(Frames) /\ DOMAIN stack' = DOMAIN stack
      /\ \A k \in DOMAIN stack :
           /\ stack'[k].node = stack[k].node
           /\ stack'[k].current = stack[k].current
           /\ stack'[k].isOpen <=> stack[k].isOpen \/ k = Len(stack)
  BY <1>1, OpenedTop DEF WalkInv
<1>5. Len(stack) \in DOMAIN stack /\ Node = stack[Len(stack)].node
  BY <1>1, TopFrame DEF WalkInv, Node
<1>6. Through(F)
  BY <1>2 DEF Walking
<1>7. Node \notin F
  BY <1>5, <1>6 DEF Through
<1>8. failed \subseteq failed' /\ \A n \in F : n \in failed <=> n \in failed'
  BY <1>1, <1>7
<1>9. \A k \in DOMAIN stack : stack'[k].isOpen => stack[k].node \in cached' \cup failed'
  BY <1>1, <1>4, <1>5, <1>6 DEF Through
<1>10. \A k \in DOMAIN stack : /\ stack'[k].node = stack[k].node
                               /\ stack'[k].current = stack[k].current
  BY <1>4
<1>11. Walking(a, F, p)'
  BY <1>1, <1>2, <1>3, <1>4, <1>8, <1>9, <1>10, FramesStay
<1> QED BY <1>1, <1>11 DEF ListSoFar

LEMMA ReadDirList ==
    ASSUME WalkInv, ListSoFar, ReadDir
    PROVE  ListSoFar'
<1>0. PICK N, c, n : N = Len(stack) /\ c = Top.current + 1 /\ n = Child(Node)[c]
  OBVIOUS
<1>1. /\ phase = "walk" /\ phase' = "walk" /\ Node \in Dirs /\ Top.isOpen
      /\ Top.current < Len(Child(Node))
      /\ stack' = Append(SetTop([Top EXCEPT !.current = @ + 1]), Frame(n))
      /\ cached' = cached /\ out' = out /\ failed' = failed
  BY <1>0 DEF ReadDir
<1>2. PICK R \in SUBSET Nodes : Met(R)
  BY DEF WalkInv, MetOnce
<1>3. /\ Child(Node) = Entries[Node] /\ c \in DOMAIN Entries[Node]
      /\ n \in Nodes \ {Root} /\ n \notin R
  BY <1>0, <1>1, <1>2, ChildIsNew
<1>4. /\ N \in Nat /\ N >= 1 /\ DOMAIN stack = 1 .. N /\ Top = stack[N]
      /\ stack[N].node = Node /\ stack[N].current \in Nat
  BY <1>0, <1>1, TopFrame DEF WalkInv, Node, Frames
<1>5. PICK b, F, p : Walking(b, F, p)
  BY <1>1 DEF ListSoFar
<1>6. IsListing(b, failed) /\ Through(F) /\ Listed(b, p)
  BY <1>5 DEF Walking
<1>7. c = stack[N].current + 1 /\ n = Entries[Node][c]
  BY <1>0, <1>3, <1>4
<1>8. /\ stack' \in Seq(Frames) /\ DOMAIN stack' = 1 .. N + 1
      /\ stack'[N + 1] = Frame(n)
      /\ \A k \in DOMAIN stack :
           /\ stack'[k].node = stack[k].node
           /\ stack'[k].isOpen = stack[k].isOpen
           /\ stack'[k].current =
                IF k = N THEN stack[k].current + 1 ELSE stack[k].current
  BY <1>0, <1>1, <1>3, WentDown, ZenonT(40) DEF WalkInv
<1>9. Len(stack') = N + 1
  BY <1>4, <1>8, LenProperties
<1>10. /\ \A k \in DOMAIN stack : (Done(k))' = Done(k)
       /\ (Done(N + 1))' = 0
  <2>1. ASSUME NEW k \in DOMAIN stack PROVE (Done(k))' = Done(k)
    <3>1. stack[k] \in Frames
      BY DEF WalkInv, Shape
    <3>2. stack[k].current \in Nat /\ k \in 1 .. N /\ k < N + 1
      BY <3>1, <1>4 DEF Frames
    <3>3. (Done(k))' = stack'[k].current - 1
      BY <3>2, <1>9 DEF Done
    <3>4. Done(k) = IF k < N THEN stack[k].current - 1 ELSE stack[k].current
      BY <1>0 DEF Done
    <3>5. stack'[k].current = IF k = N THEN stack[k].current + 1 ELSE stack[k].current
      BY <1>8
    <3> QED BY ONLY <3>2, <3>3, <3>4, <3>5, <1>4
  <2>2. (Done(N + 1))' = stack'[N + 1].current
    BY <1>4, <1>9 DEF Done
  <2>3. stack'[N + 1].current = 0
    BY <1>8 DEF Frame
  <2> QED BY <2>1, <2>2, <2>3
<1>11. stack'[N + 1].node = n /\ ~stack'[N + 1].isOpen
  BY <1>8 DEF Frame
<1>12. \A k \in DOMAIN stack' : k \in DOMAIN stack \/ k = N + 1
  BY <1>4, <1>8
<1>13. n \notin F
  <2> SUFFICES ASSUME n \in F PROVE FALSE
    OBVIOUS
  <2>1. Node \notin F
    BY <1>4, <1>6 DEF Through
  <2>2. PICK k \in DOMAIN stack : stack[k].node = Node /\ c <= Done(k)
    BY <2>1, <1>1, <1>3, <1>6, <1>7 DEF Through
  <2>3. k = N
    BY <2>2, <1>4 DEF WalkInv, Shape
  <2>4. Done(N) = stack[N].current
    BY <1>0, <1>4 DEF Done
  <2> QED BY <2>2, <2>3, <2>4, <1>4, <1>7
<1>14. Through(F)'
  <2>1. Closed(F, failed')
    BY <1>1, <1>6 DEF Through
  <2>2. \A k \in DOMAIN stack' : stack'[k].node \notin F
    BY <1>6, <1>8, <1>11, <1>12, <1>13 DEF Through
  <2>3. ASSUME NEW k \in DOMAIN stack', stack'[k].node \in Dirs,
               NEW x \in DOMAIN Entries[stack'[k].node], x <= (Done(k))'
        PROVE  Entries[stack'[k].node][x] \in F
    <3>1. CASE k \in DOMAIN stack
      BY <2>3, <3>1, <1>6, <1>8, <1>10 DEF Through
    <3>2. CASE k = N + 1
      <4>1. x \in 1 .. Len(Entries[stack'[k].node])
        BY <2>3, TreeAssumption
      <4>2. x <= 0
        BY <2>3, <3>2, <1>10
      <4> QED BY <4>1, <4>2
    <3> QED BY <3>1, <3>2, <1>12
  <2>4. \A d \in Dirs : \A x \in DOMAIN Entries[d] :
          Entries[d][x] \in F =>
             d \in F \/ \E k \in DOMAIN stack' : stack'[k].node = d /\ x <= (Done(k))'
    <3>1. DOMAIN stack \subseteq DOMAIN stack'
      BY <1>4, <1>8
    <3> QED BY <3>1, <1>6, <1>8, <1>10 DEF Through
  <2>5. \A k \in DOMAIN stack' : stack'[k].isOpen => stack'[k].node \in cached' \cup failed'
    BY <1>1, <1>6, <1>8, <1>11, <1>12 DEF Through
  <2> QED BY <2>1, <2>2, <2>3, <2>4, <2>5 DEF Through
<1> DEFINE q == [k \in 1 .. (N + 1) + 1 |-> IF k = N + 2 THEN p[N + 1] ELSE p[k]]
<1>15. /\ p \in [1 .. N + 1 -> Seq(Files)] /\ p[1] = <<>> /\ out = p[N + 1]
       /\ \A k \in DOMAIN stack : p[k + 1] = p[k] \o Part(b, stack[k].node, Done(k))
  BY <1>0, <1>6 DEF Listed
<1>16. /\ q \in [1 .. (N + 1) + 1 -> Seq(Files)]
       /\ \A k \in 1 .. N + 1 : q[k] = p[k]
       /\ q[(N + 1) + 1] = p[N + 1]
  BY <1>4, <1>15
<1> HIDE DEF q
<1>17. q[1] = <<>> /\ out = q[(N + 1) + 1]
  BY <1>4, <1>15, <1>16
<1>18. ASSUME NEW k \in DOMAIN stack'
       PROVE  q[k + 1] = q[k] \o Part(b, stack'[k].node, (Done(k))')
  <2>1. CASE k \in DOMAIN stack
    <3>1. k \in 1 .. N + 1 /\ k + 1 \in 1 .. N + 1
      BY <2>1, <1>4
    <3>2. q[k + 1] = p[k + 1] /\ q[k] = p[k]
      BY <3>1, <1>16
    <3>3. p[k + 1] = p[k] \o Part(b, stack[k].node, Done(k))
      BY <2>1, <1>15
    <3> QED BY <2>1, <3>2, <3>3, <1>8, <1>10
  <2>2. CASE k = N + 1
    <3>1. Part(b, stack'[k].node, (Done(k))') = <<>>
      BY <2>2, <1>10, PartNone
    <3>2. p[N + 1] \in Seq(Files) /\ q[N + 1] = p[N + 1]
      BY <1>4, <1>15, <1>16
    <3>3. p[N + 1] \o <<>> = p[N + 1]
      BY <3>2, ConcatEmptySeq
    <3> QED BY <2>2, <3>1, <3>2, <3>3, <1>16
  <2> QED BY <2>1, <2>2, <1>12
<1>19. Listed(b, q)'
  BY <1>1, <1>9, <1>16, <1>17, <1>18 DEF Listed
<1>20. Walking(b, F, q)'
  BY <1>1, <1>6, <1>14, <1>19 DEF Walking
<1> QED BY <1>1, <1>20 DEF ListSoFar

-----------------------------------------------------------------------------
\* Coming back from a node, all that is below it is in the list.
LEMMA ReturnList ==
    ASSUME WalkInv, phase = "walk", NEW b, NEW F, NEW p, Walking(b, F, p),
           NEW refs, Return(refs), cached' = cached, failed' = failed,
           out' = p[Len(stack)] \o b[Node],
           Node \in Dirs \ failed => \A c \in DOMAIN Entries[Node] : Entries[Node][c] \in F
    PROVE  ListSoFar'
<1>0. PICK N : N = Len(stack)
  OBVIOUS
<1>1. /\ N \in Nat /\ N >= 1 /\ DOMAIN stack = 1 .. N
      /\ stack[N].node = Node /\ Node \in Nodes
  BY <1>0, TopFrame DEF WalkInv, Node
<1>2. /\ stack' \in Seq(Frames) /\ DOMAIN stack' = 1 .. N - 1 /\ Len(stack') = N - 1
      /\ \A k \in DOMAIN stack' : stack'[k] = stack[k]
  BY <1>0, TopFrame DEF WalkInv, Return
<1>3. phase' = IF N > 1 THEN "walk" ELSE "unmount"
  BY <1>0 DEF Return
<1>4. IsListing(b, failed) /\ Through(F) /\ Listed(b, p) /\ b \in [Nodes -> Seq(Files)]
  BY ListingType DEF Walking
<1>5. /\ p \in [1 .. N + 1 -> Seq(Files)] /\ p[1] = <<>> /\ out' = p[N] \o b[Node]
      /\ \A k \in DOMAIN stack : p[k + 1] = p[k] \o Part(b, stack[k].node, Done(k))
  BY <1>0, <1>4 DEF Listed
<1>6. CASE N = 1
  <2>1. Node = Root
    BY <1>1, <1>6 DEF WalkInv, Shape
  <2>2. <<>> \o b[Root] = b[Root]
    <3>1. b[Root] \in Seq(Files)
      BY <2>1, <1>1, <1>4
    <3> QED BY <3>1, ConcatEmptySeq
  <2>3. out' = b[Root]
    BY <2>1, <2>2, <1>5, <1>6
  <2>4. EndedAs(b)'
    BY <2>3, <1>4 DEF EndedAs
  <2> QED BY <2>4, <1>3, <1>6 DEF ListSoFar
<1>7. CASE N > 1
  <2>0. PICK M, d, c : M = N - 1 /\ d = stack[M].node /\ c = stack[M].current
    OBVIOUS
  <2>1. /\ M \in DOMAIN stack /\ M + 1 = N /\ M < N /\ M \in Nat /\ M >= 1
        /\ DOMAIN stack' = 1 .. M /\ Len(stack') = M
    BY <2>0, <1>1, <1>2, <1>7
  <2>2. d \in cached /\ c \in DOMAIN Entries[d] /\ Node = Entries[d][c]
    <3>1. M < Len(stack)
      BY <2>1, <1>0
    <3> QED BY <3>1, <2>0, <2>1, <1>1, DoneIs
  <2>3. d \in Dirs /\ d \in Nodes /\ Len(Entries[d]) \in Nat /\ c \in 1 .. Len(Entries[d])
        /\ DOMAIN Entries[d] = 1 .. Len(Entries[d])
    <3>1. cached \subseteq Dirs
      BY DEF WalkInv, WalkTypeOK
    <3> QED BY <2>2, <3>1, TreeAssumption
  <2>4. Done(M) = c - 1 /\ (Done(M))' = c
    <3>1. M < Len(stack) /\ ~(M < Len(stack'))
      BY <2>1, <1>0
    <3>2. stack'[M] = stack[M]
      BY <2>1, <1>2
    <3>3. Done(M) = stack[M].current - 1
      BY <3>1 DEF Done
    <3>4. (Done(M))' = stack'[M].current
      BY <3>1 DEF Done
    <3> QED BY <3>2, <3>3, <3>4, <2>0
  <2>5. \A k \in DOMAIN stack' : k # M => (Done(k))' = Done(k)
    <3>1. \A k \in DOMAIN stack' : k # M => k < Len(stack) /\ k < Len(stack')
      BY <2>1, <1>0
    <3> QED BY <3>1, <1>2 DEF Done
  <2>6. \A k \in DOMAIN stack' : k \in DOMAIN stack /\ k # N /\ k \in Nat
    BY <2>1, <1>1
  <2>7. \A k \in DOMAIN stack : k \in DOMAIN stack' \/ k = N
    BY <2>1, <1>1
  <2>8. M \in DOMAIN stack'
    BY <2>1
  <2>g. PICK G : G = F \cup {Node}
    OBVIOUS
  <2>9. Through(G)'
    <3>1. Closed(G, failed')
      BY <2>g, <1>1, <1>4 DEF Through, Closed
    <3>2. \A k \in DOMAIN stack' : stack'[k].node \notin G
      <4>1. \A k \in DOMAIN stack' : stack[k].node # Node
        BY <2>6, <1>1 DEF WalkInv, Shape
      <4>2. \A k \in DOMAIN stack' : stack[k].node \notin F
        BY <2>6, <1>4 DEF Through
      <4> QED BY <2>g, <4>1, <4>2, <1>2
    <3>3. ASSUME NEW k \in DOMAIN stack', stack'[k].node \in Dirs,
                 NEW x \in DOMAIN Entries[stack'[k].node], x <= (Done(k))'
          PROVE  Entries[stack'[k].node][x] \in G
      <4>1. k \in DOMAIN stack /\ stack'[k] = stack[k]
        BY <2>6, <1>2
      <4>2. x <= Done(k) => Entries[stack[k].node][x] \in F
        BY <3>3, <4>1, <1>4 DEF Through
      <4>3. CASE k # M
        BY <2>g, <3>3, <4>1, <4>2, <4>3, <2>5
      <4>4. CASE k = M
        <5>1. x \in 1 .. Len(Entries[d]) /\ x <= c
          BY <3>3, <4>1, <4>4, <2>3, <2>4, <2>0, SMTT(30)
        <5>2. CASE x = c
          BY <2>g, <5>2, <4>1, <4>4, <2>2, <2>0, Zenon
        <5>3. CASE x # c
          <6>1. x <= Done(k)
            BY <5>1, <5>3, <4>4, <2>3, <2>4
          <6> QED BY <2>g, <6>1, <4>1, <4>2
        <5> QED BY <5>2, <5>3
      <4> QED BY <4>3, <4>4
    <3>4. ASSUME NEW e \in Dirs, NEW x \in DOMAIN Entries[e], Entries[e][x] \in G
          PROVE  e \in G \/ \E k \in DOMAIN stack' : stack'[k].node = e /\ x <= (Done(k))'
      <4>1. CASE Entries[e][x] = Node
        <5>1. e = d /\ x = c
          BY <4>1, <2>2, <2>3, TreeAssumption
        <5>2. stack'[M].node = e /\ x <= (Done(M))'
          <6>1. c <= c
            BY <2>3
          <6> QED BY <6>1, <5>1, <2>4, <2>8, <1>2, <2>0
        <5> QED BY <5>2, <2>8
      <4>2. CASE Entries[e][x] \in F /\ e \notin F
        <5>1. PICK k \in DOMAIN stack : stack[k].node = e /\ x <= Done(k)
          BY <4>2, <1>4 DEF Through
        <5>2. CASE k = N
          BY <2>g, <5>1, <5>2, <1>1
        <5>3. CASE k # N
          <6>1. k \in DOMAIN stack' /\ stack'[k].node = e
            BY <5>1, <5>3, <2>7, <1>2
          <6>2. x \in 1 .. Len(Entries[e])
            BY TreeAssumption
          <6>3. x <= (Done(k))'
            <7>1. CASE k = M
              BY <7>1, <5>1, <6>2, <2>3, <2>4
            <7>2. CASE k # M
              BY <7>2, <5>1, <6>1, <2>5
            <7> QED BY <7>1, <7>2
          <6> QED BY <6>1, <6>3
        <5> QED BY <5>2, <5>3
      <4> QED BY <2>g, <3>4, <4>1, <4>2
    <3>5. \A k \in DOMAIN stack' : stack'[k].isOpen => stack'[k].node \in cached' \cup failed'
      BY <2>6, <1>2, <1>4 DEF Through
    <3> QED BY <3>1, <3>2, <3>3, <3>4, <3>5 DEF Through
  <2>q. PICK q : q = [k \in 1 .. M + 1 |-> IF k = N THEN p[N] \o b[Node] ELSE p[k]]
    OBVIOUS
  <2>10. p[N] \o b[Node] \in Seq(Files)
    <3>1. p[N] \in Seq(Files) /\ b[Node] \in Seq(Files)
      BY <1>1, <1>4, <1>5
    <3> QED BY <3>1, ConcatProperties
  <2>11. /\ q \in [1 .. M + 1 -> Seq(Files)]
         /\ \A k \in 1 .. M : q[k] = p[k]
         /\ q[M + 1] = p[N] \o b[Node]
    <3>1. \A k \in 1 .. M + 1 : k \in 1 .. N + 1
      BY <2>1
    <3>2. \A k \in 1 .. M : k \in 1 .. M + 1 /\ k # N
      BY <2>1
    <3>3. q \in [1 .. M + 1 -> Seq(Files)]
      BY <2>q, <3>1, <2>10, <1>5
    <3>4. M + 1 \in 1 .. M + 1
      BY <2>1
    <3> QED BY <2>q, <3>2, <3>3, <3>4, <2>1
  <2>12. q[1] = <<>> /\ out' = q[M + 1]
    <3>1. 1 \in 1 .. M
      BY <2>1
    <3> QED BY <3>1, <2>11, <1>5
  <2>13. p[N] \o b[Node] = p[M] \o Part(b, d, c)
    <3>1. \A x \in DOMAIN Entries[d] : b[Entries[d][x]] \in Seq(Files)
      BY <2>3, <1>4, TreeAssumption
    <3>2. /\ \A x \in 0 .. Len(Entries[d]) : Part(b, d, x) \in Seq(Files)
          /\ \A x \in 0 .. Len(Entries[d]) - 1 :
               Part(b, d, x + 1) = Part(b, d, x) \o b[Entries[d][x + 1]]
      BY <2>3, <3>1, PartGrows
    <3>3. PICK x \in 0 .. Len(Entries[d]) - 1 : x = c - 1 /\ x + 1 = c
      BY <2>3
    <3>4. x \in 0 .. Len(Entries[d])
      BY <2>3
    <3>5. Part(b, d, c) = Part(b, d, x) \o b[Node]
      BY <3>2, <3>3, <2>2
    <3>6. p[N] = p[M] \o Part(b, d, x)
      BY <3>3, <2>1, <2>4, <1>5, <2>0
    <3>7. p[M] \in Seq(Files) /\ Part(b, d, x) \in Seq(Files) /\ b[Node] \in Seq(Files)
      BY <3>2, <3>4, <2>1, <1>1, <1>4, <1>5
    <3>8. (p[M] \o Part(b, d, x)) \o b[Node] = p[M] \o (Part(b, d, x) \o b[Node])
      <4>1. \A u, v, w \in Seq(Files) : (u \o v) \o w = u \o (v \o w)
        BY ConcatAssociative
      <4> QED BY ONLY <3>7, <4>1, Zenon
    <3> QED BY <3>5, <3>6, <3>8
  <2>14. ASSUME NEW k \in DOMAIN stack'
         PROVE  q[k + 1] = q[k] \o Part(b, stack'[k].node, (Done(k))')
    <3>1. stack'[k] = stack[k] /\ k \in DOMAIN stack /\ k \in 1 .. M
      BY <2>1, <2>6, <1>2
    <3>2. CASE k = M
      BY <3>1, <3>2, <2>4, <2>11, <2>13, <2>0
    <3>3. CASE k # M
      <4>1. k + 1 \in 1 .. M
        BY <3>1, <3>3, <2>1
      <4>2. q[k + 1] = p[k + 1] /\ q[k] = p[k]
        BY <3>1, <4>1, <2>11
      <4>3. p[k + 1] = p[k] \o Part(b, stack[k].node, Done(k))
        BY <3>1, <1>5
      <4> QED BY <4>2, <4>3, <3>1, <3>3, <2>5
    <3> QED BY <3>2, <3>3
  <2>15. Listed(b, q)'
    BY <2>1, <2>11, <2>12, <2>14 DEF Listed
  <2>16. Walking(b, G, q)'
    <3> QED BY <2>9, <2>15, <1>4 DEF Walking
  <2> QED BY <2>16, <1>3, <1>7 DEF ListSoFar
<1> QED BY <1>1, <1>6, <1>7

LEMMA ListFileList ==
    ASSUME WalkInv, ListSoFar, ListFile
    PROVE  ListSoFar'
<1>1. /\ phase = "walk" /\ Node \in Files /\ out' = Append(out, Node)
      /\ Return(references) /\ cached' = cached /\ failed' = failed
  BY DEF ListFile
<1>2. PICK b, F, p : Walking(b, F, p)
  BY <1>1 DEF ListSoFar
<1>3. IsListing(b, failed) /\ Listed(b, p)
  BY <1>2 DEF Walking
<1>4. Node \notin Dirs /\ Node \in Nodes
  BY <1>1 DEF Files
<1>5. /\ Len(stack) \in DOMAIN stack /\ Len(stack) \in Nat
      /\ Node = stack[Len(stack)].node
  BY <1>1, TopFrame DEF WalkInv, Node
<1>6. Done(Len(stack)) = 0
  BY <1>1, <1>4, <1>5, DoneIs
<1>7. p[Len(stack)] \in Seq(Files) /\ out = p[Len(stack) + 1]
      /\ p[Len(stack) + 1] = p[Len(stack)] \o Part(b, Node, Done(Len(stack)))
  <2>1. /\ p \in [1 .. Len(stack) + 1 -> Seq(Files)] /\ out = p[Len(stack) + 1]
        /\ \A k \in DOMAIN stack : p[k + 1] = p[k] \o Part(b, stack[k].node, Done(k))
    BY <1>3 DEF Listed
  <2>2. Len(stack) \in 1 .. Len(stack) + 1
    BY <1>1, TopFrame DEF WalkInv
  <2> QED BY <2>1, <2>2, <1>5
<1>8. out = p[Len(stack)]
  BY <1>6, <1>7, PartNone, ConcatEmptySeq
<1>9. b[Node] = <<Node>>
  BY <1>1, <1>3, <1>4, ListingObeys DEF ListingOf
<1>10. Append(out, Node) = out \o <<Node>>
  BY <1>1, <1>7, <1>8, AppendIsConcat
<1>11. out' = p[Len(stack)] \o b[Node]
  BY <1>1, <1>8, <1>9, <1>10
<1>12. Node \in Dirs \ failed => \A c \in DOMAIN Entries[Node] : Entries[Node][c] \in F
  BY <1>4
<1> QED BY <1>1, <1>2, <1>11, <1>12, ReturnList

LEMMA CloseDirList ==
    ASSUME WalkInv, ListSoFar, CloseDir
    PROVE  ListSoFar'
<1>0. PICK N : N = Len(stack)
  OBVIOUS
<1>1. /\ phase = "walk" /\ Node \in Dirs /\ Top.isOpen /\ out' = out
      /\ Top.current = Len(Child(Node))
      /\ Return(Put(references, Node)) /\ cached' = cached /\ failed' = failed
  BY DEF CloseDir
<1>2. PICK b, F, p : Walking(b, F, p)
  BY <1>1 DEF ListSoFar
<1>3. IsListing(b, failed) /\ Through(F) /\ Listed(b, p) /\ b \in [Nodes -> Seq(Files)]
  BY <1>2, ListingType DEF Walking
<1>4. Node \in Nodes /\ Node \notin Files
      /\ Len(Entries[Node]) \in Nat /\ DOMAIN Entries[Node] = 1 .. Len(Entries[Node])
  BY <1>1, TreeAssumption DEF Files
<1>5. N \in DOMAIN stack /\ N \in Nat /\ Node = stack[N].node /\ Top = stack[N]
  BY <1>0, <1>1, TopFrame DEF WalkInv, Node
<1>6. Done(N) = Len(Child(Node))
  BY <1>0, <1>1, <1>5 DEF Done
<1>7. p[N] \in Seq(Files) /\ out = p[N + 1] /\ p[N + 1] = p[N] \o Part(b, Node, Done(N))
  <2>1. /\ p \in [1 .. N + 1 -> Seq(Files)] /\ out = p[N + 1]
        /\ \A k \in DOMAIN stack : p[k + 1] = p[k] \o Part(b, stack[k].node, Done(k))
    BY <1>0, <1>3 DEF Listed
  <2>2. N \in 1 .. N + 1
    BY <1>0, <1>1, TopFrame DEF WalkInv
  <2> QED BY <2>1, <2>2, <1>5
<1>8. Node \in cached \cup failed /\ failed \cap cached = {}
  BY <1>1, <1>3, <1>5 DEF Through, WalkInv, Shape
<1>9. CASE Node \in cached
  <2>1. Child(Node) = Entries[Node] /\ Node \in Dirs \ failed
    BY <1>1, <1>8, <1>9 DEF Child
  <2>2. b[Node] = Part(b, Node, Done(N))
    BY <2>1, <1>3, <1>6, DirIsPart
  <2>3. \A c \in DOMAIN Entries[Node] : Entries[Node][c] \in F
    <3>1. \A c \in DOMAIN Entries[Node] : c <= Done(N)
      BY <2>1, <1>4, <1>6
    <3> QED BY <3>1, <1>1, <1>3, <1>5 DEF Through
  <2>4. out' = p[N] \o b[Node]
    BY <2>2, <1>1, <1>7
  <2> QED BY <2>3, <2>4, <1>0, <1>1, <1>2, ReturnList
<1>10. CASE Node \notin cached
  <2>1. Done(N) = 0 /\ Node \in failed
    BY <1>6, <1>8, <1>10 DEF Child
  <2>2. b[Node] = <<>>
    BY <2>1, <1>3, <1>4, ListingObeys DEF ListingOf
  <2>3. Part(b, Node, Done(N)) = <<>>
    BY <2>1, PartNone
  <2>4. out' = p[N] \o b[Node]
    BY <2>2, <2>3, <1>1, <1>7
  <2> QED BY <2>1, <2>4, <1>0, <1>1, <1>2, ReturnList
<1> QED BY <1>9, <1>10

LEMMA InitList == WalkInit => ListSoFar
<1> SUFFICES ASSUME WalkInit PROVE ListSoFar
  OBVIOUS
<1>1. /\ phase = "walk" /\ stack = <<Frame(Root)>> /\ out = <<>> /\ failed = {}
  BY DEF WalkInit
<1>2. Len(stack) = 1 /\ DOMAIN stack = {1} /\ stack[1] = Frame(Root)
  BY <1>1
<1>3. /\ stack[1].node = Root /\ ~stack[1].isOpen /\ stack[1].current = 0
  BY <1>2 DEF Frame
<1>4. Done(1) = 0
  BY <1>2, <1>3 DEF Done
<1>5. PICK b : IsListing(b, failed)
  BY ListingExists
<1>6. Through({})
  <2>1. Closed({}, failed)
    BY DEF Closed
  <2>2. \A c \in DOMAIN Entries[Root] : c >= 1
    BY TreeAssumption
  <2>3. \A c \in DOMAIN Entries[Root] : ~(c <= 0)
    BY TreeAssumption
  <2> QED BY <2>1, <2>3, <1>2, <1>3, <1>4 DEF Through
<1> DEFINE p == [k \in 1 .. 1 + 1 |-> <<>>]
<1>7. p \in [1 .. 1 + 1 -> Seq(Files)] /\ p[1] = <<>> /\ p[1 + 1] = <<>>
  BY EmptySeq
<1>8. p[1] \o Part(b, Root, 0) = p[1 + 1]
  <2>1. <<>> \in Seq(Files)
    BY EmptySeq
  <2> QED BY <2>1, <1>7, PartNone, ConcatEmptySeq
<1> HIDE DEF p
<1>9. Listed(b, p)
  BY <1>1, <1>2, <1>3, <1>4, <1>7, <1>8 DEF Listed
<1>10. Walking(b, {}, p)
  BY <1>5, <1>6, <1>9 DEF Walking
<1> QED BY <1>1, <1>10 DEF ListSoFar

LEMMA NextList ==
    ASSUME WalkInv, ListSoFar, [WalkNext]_walkVars
    PROVE  ListSoFar'
<1>1. CASE UNCHANGED walkVars
  <2>1. UNCHANGED <<phase, stack, cached, out, failed>>
    BY <1>1 DEF walkVars
  <2>2. ASSUME phase = "walk" PROVE \E b, F, p : Walking(b, F, p)'
    <3>1. PICK b, F, p : Walking(b, F, p)
      BY <2>2 DEF ListSoFar
    <3>2. Walking(b, F, p)'
      BY <3>1, <2>1 DEF Walking, Through, Listed, Done
    <3> QED BY <3>2
  <2>3. ASSUME phase \in {"unmount", "done", "spin"} PROVE \E b : EndedAs(b)'
    BY <2>1, <2>3 DEF ListSoFar, EndedAs
  <2> QED BY <2>1, <2>2, <2>3 DEF ListSoFar
<1>2. CASE Abort
  <2>1. phase' = "aborted"
    BY <1>2 DEF Abort
  <2> QED BY <2>1 DEF ListSoFar
<1>3. CASE Unmount
  <2>1. phase = "unmount" /\ phase' \in {"spin", "done"} /\ out' = out /\ failed' = failed
    BY <1>3 DEF Unmount
  <2>2. PICK b : EndedAs(b)
    BY <2>1 DEF ListSoFar
  <2>3. EndedAs(b)'
    BY <2>1, <2>2 DEF EndedAs
  <2> QED BY <2>1, <2>3 DEF ListSoFar
<1> QED BY <1>1, <1>2, <1>3, OpenList, ReadDirList, ListFileList, CloseDirList DEF WalkNext

\* Below is what its definition says.
LEMMA BelowIs == IsListing(Below, failed)
<1> DEFINE IsBelow(f) ==
             f = [n \in Nodes |->
                    IF n \in Files THEN <<n>>
                    ELSE IF n \in failed THEN <<>>
                    ELSE FlattenSeq([k \in DOMAIN Entries[n] |-> f[Entries[n][k]]])]
<1>1. PICK b : IsListing(b, failed)
  BY ListingExists
<1>2. IsBelow(b)
  BY <1>1 DEF IsListing, ListingOf
<1>3. IsBelow(CHOOSE f : IsBelow(f))
  <2> HIDE DEF IsBelow
  <2> QED BY <1>2
<1>4. Below = CHOOSE f : IsBelow(f)
  BY DEF Below
<1>5. IsBelow(Below)
  <2> HIDE DEF IsBelow
  <2> QED BY <1>3, <1>4
<1> QED BY <1>5 DEF IsListing, ListingOf

\* When the walk is over, the list is every file below the root in the order
\* of the medium, each once, but for those below a directory that could not be
\* read: _dirsRecursiveWalk goes on behind a failure, and loses nothing else.
THEOREM ListIsExact == WalkSpec => []ListedExactly
<1>1. WalkSpec => [](WalkInv /\ ListSoFar)
  <2>1. WalkInit => WalkInv /\ ListSoFar
    BY InitWalk, InitList
  <2>2. WalkInv /\ ListSoFar /\ [WalkNext]_walkVars => (WalkInv /\ ListSoFar)'
    BY NextWalk, NextList
  <2> QED BY <2>1, <2>2, PTL DEF WalkSpec
<1>2. ListSoFar => ListedExactly
  <2> SUFFICES ASSUME ListSoFar, phase \in {"unmount", "done", "spin"}
               PROVE  out = Below[Root]
    BY DEF ListedExactly
  <2>1. PICK b : IsListing(b, failed) /\ out = b[Root]
    BY DEF ListSoFar, EndedAs
  <2>2. Closed(Nodes, failed)
    BY TreeAssumption DEF Closed
  <2>3. Obeys(b, failed, Nodes) /\ Obeys(Below, failed, Nodes)
    BY <2>1, BelowIs, ListingObeys DEF Obeys
  <2>4. b[Root] = Below[Root]
    <3>1. Root \in Nodes
      BY TreeAssumption
    <3> QED BY <2>2, <2>3, <3>1, ListingsAgree
  <2> QED BY <2>1, <2>4
<1> QED BY <1>1, <1>2, PTL
=============================================================================
