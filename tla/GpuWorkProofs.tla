--------------------------- MODULE GpuWorkProofs ---------------------------
(***************************************************************************)
(* Proofs about what the GPU works on while the CPU goes on.               *)
(*                                                                         *)
(* ModelUpload, for any models, number and size of slots and alignment:    *)
(* reservations hold, a batch is in flight until it has run, published     *)
(* models are uploaded as a whole, and recorded commands refer to what     *)
(* exists.                                                                 *)
(*                                                                         *)
(* RenderGraph, for any passes that declare themselves as PassAssumption   *)
(* says and any number of frame slots: passes run with the descriptor sets *)
(* they need, no set is freed while a frame in flight uses it, and images  *)
(* outlive their last use.                                                 *)
(***************************************************************************)
EXTENDS ModelUpload, RenderGraph, SequenceTheorems, WellFoundedInduction, TLAPS

-----------------------------------------------------------------------------
(* Offsets.                                                                *)

\* A quotient and what it leaves.
LEMMA Quotient ==
  ASSUME NEW n \in Nat, NEW a \in Nat \ {0}
  PROVE  /\ n \div a \in Nat
         /\ (n \div a) * a <= n /\ n < (n \div a) * a + a
         /\ n < a => n \div a = 0
OBVIOUS

\* An offset is aligned by less than the alignment, and zero is aligned.
LEMMA Aligned ==
  /\ \A n \in Nat : AlignUp(n) \in Nat /\ n <= AlignUp(n) /\ AlignUp(n) <= n + (Alignment - 1)
  /\ AlignUp(0) = 0
<1>. USE QueueAssumption
<1>1. ASSUME NEW n \in Nat
      PROVE  AlignUp(n) \in Nat /\ n <= AlignUp(n) /\ AlignUp(n) <= n + (Alignment - 1)
  <2>. DEFINE m == n + Alignment - 1
              q == m \div Alignment
              r == q * Alignment
  <2>1. m \in Nat
    OBVIOUS
  <2>2. q \in Nat /\ r <= m /\ m < r + Alignment
    BY <2>1, Quotient
  <2>3. r \in Nat
    BY <2>2
  <2>4. AlignUp(n) = r
    BY DEF AlignUp
  <2>. HIDE DEF r, q
  <2>. QED BY <2>2, <2>3, <2>4
<1>2. AlignUp(0) = 0
  <2>1. 0 + Alignment - 1 \in Nat /\ 0 + Alignment - 1 < Alignment
    OBVIOUS
  <2>2. (0 + Alignment - 1) \div Alignment = 0
    BY <2>1, Quotient
  <2>. QED BY <2>2 DEF AlignUp
<1>. QED BY <1>1, <1>2

-----------------------------------------------------------------------------
(* Sequences of batches.                                                   *)

\* The graphics queue gets a batch it does not have.
LEMMA AppendOnce ==
  ASSUME NEW g \in Seq(Slots), NEW i \in Slots, IsInjective(g), i \notin ToSet(g)
  PROVE  /\ g \o <<i>> \in Seq(Slots) /\ IsInjective(g \o <<i>>)
         /\ ToSet(g \o <<i>>) = ToSet(g) \cup {i}
<1>. DEFINE h == g \o <<i>>
            n == Len(g)
<1>1. <<i>> \in Seq(Slots) /\ Len(<<i>>) = 1 /\ <<i>>[1] = i
  OBVIOUS
<1>2. h \in Seq(Slots) /\ Len(h) = n + 1
  BY <1>1, ConcatProperties
<1>3. n \in Nat /\ DOMAIN g = 1 .. n /\ DOMAIN h = 1 .. n + 1
  BY <1>2, LenProperties
<1>4. (\A k \in 1 .. n : h[k] = g[k]) /\ h[n + 1] = i
  BY <1>1, <1>3, ConcatProperties
<1>. HIDE DEF h, n
<1>5. ToSet(h) = ToSet(g) \cup {i}
  <2>1. ASSUME NEW x PROVE x \in ToSet(h) <=> x \in ToSet(g) \cup {i}
    <3>1. x \in ToSet(h) <=> \E k \in 1 .. n + 1 : h[k] = x
      BY <1>3 DEF ToSet
    <3>2. x \in ToSet(g) <=> \E k \in 1 .. n : g[k] = x
      BY <1>3 DEF ToSet
    <3>3. \A k : k \in 1 .. n + 1 <=> k \in 1 .. n \/ k = n + 1
      BY <1>3
    <3>. QED BY <1>4, <3>1, <3>2, <3>3
  <2>. QED BY <2>1
<1>6. IsInjective(h)
  <2>1. \A k \in 1 .. n : g[k] # i
    BY <1>3 DEF ToSet
  <2>2. \A k, l \in 1 .. n : g[k] = g[l] => k = l
    BY <1>3 DEF IsInjective
  <2>3. \A k \in 1 .. n + 1 : k \in 1 .. n \/ k = n + 1
    BY <1>3
  <2>4. ASSUME NEW k \in 1 .. n + 1, NEW l \in 1 .. n + 1, h[k] = h[l] PROVE k = l
    BY <1>4, <2>1, <2>2, <2>3, <2>4
  <2>. QED BY <1>3, <2>4 DEF IsInjective
<1>. QED BY <1>2, <1>5, <1>6 DEF h

\* The graphics queue runs its oldest batch.
LEMMA TailOnce ==
  ASSUME NEW g \in Seq(Slots), g # <<>>, IsInjective(g)
  PROVE  /\ Head(g) \in Slots /\ Tail(g) \in Seq(Slots) /\ IsInjective(Tail(g))
         /\ ToSet(Tail(g)) = ToSet(g) \ {Head(g)} /\ Head(g) \in ToSet(g)
<1>1. Len(g) \in Nat \ {0} /\ DOMAIN g = 1 .. Len(g) /\ Head(g) = g[1]
  BY EmptySeq, LenProperties
<1>. DEFINE q == Tail(g)
            n == Len(g)
<1>2. /\ q \in Seq(Slots) /\ DOMAIN q = 1 .. n - 1
      /\ \A k \in 1 .. n - 1 : q[k] = g[k + 1]
  BY <1>1, HeadTailProperties, LenProperties
<1>. HIDE DEF q, n
<1>3. n \in Nat \ {0} /\ DOMAIN g = 1 .. n /\ Head(g) = g[1] /\ 1 \in 1 .. n
  BY <1>1 DEF n
<1>4. \A k, l \in 1 .. n : g[k] = g[l] => k = l
  BY <1>3 DEF IsInjective
<1>5. \A k \in 1 .. n - 1 : k + 1 \in 1 .. n /\ k + 1 # 1
  BY <1>3
<1>6. IsInjective(q)
  <2>1. \A k, l \in 1 .. n - 1 : k + 1 = l + 1 => k = l
    BY <1>3
  <2>. QED BY <1>2, <1>4, <1>5, <2>1 DEF IsInjective
<1>7. ToSet(q) = ToSet(g) \ {Head(g)}
  <2>1. ASSUME NEW x PROVE x \in ToSet(q) <=> x \in ToSet(g) \ {Head(g)}
    <3>1. x \in ToSet(q) <=> \E k \in 1 .. n - 1 : q[k] = x
      BY <1>2 DEF ToSet
    <3>2. x \in ToSet(g) <=> \E k \in 1 .. n : g[k] = x
      BY <1>3 DEF ToSet
    <3>3. ASSUME NEW k \in 1 .. n, k # 1 PROVE k - 1 \in 1 .. n - 1 /\ k = (k - 1) + 1
      BY <1>3, <3>3
    <3>4. (\E k \in 1 .. n - 1 : q[k] = x) => (\E k \in 1 .. n : g[k] = x) /\ x # g[1]
      BY <1>2, <1>3, <1>4, <1>5
    <3>5. ASSUME NEW k \in 1 .. n, g[k] = x, x # g[1] PROVE \E l \in 1 .. n - 1 : q[l] = x
      BY <1>2, <3>3, <3>5
    <3>. QED BY <1>3, <3>1, <3>2, <3>4, <3>5
  <2>. QED BY <2>1
<1>8. Head(g) \in ToSet(g) /\ Head(g) \in Slots
  BY <1>3 DEF ToSet
<1>. QED BY <1>2, <1>6, <1>7, <1>8 DEF q

-----------------------------------------------------------------------------
(* What the functions of the queue keep.                                   *)

LEMMA ReferencedIs ==
  ASSUME NEW u, NEW x
  PROVE  x \in Referenced(u) <=> \E i \in Slots : u.slots[i].flight # "signalled" /\ x \in u.slots[i].refs
BY DEF Referenced

\* A poll empties the slots whose fences have signalled.
LEMMA PolledIs ==
  ASSUME NEW R, NEW u \in Queue(R), NEW g \in Seq(Slots), RingSound(u, g),
         NEW p, p = Polled(u)
  PROVE  /\ p \in Queue(R) /\ RingSound(p, g)
         /\ p.active = u.active
         /\ \A i \in Slots : p.slots[i].flight # "signalled"
         /\ Referenced(p) = Referenced(u)
         /\ Idle(u) => Idle(p)
<1>1. /\ u.slots \in [Slots -> Slot(R)] /\ u.active \in Slots \cup {None}
      /\ u = [slots |-> u.slots, active |-> u.active]
  BY DEF Queue
<1>2. /\ p = [slots |-> p.slots, active |-> u.active] /\ p.active = u.active
      /\ p.slots = [i \in Slots |->
           IF u.slots[i].flight = "signalled"
             THEN [u.slots[i] EXCEPT !.used = 0, !.refs = {}, !.flight = "free"]
             ELSE u.slots[i]]
  BY <1>1 DEF Polled
<1>3. ASSUME NEW i \in Slots
      PROVE  /\ u.slots[i] \in Slot(R) /\ p.slots[i] \in Slot(R)
             /\ p.slots[i].capacity = u.slots[i].capacity
             /\ \/ u.slots[i].flight # "signalled" /\ p.slots[i] = u.slots[i]
                \/ /\ u.slots[i].flight = "signalled"
                   /\ p.slots[i].used = 0 /\ p.slots[i].refs = {} /\ p.slots[i].flight = "free"
  <2>1. u.slots[i] \in Slot(R)
    BY <1>1
  <2>2. CASE u.slots[i].flight = "signalled"
    <3>1. p.slots[i] = [u.slots[i] EXCEPT !.used = 0, !.refs = {}, !.flight = "free"]
      BY <1>2, <2>2
    <3>2. /\ u.slots[i].capacity \in Nat
          /\ p.slots[i] = [used |-> 0, capacity |-> u.slots[i].capacity, refs |-> {}, flight |-> "free"]
      BY <2>1, <3>1 DEF Slot
    <3>3. 0 \in Nat /\ {} \in SUBSET R /\ "free" \in Flights
      BY DEF Flights
    <3>4. p.slots[i] \in Slot(R)
      BY <3>2, <3>3 DEF Slot
    <3>. QED BY <2>1, <2>2, <3>2, <3>4
  <2>3. CASE u.slots[i].flight # "signalled"
    BY <1>2, <2>1, <2>3
  <2>. QED BY <2>2, <2>3
<1>4. p \in Queue(R)
  <2>1. p.slots \in [Slots -> Slot(R)]
    BY <1>2, <1>3
  <2>. QED BY <1>1, <1>2, <2>1 DEF Queue
<1>5. ASSUME NEW i \in Slots PROVE SlotSound(p, g, i) /\ p.slots[i].flight # "signalled"
  <2>0. p.active = u.active
    BY <1>2
  <2>1. SlotSound(u, g, i)
    BY DEF RingSound
  <2>2. u.slots[i].capacity \in Nat
    BY <1>3 DEF Slot
  <2>3. CASE p.slots[i] = u.slots[i] /\ u.slots[i].flight # "signalled"
    BY <2>0, <2>1, <2>3 DEF SlotSound, InFlight, HasCommands
  <2>4. CASE u.slots[i].flight = "signalled"
    <3>1. /\ p.slots[i].used = 0 /\ p.slots[i].refs = {} /\ p.slots[i].flight = "free"
          /\ p.slots[i].capacity = u.slots[i].capacity
      BY <1>3, <2>4
    <3>2. 0 <= u.slots[i].capacity
      BY <2>2
    <3>. QED BY <2>0, <2>1, <2>4, <3>1, <3>2 DEF SlotSound, InFlight, HasCommands
  <2>. QED BY <1>3, <2>3, <2>4
<1>6. Referenced(p) = Referenced(u)
  <2>1. ASSUME NEW x PROVE x \in Referenced(p) <=> x \in Referenced(u)
    <3>1. \A i \in Slots :
            p.slots[i].flight # "signalled" /\ x \in p.slots[i].refs
              <=> u.slots[i].flight # "signalled" /\ x \in u.slots[i].refs
      BY <1>3, <1>5
    <3>. QED BY <3>1, ReferencedIs
  <2>. QED BY <2>1
<1>7. Idle(u) => Idle(p)
  BY <1>3 DEF Idle, InFlight, HasCommands
<1>. QED BY <1>2, <1>4, <1>5, <1>6, <1>7 DEF RingSound

\* The batch that is being recorded goes to the graphics queue.
LEMMA SubmittedIs ==
  ASSUME NEW R, NEW u \in Queue(R), NEW g \in Seq(Slots), RingSound(u, g),
         NEW p, p = Submitted(u), NEW h, h = g \o Batch(u)
  PROVE  /\ p \in Queue(R) /\ h \in Seq(Slots) /\ RingSound(p, h)
         /\ p.active = None
         /\ Referenced(p) = Referenced(u)
         /\ (\A i \in Slots : u.slots[i].flight # "signalled")
              => \A i \in Slots : p.slots[i].flight # "signalled"
<1>1. /\ u.slots \in [Slots -> Slot(R)] /\ u.active \in Slots \cup {None}
      /\ \A i \in Slots : u.slots[i] \in Slot(R) /\ SlotSound(u, g, i)
      /\ \A i \in Slots : i # None
  <2>1. u.slots \in [Slots -> Slot(R)] /\ u.active \in Slots \cup {None}
    BY DEF Queue
  <2>2. \A i \in Slots : SlotSound(u, g, i)
    BY DEF RingSound
  <2>3. \A i \in Slots : i # None
    BY QueueAssumption DEF Slots, None
  <2>. QED BY <2>1, <2>2, <2>3
<1>2. CASE u.active # None /\ HasCommands(u.slots[u.active])
  <2>. DEFINE a == u.active
  <2>1. /\ p = [slots |-> [u.slots EXCEPT ![a].flight = "running"], active |-> None]
        /\ h = g \o <<a>> /\ a \in Slots
    BY <1>1, <1>2 DEF Submitted, Batch
  <2>2. a \notin ToSet(g)
    BY <1>1, <2>1 DEF SlotSound, InFlight
  <2>3. h \in Seq(Slots) /\ IsInjective(h) /\ ToSet(h) = ToSet(g) \cup {a}
    BY <2>1, <2>2, AppendOnce DEF RingSound
  <2>4. /\ p.slots[a] \in Slot(R) /\ p.slots[a].flight = "running"
        /\ p.slots[a].used = u.slots[a].used /\ p.slots[a].capacity = u.slots[a].capacity
        /\ p.slots[a].refs = u.slots[a].refs
        /\ \A i \in Slots : i # a => p.slots[i] = u.slots[i]
        /\ p.active = None
    <3>1. p.slots[a] = [u.slots[a] EXCEPT !.flight = "running"]
      BY <1>1, <2>1
    <3>2. u.slots[a] \in Slot(R)
      BY <1>1, <2>1
    <3>3. /\ p.slots[a] \in Slot(R) /\ p.slots[a].flight = "running"
          /\ p.slots[a].used = u.slots[a].used /\ p.slots[a].capacity = u.slots[a].capacity
          /\ p.slots[a].refs = u.slots[a].refs
      <4>. DEFINE s == u.slots[a]
      <4>. HIDE DEF s, a
      <4>1. p.slots[a] = [s EXCEPT !.flight = "running"] /\ s \in Slot(R) /\ "running" \in Flights
        BY <3>1, <3>2 DEF s, Flights
      <4>2. s.used \in Nat /\ s.capacity \in Nat /\ s.refs \in SUBSET R
        BY <4>1 DEF Slot
      <4>3. p.slots[a] = [used |-> s.used, capacity |-> s.capacity, refs |-> s.refs, flight |-> "running"]
        BY <4>1 DEF Slot
      <4>4. p.slots[a] \in Slot(R)
        BY <4>1, <4>2, <4>3 DEF Slot
      <4>. QED BY <4>3, <4>4 DEF s
    <3>4. \A i \in Slots : i # a => p.slots[i] = u.slots[i]
      BY <1>1, <2>1
    <3>. QED BY <2>1, <3>3, <3>4
  <2>5. p \in Queue(R)
    BY <1>1, <2>1, <2>4 DEF Queue
  <2>. HIDE DEF a
  <2>6. a = u.active /\ SlotSound(u, g, a) /\ u.slots[a].flight = "free"
    BY <1>1, <2>1 DEF SlotSound, InFlight, a
  <2>7. ASSUME NEW i \in Slots PROVE SlotSound(p, h, i)
    <3>1. CASE i = a
      BY <1>1, <1>2, <2>3, <2>4, <2>6, <3>1 DEF SlotSound, InFlight, HasCommands
    <3>2. CASE i # a
      <4>1. SlotSound(u, g, i) /\ p.slots[i] = u.slots[i] /\ (i \in ToSet(h) <=> i \in ToSet(g))
        BY <1>1, <2>3, <2>4, <3>2
      <4>. QED BY <1>1, <2>4, <2>6, <3>2, <4>1 DEF SlotSound
    <3>. QED BY <3>1, <3>2
  <2>8. Referenced(p) = Referenced(u)
    <3>1. \A x : \A i \in Slots :
            p.slots[i].flight # "signalled" /\ x \in p.slots[i].refs
              <=> u.slots[i].flight # "signalled" /\ x \in u.slots[i].refs
      BY <2>4, <2>6
    <3>2. \A x : x \in Referenced(p) <=> x \in Referenced(u)
      BY <3>1, ReferencedIs
    <3>. QED BY <3>2
  <2>9. (\A i \in Slots : u.slots[i].flight # "signalled") => \A i \in Slots : p.slots[i].flight # "signalled"
    BY <2>4
  <2>. QED BY <2>3, <2>4, <2>5, <2>7, <2>8, <2>9 DEF RingSound
<1>3. CASE u.active = None \/ ~HasCommands(u.slots[u.active])
  <2>1. h = g /\ p.slots = u.slots /\ p.active = None /\ p \in Queue(R)
    <3>1. h = g
      <4>1. Batch(u) = <<>>
        BY <1>3 DEF Batch
      <4>. QED BY <4>1, ConcatEmptySeq, Zenon
    <3>2. CASE u.active = None
      BY <3>1, <3>2 DEF Submitted
    <3>3. CASE u.active # None
      <4>1. /\ u.active \in Slots /\ u.slots[u.active] \in Slot(R)
            /\ p = [slots |-> [u.slots EXCEPT ![u.active].flight = @], active |-> None]
        BY <1>1, <1>3, <3>3 DEF Submitted
      <4>2. [u.slots EXCEPT ![u.active].flight = @] = u.slots
        <5>1. [u.slots[u.active] EXCEPT !.flight = @] = u.slots[u.active]
          BY <4>1 DEF Slot
        <5>. QED BY <1>1, <4>1, <5>1
      <4>. QED BY <1>1, <3>1, <4>1, <4>2 DEF Queue
    <3>. QED BY <3>1, <3>2, <3>3
  <2>2. ASSUME NEW i \in Slots PROVE SlotSound(p, h, i)
    BY <1>1, <1>3, <2>1 DEF SlotSound
  <2>3. Referenced(p) = Referenced(u)
    BY <2>1 DEF Referenced
  <2>. QED BY <1>1, <2>1, <2>2, <2>3 DEF RingSound
<1>. QED BY <1>2, <1>3

\* A free slot becomes the active one.
LEMMA ActivatedIs ==
  ASSUME NEW R, NEW u \in Queue(R), NEW g \in Seq(Slots), RingSound(u, g),
         u.active = None, NEW i \in Free(u), NEW p, p = [slots |-> u.slots, active |-> i]
  PROVE  /\ p \in Queue(R) /\ RingSound(p, g)
         /\ p.slots = u.slots /\ p.active = i /\ i \in Slots /\ Referenced(p) = Referenced(u)
<1>1. /\ u.slots \in [Slots -> Slot(R)]
      /\ i \in Slots /\ ~InFlight(u.slots[i]) /\ ~HasCommands(u.slots[i])
      /\ p.slots = u.slots /\ p.active = i
  BY DEF Queue, Free
<1>2. p \in Queue(R)
  BY <1>1 DEF Queue
<1>3. \A j \in Slots : j # None
  BY QueueAssumption DEF Slots, None
<1>4. ASSUME NEW j \in Slots PROVE SlotSound(p, g, j)
  <2>1. SlotSound(u, g, j)
    BY DEF RingSound
  <2>. QED BY <1>1, <1>3, <2>1 DEF SlotSound
<1>5. Referenced(p) = Referenced(u)
  BY <1>1 DEF Referenced
<1>. QED BY <1>1, <1>2, <1>4, <1>5 DEF RingSound

\* The active slot gets more commands or another staging buffer.
LEMMA WithSlotIs ==
  ASSUME NEW R, NEW u \in Queue(R), NEW g \in Seq(Slots), RingSound(u, g), u.active # None,
         NEW s \in Slot(R), s.flight = Current(u).flight, s.used <= s.capacity,
         HasCommands(s) => s.capacity # 0, Current(u).refs \subseteq s.refs,
         NEW p, p = WithSlot(u, s)
  PROVE  /\ p \in Queue(R) /\ RingSound(p, g) /\ p.active = u.active /\ Current(p) = s
         /\ Referenced(p) = Referenced(u) \cup s.refs
         /\ Current(u).flight = "free"
<1>. DEFINE a == u.active
<1>1. /\ u.slots \in [Slots -> Slot(R)] /\ a \in Slots
      /\ u = [slots |-> u.slots, active |-> a]
  BY DEF Queue
<1>2. /\ p = [slots |-> [u.slots EXCEPT ![a] = s], active |-> a]
  BY <1>1 DEF WithSlot
<1>3. /\ p.active = a /\ p.slots[a] = s /\ \A i \in Slots : i # a => p.slots[i] = u.slots[i]
  BY <1>1, <1>2
<1>4. p \in Queue(R)
  BY <1>1, <1>2 DEF Queue
<1>5. Current(p) = s /\ Current(u) = u.slots[a] /\ a = u.active
  BY <1>3 DEF Current
<1>. HIDE DEF a
<1>6. SlotSound(u, g, a) /\ u.slots[a] \in Slot(R) /\ u.slots[a].flight \in Flights
  BY <1>1 DEF RingSound, Slot
<1>7. u.slots[a].flight = "free"
  BY <1>5, <1>6 DEF SlotSound, InFlight
<1>8. ASSUME NEW i \in Slots PROVE SlotSound(p, g, i)
  <2>1. CASE i = a
    <3>1. s.flight = "free" /\ a \notin ToSet(g)
      BY <1>5, <1>6, <1>7 DEF SlotSound
    <3>. QED BY <1>3, <2>1, <3>1 DEF SlotSound, InFlight
  <2>2. CASE i # a
    <3>1. SlotSound(u, g, i) /\ p.slots[i] = u.slots[i]
      BY <1>3, <2>2 DEF RingSound
    <3>. QED BY <1>3, <1>5, <3>1 DEF SlotSound
  <2>. QED BY <2>1, <2>2
<1>9. Referenced(p) = Referenced(u) \cup s.refs
  <2>1. ASSUME NEW x PROVE x \in Referenced(p) <=> x \in Referenced(u) \/ x \in s.refs
    <3>1. (\E i \in Slots : p.slots[i].flight # "signalled" /\ x \in p.slots[i].refs)
            <=> \/ \E i \in Slots : u.slots[i].flight # "signalled" /\ x \in u.slots[i].refs
                \/ x \in s.refs
      BY <1>1, <1>3, <1>5, <1>7
    <3>. QED BY <3>1, ReferencedIs
  <2>. QED BY <2>1
<1>. QED BY <1>3, <1>4, <1>5, <1>7, <1>8, <1>9 DEF RingSound

\* A prepared slot holds what it was prepared for.
LEMMA PreparedIs ==
  ASSUME NEW R, NEW s \in Slot(R), NEW n \in Nat \ {0}, s.used <= s.capacity,
         HasCommands(s) => s.capacity # 0 /\ Fits(s, n), NEW p, p = Prepare(s, n)
  PROVE  /\ p \in Slot(R) /\ p.used <= p.capacity /\ p.capacity # 0
         /\ p.refs = s.refs /\ p.flight = s.flight /\ Fits(p, n)
<1>1. /\ s.used \in Nat /\ s.capacity \in Nat /\ s.refs \in SUBSET R /\ s.flight \in Flights
      /\ s = [used |-> s.used, capacity |-> s.capacity, refs |-> s.refs, flight |-> s.flight]
  BY DEF Slot
<1>2. CASE s.capacity # 0 /\ Fits(s, n)
  BY <1>1, <1>2 DEF Prepare
<1>3. CASE ~(s.capacity # 0 /\ Fits(s, n))
  <2>. DEFINE c == IF AlignUp(n) > SlotCapacity THEN AlignUp(n) ELSE SlotCapacity
  <2>1. p = [used |-> 0, capacity |-> c, refs |-> s.refs, flight |-> s.flight]
    BY <1>1, <1>3 DEF Prepare
  <2>2. c \in Nat /\ n <= c /\ AlignUp(0) = 0
    BY Aligned, QueueAssumption
  <2>. HIDE DEF c
  <2>3. p \in Slot(R)
    BY <1>1, <2>1, <2>2 DEF Slot
  <2>. QED BY <2>1, <2>2, <2>3 DEF Fits
<1>. QED BY <1>2, <1>3

\* What is staged in a slot that it fits in.
LEMMA StagedIs ==
  ASSUME NEW R, NEW s \in Slot(R), NEW n \in Nat, Fits(s, n), NEW p, p = Staged(s, n)
  PROVE  /\ p \in Slot(R) /\ p.used <= p.capacity /\ p.capacity = s.capacity
         /\ p.refs = s.refs /\ p.flight = s.flight
         /\ p.used <= s.used + (Alignment - 1) + n
         /\ p.used = AlignUp(s.used) + n
<1>1. /\ s.used \in Nat /\ s.capacity \in Nat /\ s.refs \in SUBSET R /\ s.flight \in Flights
      /\ s = [used |-> s.used, capacity |-> s.capacity, refs |-> s.refs, flight |-> s.flight]
  BY DEF Slot
<1>2. AlignUp(s.used) \in Nat /\ AlignUp(s.used) <= s.used + (Alignment - 1)
  BY <1>1, Aligned
<1>3. p = [used |-> AlignUp(s.used) + n, capacity |-> s.capacity, refs |-> s.refs, flight |-> s.flight]
  BY <1>1 DEF Staged
<1>4. AlignUp(s.used) + n \in Nat
  BY <1>2
<1>5. p \in Slot(R)
  BY <1>1, <1>3, <1>4 DEF Slot
<1>. QED BY <1>1, <1>2, <1>3, <1>5, QueueAssumption DEF Fits

\* One of the free slots is the first.
LEMMA FirstSlot ==
  ASSUME NEW F \in SUBSET Slots, F # {}
  PROVE  Min(F) \in F
<1>1. F \subseteq Nat
  BY QueueAssumption DEF Slots
<1>. DEFINE R == OpToRel(<, Nat)
<1>2. IsWellFoundedOn(R, Nat)
  BY NatLessThanWellFounded
<1>3. \A k, m \in Nat : <<k, m>> \in R <=> k < m
  BY DEF OpToRel
<1>. HIDE DEF R
<1>4. PICK m \in F : \A k \in F : ~(<<k, m>> \in R)
  BY <1>1, <1>2, WFMin
<1>5. ASSUME NEW k \in F PROVE m <= k
  <2>1. k \in Nat /\ m \in Nat
    BY <1>1
  <2>2. ~(k < m)
    BY <1>3, <1>4, <2>1
  <2>. QED BY <2>1, <2>2
<1>. QED BY <1>5 DEF Min

\* The active slot, or a free one, is prepared.
LEMMA PreparedSlotIs ==
  ASSUME NEW R, NEW u \in Queue(R), NEW g \in Seq(Slots), RingSound(u, g), NEW n \in Nat \ {0},
         NEW i, i # None,
         \/ u.active = i /\ CanFit(u.slots[i], n)
         \/ u.active = None /\ i \in Free(u),
         NEW q, q = Opened(u, i, n)
  PROVE  /\ q \in Queue(R) /\ RingSound(q, g) /\ Referenced(q) = Referenced(u)
         /\ q.active \in Slots /\ Current(q) \in Slot(R)
         /\ Fits(Current(q), n) /\ Current(q).capacity # 0
<1>1. PICK v : v = [slots |-> u.slots, active |-> i]
  OBVIOUS
<1>2. /\ v \in Queue(R) /\ RingSound(v, g) /\ Referenced(v) = Referenced(u)
      /\ v.slots = u.slots /\ v.active = i /\ i \in Slots
      /\ HasCommands(Current(v)) => CanFit(Current(v), n)
  <2>1. CASE u.active = i /\ CanFit(u.slots[i], n)
    <3>1. v = u /\ i \in Slots
      BY <1>1, <2>1 DEF Queue
    <3>. QED BY <2>1, <3>1 DEF Current
  <2>2. CASE u.active = None /\ i \in Free(u)
    <3>1. ~HasCommands(Current(v))
      BY <1>1, <2>2 DEF Current, Free
    <3>. QED BY <1>1, <2>2, <3>1, ActivatedIs
  <2>. QED BY <2>1, <2>2
<1>3. v.slots \in [Slots -> Slot(R)] /\ Current(v) = v.slots[i] /\ Current(v) \in Slot(R)
  BY <1>2 DEF Queue, Current
<1>4. PICK c : c = Current(v)
  OBVIOUS
<1>5. PICK t : t = Prepare(c, n)
  OBVIOUS
<1>6. q = WithSlot(v, t)
  <2>1. q = [slots |-> [u.slots EXCEPT ![i] = t], active |-> i]
    <3>1. Prepare(u.slots[i], n) = t
      BY <1>2, <1>3, <1>4, <1>5
    <3>2. q = [slots |-> [u.slots EXCEPT ![i] = Prepare(u.slots[i], n)], active |-> i]
      BY <1>2, <1>3 DEF Opened
    <3>. QED BY <3>1, <3>2, Zenon
  <2>2. WithSlot(v, t) = [slots |-> [v.slots EXCEPT ![i] = t], active |-> i]
    <3>1. v = [slots |-> v.slots, active |-> i]
      BY <1>1
    <3>. QED BY <1>2, <3>1 DEF WithSlot
  <2>. QED BY <1>2, <2>1, <2>2
<1>7. c \in Slot(R) /\ c.used <= c.capacity /\ (HasCommands(c) => c.capacity # 0 /\ Fits(c, n))
  <2>1. SlotSound(v, g, i)
    BY <1>2 DEF RingSound
  <2>2. c.used <= c.capacity /\ (HasCommands(c) => c.capacity # 0)
    BY <1>3, <1>4, <2>1 DEF SlotSound
  <2>. QED BY <1>2, <1>3, <1>4, <2>2 DEF CanFit
<1>8. /\ t \in Slot(R) /\ t.used <= t.capacity /\ t.capacity # 0
      /\ t.refs = c.refs /\ t.flight = c.flight /\ Fits(t, n)
  BY <1>5, <1>7, PreparedIs
<1>9. v.active # None /\ Current(v).refs \subseteq t.refs /\ t.flight = Current(v).flight
  BY <1>2, <1>4, <1>8
<1>10. /\ q \in Queue(R) /\ RingSound(q, g) /\ q.active = v.active /\ Current(q) = t
       /\ Referenced(q) = Referenced(v) \cup t.refs /\ Current(v).flight = "free"
  BY <1>2, <1>6, <1>8, <1>9, WithSlotIs
<1>11. t.refs \subseteq Referenced(v)
  <2>1. ASSUME NEW x \in t.refs PROVE x \in Referenced(v)
    <3>1. v.slots[i].flight # "signalled" /\ x \in v.slots[i].refs
      BY <1>3, <1>4, <1>8, <1>10
    <3>. QED BY <1>2, <3>1, ReferencedIs
  <2>. QED BY <2>1
<1>. QED BY <1>2, <1>8, <1>10, <1>11

\* An acquired slot holds what it was acquired for.
LEMMA AcquiredIs ==
  ASSUME NEW R, NEW u \in Queue(R), NEW g \in Seq(Slots), RingSound(u, g), NEW n \in Nat \ {0},
         NEW q, q = Acquired(u, n), NEW h, h = g \o AcquireBatch(u, n)
  PROVE  /\ q \in Queue(R) /\ h \in Seq(Slots) /\ RingSound(q, h)
         /\ Referenced(q) = Referenced(u)
         /\ q.active # None =>
              /\ q.active \in Slots /\ Current(q) \in Slot(R)
              /\ Fits(Current(q), n) /\ Current(q).capacity # 0
<1>1. PICK p : p = Polled(u)
  OBVIOUS
<1>2. /\ p \in Queue(R) /\ RingSound(p, g) /\ p.active = u.active
      /\ Referenced(p) = Referenced(u)
  BY <1>1, PolledIs
<1>3. PICK s : s = IF KeepsActive(p, n) THEN p ELSE Submitted(p)
  OBVIOUS
<1>4. PICK i : i = IF KeepsActive(p, n) THEN p.active ELSE IF Free(s) = {} THEN None ELSE Min(Free(s))
  OBVIOUS
<1>5. q = IF i = None THEN s ELSE Opened(s, i, n)
  BY <1>1, <1>3, <1>4 DEF Acquired
<1>6. h = g \o (IF KeepsActive(p, n) THEN <<>> ELSE Batch(p))
  BY <1>1 DEF AcquireBatch
<1>7. /\ s \in Queue(R) /\ h \in Seq(Slots) /\ RingSound(s, h) /\ Referenced(s) = Referenced(u)
      /\ ~KeepsActive(p, n) => s.active = None
  <2>1. CASE KeepsActive(p, n)
    <3>1. s = p
      BY <1>3, <2>1
    <3>2. h = g
      <4>1. h = g \o <<>>
        BY <1>6, <2>1, Zenon
      <4>. QED BY <4>1, ConcatEmptySeq, Zenon
    <3>. QED BY <1>2, <2>1, <3>1, <3>2
  <2>2. CASE ~KeepsActive(p, n)
    <3>1. s = Submitted(p) /\ h = g \o Batch(p)
      <4>1. s = Submitted(p)
        BY <1>3, <2>2
      <4>. QED BY <1>6, <2>2, <4>1, Zenon
    <3>. QED BY <1>2, <3>1, SubmittedIs
  <2>. QED BY <2>1, <2>2
<1>8. CASE i = None
  <2>1. q = s
    BY <1>5, <1>8
  <2>2. q.active = None
    BY <1>4, <1>7, <1>8, <2>1 DEF KeepsActive
  <2>. QED BY <1>7, <2>1, <2>2
<1>9. CASE i # None
  <2>1. \/ s.active = i /\ CanFit(s.slots[i], n)
        \/ s.active = None /\ i \in Free(s)
    <3>1. CASE KeepsActive(p, n)
      BY <1>3, <1>4, <3>1 DEF KeepsActive
    <3>2. CASE ~KeepsActive(p, n)
      <4>1. Free(s) # {} /\ i = Min(Free(s)) /\ s.active = None
        BY <1>4, <1>7, <1>9, <3>2
      <4>2. Free(s) \in SUBSET Slots
        BY DEF Free
      <4>. QED BY <4>1, <4>2, FirstSlot
    <3>. QED BY <3>1, <3>2
  <2>2. q = Opened(s, i, n)
    BY <1>5, <1>9
  <2>3. s \in Queue(R) /\ h \in Seq(Slots) /\ RingSound(s, h)
    BY <1>7
  <2>4. /\ q \in Queue(R) /\ RingSound(q, h) /\ Referenced(q) = Referenced(s)
        /\ q.active \in Slots /\ Current(q) \in Slot(R)
        /\ Fits(Current(q), n) /\ Current(q).capacity # 0
    <3>1. /\ q \in Queue(R) /\ RingSound(q, h)
          /\ q.active \in Slots /\ Current(q) \in Slot(R)
          /\ Fits(Current(q), n) /\ Current(q).capacity # 0
      BY <1>9, <2>1, <2>2, <2>3, PreparedSlotIs
    <3>2. Referenced(q) = Referenced(s)
      <4>1. Referenced(Opened(s, i, n)) = Referenced(s)
        BY <1>9, <2>1, <2>3, PreparedSlotIs, ZenonT(30)
      <4>. QED BY <2>2, <4>1
    <3>. QED BY <3>1, <3>2
  <2>. QED BY <1>7, <2>4
<1>. QED BY <1>8, <1>9

\* The fence of the oldest batch signals.
LEMMA SignalledIs ==
  ASSUME NEW R, NEW u \in Queue(R), NEW g \in Seq(Slots), RingSound(u, g), g # <<>>,
         NEW i, i = Head(g), NEW p, p = Signalled(u, i)
  PROVE  /\ p \in Queue(R) /\ Tail(g) \in Seq(Slots) /\ RingSound(p, Tail(g))
         /\ Referenced(p) \subseteq Referenced(u)
         /\ Referenced(u) \subseteq Referenced(p) \cup u.slots[i].refs
         /\ u.slots[i].refs \in SUBSET R
         /\ ~Idle(u)
<1>1. /\ u.slots \in [Slots -> Slot(R)] /\ u.active \in Slots \cup {None}
      /\ u = [slots |-> u.slots, active |-> u.active]
      /\ IsInjective(g)
  BY DEF Queue, RingSound
<1>2. /\ i \in Slots /\ Tail(g) \in Seq(Slots) /\ IsInjective(Tail(g))
      /\ ToSet(Tail(g)) = ToSet(g) \ {i} /\ i \in ToSet(g)
  BY <1>1, TailOnce
<1>3. u.slots[i] \in Slot(R) /\ SlotSound(u, g, i) /\ u.slots[i].flight = "running"
  <2>1. SlotSound(u, g, i)
    BY <1>2 DEF RingSound
  <2>. QED BY <1>1, <1>2, <2>1 DEF SlotSound
<1>. DEFINE s == u.slots[i]
            t == [used |-> s.used, capacity |-> s.capacity, refs |-> s.refs, flight |-> "signalled"]
<1>4. p = [slots |-> [u.slots EXCEPT ![i] = t], active |-> u.active]
  <2>1. [s EXCEPT !.flight = "signalled"] = t
    BY <1>3 DEF Slot
  <2>2. p = [slots |-> [u.slots EXCEPT ![i] = [s EXCEPT !.flight = "signalled"]], active |-> u.active]
    BY <1>1, <1>2 DEF Signalled
  <2>. QED BY <2>1, <2>2, Zenon
<1>5. t \in Slot(R) /\ s.refs \in SUBSET R
  BY <1>3 DEF Slot, Flights
<1>6. /\ t.used = s.used /\ t.capacity = s.capacity /\ t.refs = s.refs /\ t.flight = "signalled"
      /\ s = u.slots[i]
  OBVIOUS
<1>. HIDE DEF s, t
<1>7. /\ p.active = u.active /\ p.slots[i] = t
      /\ \A j \in Slots : j # i => p.slots[j] = u.slots[j]
  BY <1>1, <1>2, <1>4
<1>8. p \in Queue(R)
  BY <1>1, <1>2, <1>4, <1>5 DEF Queue
<1>9. ASSUME NEW j \in Slots PROVE SlotSound(p, Tail(g), j)
  <2>1. CASE j = i
    BY <1>2, <1>3, <1>6, <1>7, <2>1 DEF SlotSound, InFlight, HasCommands
  <2>2. CASE j # i
    <3>1. SlotSound(u, g, j) /\ p.slots[j] = u.slots[j] /\ (j \in ToSet(Tail(g)) <=> j \in ToSet(g))
      BY <1>2, <1>7, <2>2 DEF RingSound
    <3>. QED BY <1>7, <3>1 DEF SlotSound
  <2>. QED BY <2>1, <2>2
<1>10. Referenced(p) \subseteq Referenced(u)
  <2>1. \A j \in Slots : p.slots[j].flight # "signalled" => j # i
    BY <1>6, <1>7
  <2>2. ASSUME NEW x \in Referenced(p) PROVE x \in Referenced(u)
    <3>1. PICK j \in Slots : p.slots[j].flight # "signalled" /\ x \in p.slots[j].refs
      BY ReferencedIs
    <3>2. p.slots[j] = u.slots[j]
      BY <1>7, <2>1, <3>1
    <3>. QED BY <3>1, <3>2, ReferencedIs
  <2>. QED BY <2>2
<1>11. Referenced(u) \subseteq Referenced(p) \cup u.slots[i].refs
  BY <1>7, ReferencedIs
<1>12. ~Idle(u)
  BY <1>2, <1>3 DEF Idle, InFlight
<1>. QED BY <1>1, <1>2, <1>5, <1>6, <1>8, <1>9, <1>10, <1>11, <1>12 DEF RingSound

\* Nothing is left to run for an idle queue.
LEMMA IdleIs ==
  ASSUME NEW u, Idle(u)
  PROVE  Referenced(u) = {}
BY ReferencedIs DEF Idle, HasCommands

-----------------------------------------------------------------------------
(* Models, resources and indexes.                                          *)

Inv == UploadInvariant /\ RecordedIsAlive

LEMMA Models ==
  ASSUME NEW p \in Prepared
  PROVE  /\ Len(p.textures) \in Nat /\ Len(p.meshes) \in Nat /\ p.materials \in Nat
         /\ \A n \in 1 .. Len(p.textures) : p.textures[n] \in Nat \ {0} /\ Texture(n) \in Resources(p)
         /\ \A n \in 1 .. Len(p.meshes) :
              /\ p.meshes[n][1] \in Nat \ {0} /\ p.meshes[n][2] \in Nat \ {0}
              /\ Mesh(n) \in Resources(p) /\ Scratch(n) \in Scratches(p)
         /\ \A x \in Resources(p) : \/ \E n \in 1 .. Len(p.textures) : x = Texture(n)
                                    \/ \E n \in 1 .. Len(p.meshes) : x = Mesh(n)
         /\ Resources(p) \cap Scratches(p) = {}
<1>1. /\ p.textures \in Seq(Nat \ {0}) /\ p.meshes \in Seq((Nat \ {0}) \X (Nat \ {0}))
      /\ p.materials \in Nat
  BY UploadAssumption
<1>2. /\ Len(p.textures) \in Nat /\ DOMAIN p.textures = 1 .. Len(p.textures)
      /\ \A n \in 1 .. Len(p.textures) : p.textures[n] \in Nat \ {0}
  BY <1>1, ElementOfSeq, LenProperties
<1>3. /\ Len(p.meshes) \in Nat /\ DOMAIN p.meshes = 1 .. Len(p.meshes)
      /\ \A n \in 1 .. Len(p.meshes) : p.meshes[n] \in (Nat \ {0}) \X (Nat \ {0})
  BY <1>1, ElementOfSeq, LenProperties
<1>4. \A n \in 1 .. Len(p.meshes) : p.meshes[n][1] \in Nat \ {0} /\ p.meshes[n][2] \in Nat \ {0}
  BY <1>3
<1>5. \A n, m : Texture(n) # Scratch(m) /\ Mesh(n) # Scratch(m)
  BY DEF Texture, Mesh, Scratch
<1>6. Resources(p) \cap Scratches(p) = {}
  BY <1>5 DEF Resources, Scratches
<1>. QED BY <1>1, <1>2, <1>3, <1>4, <1>6 DEF Resources, Scratches

LEMMA MadeIs ==
  ASSUME NEW b, NEW x
  PROVE  x \in Made(b) <=> \/ \E n \in 1 .. b.texture : x = Texture(n)
                           \/ \E n \in 1 .. b.mesh : x = Mesh(n)
BY DEF Made

\* The fields of a builder.
LEMMA BuildIs ==
  ASSUME NEW b \in Build
  PROVE  /\ b.phase \in Phases /\ b.texture \in 0 .. Len(prepared.textures)
         /\ b.mesh \in 0 .. Len(prepared.meshes) /\ b.material \in 0 .. prepared.materials
         /\ b.failing \in BOOLEAN /\ b.error \in {"none", "resource", "reservation"}
         /\ b = [phase |-> b.phase, texture |-> b.texture, mesh |-> b.mesh,
                 material |-> b.material, failing |-> b.failing, error |-> b.error]
BY DEF Build

\* The phase follows the indexes, and once is enough.
LEMMA AdvancedIs ==
  ASSUME NEW b \in Build, IndexesFollow(b), NEW c, c = Advanced(b)
  PROVE  /\ c \in Build /\ IndexesFollow(c) /\ Advanced(c) = c
         /\ c.texture = b.texture /\ c.mesh = b.mesh /\ c.material = b.material
         /\ c.failing = b.failing /\ c.error = b.error /\ Made(c) = Made(b)
         /\ c.phase # b.phase => c.phase \in {"Meshes", "WaitingForGpu"}
         /\ c.phase = "Textures" => c.texture # Len(prepared.textures)
         /\ c.phase = "Meshes" => c.mesh # Len(prepared.meshes)
<1>1. /\ b.phase \in Phases
      /\ b = [phase |-> b.phase, texture |-> b.texture, mesh |-> b.mesh,
                 material |-> b.material, failing |-> b.failing, error |-> b.error]
  BY BuildIs
<1>. DEFINE one == IF b.phase = "Textures" /\ b.texture = Len(prepared.textures)
                     THEN "Meshes" ELSE b.phase
            two == IF one = "Meshes" /\ b.mesh = Len(prepared.meshes)
                     THEN "WaitingForGpu" ELSE one
<1>2. c = [b EXCEPT !.phase = two]
  BY DEF Advanced
<1>3. two \in Phases
  BY <1>1 DEF Phases
<1>4. /\ two # b.phase => two \in {"Meshes", "WaitingForGpu"}
      /\ two = "Textures" => b.phase = "Textures" /\ b.texture # Len(prepared.textures)
      /\ two = "Meshes" => b.mesh # Len(prepared.meshes)
      /\ two \in {"Meshes", "WaitingForGpu"} /\ two # b.phase =>
           b.texture = Len(prepared.textures) \/ b.phase = "Meshes"
      /\ two = "WaitingForGpu" => b.mesh = Len(prepared.meshes) \/ b.phase = "WaitingForGpu"
  OBVIOUS
<1>. HIDE DEF one, two
<1>5. /\ c.phase = two /\ c.texture = b.texture /\ c.mesh = b.mesh /\ c.material = b.material
      /\ c.failing = b.failing /\ c.error = b.error
      /\ c = [phase |-> two, texture |-> b.texture, mesh |-> b.mesh,
                 material |-> b.material, failing |-> b.failing, error |-> b.error]
  BY <1>1, <1>2
<1>6. c \in Build
  BY <1>3, <1>5, BuildIs DEF Build
<1>7. IndexesFollow(c)
  BY <1>4, <1>5 DEF IndexesFollow
<1>8. Advanced(c) = c
  <2>. DEFINE three == IF c.phase = "Textures" /\ c.texture = Len(prepared.textures)
                         THEN "Meshes" ELSE c.phase
              four == IF three = "Meshes" /\ c.mesh = Len(prepared.meshes)
                        THEN "WaitingForGpu" ELSE three
  <2>1. Advanced(c) = [c EXCEPT !.phase = four]
    BY DEF Advanced
  <2>2. four = c.phase
    BY <1>4, <1>5
  <2>. HIDE DEF three, four
  <2>. QED BY <1>5, <2>1, <2>2
<1>9. Made(c) = Made(b)
  BY <1>5 DEF Made
<1>. QED BY <1>4, <1>5, <1>6, <1>7, <1>8, <1>9

\* The builder gives up.
LEMMA GivesUp ==
  ASSUME NEW b \in Build, NEW f \in BOOLEAN, NEW e \in {"none", "resource"}, NEW c,
         c = [phase |-> "Cancelling", texture |-> b.texture, mesh |-> b.mesh,
              material |-> b.material, failing |-> f, error |-> e]
  PROVE  /\ c \in Build /\ c.phase = "Cancelling" /\ c.error = e /\ Made(c) = Made(b)
         /\ IndexesFollow(c)
<1>1. c \in Build
  BY BuildIs DEF Build, Phases
<1>2. Made(c) = Made(b)
  BY DEF Made
<1>. QED BY <1>1, <1>2 DEF IndexesFollow

------------------------------------------------------------------------------
(* The actions.                                                            *)

\* What all steps of the pump start from.
LEMMA WhilePumped ==
  ASSUME Inv, step # "none"
  PROVE  /\ TypeOK /\ RingSound(queue, gpu) /\ host = "building" /\ ReservationHolds
         /\ queue \in Queue(Resources(prepared)) /\ gpu \in Seq(Slots) /\ build \in Build
         /\ prepared \in Prepared
         /\ Made(build) \subseteq alive /\ Made(build) \subseteq uploaded \cup Referenced(queue)
         /\ build.phase \notin {"Ready", "Cancelled", "Failed"}
         /\ build.phase = "Materials" => Idle(queue)
         /\ IndexesFollow(build) /\ PumpFollows(step, build)
         /\ ~rayQuery => Referenced(queue) \subseteq alive
<1>1. TypeOK /\ RingSound(queue, gpu) /\ BuildSound /\ GoneIsIdle /\ ReservationHolds /\ RecordedIsAlive
  BY DEF Inv, UploadInvariant
<1>2. host = "building"
  BY <1>1 DEF GoneIsIdle
<1>. QED BY <1>1, <1>2 DEF BuildSound, RecordedIsAlive, TypeOK

\* What a step of the pump has to show which does not end the build.
LEMMA StillPumped ==
  ASSUME TypeOK, UNCHANGED pumpFrame, host' = "building", gpu' \in Seq(Slots),
         queue' \in Queue(Resources(prepared)), RingSound(queue, gpu)',
         alive' \subseteq Resources(prepared) \cup Scratches(prepared),
         build' \in Build, build'.error # "reservation", step' \in Steps,
         Made(build') \subseteq alive', Made(build') \subseteq uploaded \cup Referenced(queue'),
         build'.phase \notin {"Ready", "Cancelled", "Failed"},
         build'.phase = "Materials" => Idle(queue'),
         IndexesFollow(build'), PumpFollows(step', build'),
         ~rayQuery => Referenced(queue') \subseteq alive'
  PROVE  Inv'
<1>1. prepared' = prepared /\ rayQuery' = rayQuery /\ uploaded' = uploaded /\ cancelled' = cancelled
  BY DEF pumpFrame, inputVars
<1>2. Build' = Build
  BY <1>1 DEF Build
<1>3. TypeOK'
  BY <1>1, <1>2 DEF TypeOK
<1>4. BuildSound'
  <2>1. Made(build)' = Made(build') /\ IndexesFollow(build)' /\ PumpFollows(step, build)'
    BY <1>1 DEF Made, IndexesFollow, PumpFollows, Advanced, StepOf
  <2>. QED BY <1>1, <2>1 DEF BuildSound
<1>5. GoneIsIdle' /\ PublishedIsUploaded' /\ ReservationHolds' /\ RecordedIsAlive'
  BY <1>1 DEF GoneIsIdle, PublishedIsUploaded, ReservationHolds, RecordedIsAlive
<1>. QED BY <1>3, <1>4, <1>5 DEF Inv, UploadInvariant

LEMMA StepOfIs ==
  ASSUME NEW p \in Phases
  PROVE  /\ StepOf(p) \in {"record", "submit", "materials"}
         /\ StepOf(p) = "record" <=> p \in {"Textures", "Meshes"}
         /\ StepOf(p) = "submit" <=> p \in {"WaitingForGpu", "Cancelling"}
BY DEF StepOf, Phases

LEMMA BeginPumpKeeps ==
  ASSUME Inv, BeginPump
  PROVE  Inv'
<1>1. /\ host = "building" /\ host' = "building" /\ step = "none"
      /\ queue' = Polled(queue) /\ UNCHANGED pumpFrame /\ gpu' = gpu /\ alive' = alive
      /\ build' = IF cancelled THEN [build EXCEPT !.phase = "Cancelling"] ELSE Advanced(build)
      /\ step' = StepOf(build'.phase)
  BY DEF BeginPump
<1>2. TypeOK /\ RingSound(queue, gpu) /\ BuildSound /\ ReservationHolds /\ RecordedIsAlive
  BY DEF Inv, UploadInvariant
<1>3. /\ queue \in Queue(Resources(prepared)) /\ gpu \in Seq(Slots) /\ build \in Build
      /\ alive \subseteq Resources(prepared) \cup Scratches(prepared)
  BY <1>2 DEF TypeOK
<1>4. /\ queue' \in Queue(Resources(prepared)) /\ RingSound(queue', gpu)
      /\ Referenced(queue') = Referenced(queue)
      /\ Idle(queue) => Idle(queue')
  BY <1>1, <1>2, <1>3, PolledIs
<1>6. /\ build' \in Build /\ IndexesFollow(build') /\ Made(build') = Made(build)
      /\ build'.phase # build.phase => build'.phase \in {"Cancelling", "Meshes", "WaitingForGpu"}
      /\ build'.error = build.error
      /\ build'.phase # "Cancelling" => build' = Advanced(build')
  <2>1. CASE cancelled
    <3>1. build' = [phase |-> "Cancelling", texture |-> build.texture, mesh |-> build.mesh,
                    material |-> build.material, failing |-> build.failing, error |-> build.error]
      BY <1>1, <1>3, <2>1 DEF Build
    <3>2. build.error \in {"none", "resource"} /\ build.failing \in BOOLEAN
      BY <1>2, <1>3, BuildIs DEF ReservationHolds
    <3>. QED BY <1>3, <3>1, <3>2, GivesUp
  <2>2. CASE ~cancelled
    <3>1. build' = Advanced(build) /\ IndexesFollow(build)
      BY <1>1, <1>2, <2>2 DEF BuildSound
    <3>. QED BY <1>3, <3>1, AdvancedIs
  <2>. QED BY <2>1, <2>2
<1>7. step' \in Steps /\ PumpFollows(step', build')
  <2>1. build'.phase \in Phases
    BY <1>6, BuildIs
  <2>2. step' \in {"record", "submit", "materials"} /\ (step' = "record" => build'.phase # "Cancelling")
    BY <1>1, <2>1, StepOfIs
  <2>. QED BY <1>1, <1>6, <2>2 DEF PumpFollows, Steps
<1>8. /\ Made(build') \subseteq alive' /\ Made(build') \subseteq uploaded \cup Referenced(queue')
      /\ build'.phase \notin {"Ready", "Cancelled", "Failed"}
      /\ build'.phase = "Materials" => Idle(queue')
      /\ build'.error # "reservation"
      /\ ~rayQuery => Referenced(queue') \subseteq alive'
  BY <1>1, <1>2, <1>4, <1>6 DEF BuildSound, ReservationHolds, RecordedIsAlive
<1>. QED BY <1>1, <1>2, <1>3, <1>4, <1>6, <1>7, <1>8, StillPumped

\* acquire finds no slot, or a constructor fails and the builder gives up.
LEMMA UnrecordedKeeps ==
  ASSUME Inv, step = "record", UNCHANGED <<pumpFrame, host>>, NEW q,
         FindsNoSlot(q) \/ Fails(q, "resource"),
         q \in Queue(Resources(prepared)), gpu' \in Seq(Slots), RingSound(q, gpu'),
         Referenced(queue) \subseteq Referenced(q),
         ~rayQuery => Referenced(q) = Referenced(queue)
  PROVE  Inv'
<1>1. /\ TypeOK /\ RingSound(queue, gpu) /\ host = "building" /\ ReservationHolds
      /\ build \in Build /\ prepared \in Prepared
      /\ Made(build) \subseteq alive /\ Made(build) \subseteq uploaded \cup Referenced(queue)
      /\ build.phase \notin {"Ready", "Cancelled", "Failed"}
      /\ IndexesFollow(build) /\ PumpFollows(step, build)
      /\ ~rayQuery => Referenced(queue) \subseteq alive
  BY WhilePumped
<1>2. /\ queue' = q /\ step' = "none" /\ alive' = alive /\ host' = "building"
      /\ UNCHANGED pumpFrame /\ queue' \in Queue(Resources(prepared)) /\ RingSound(queue, gpu)'
  BY <1>1 DEF FindsNoSlot, Fails
<1>3. /\ build' \in Build /\ IndexesFollow(build') /\ Made(build') = Made(build)
      /\ build'.error # "reservation" /\ build'.phase \notin {"Ready", "Cancelled", "Failed", "Materials"}
  <2>1. CASE FindsNoSlot(q)
    <3>1. build' = build
      BY <2>1 DEF FindsNoSlot
    <3>2. build.phase # "Materials"
      BY <1>1 DEF PumpFollows, StepOf
    <3>. QED BY <1>1, <3>1, <3>2 DEF ReservationHolds
  <2>2. CASE Fails(q, "resource")
    <3>1. PICK failing \in BOOLEAN :
            build' = [phase |-> "Cancelling", texture |-> build.texture, mesh |-> build.mesh,
                      material |-> build.material, failing |-> failing, error |-> "resource"]
      BY <1>1, <2>2 DEF Fails, Build
    <3>. QED BY <1>1, <3>1, GivesUp
  <2>. QED BY <2>1, <2>2
<1>4. PumpFollows(step', build') /\ step' \in Steps
  BY <1>2 DEF PumpFollows, Steps
<1>5. alive \subseteq Resources(prepared) \cup Scratches(prepared)
  BY <1>1 DEF TypeOK
<1>6. /\ Made(build') \subseteq alive' /\ Made(build') \subseteq uploaded \cup Referenced(queue')
      /\ ~rayQuery => Referenced(queue') \subseteq alive'
  BY <1>1, <1>2, <1>3
<1>. QED BY <1>1, <1>2, <1>3, <1>4, <1>5, <1>6, StillPumped

\* A resource is made and its commands are recorded.
LEMMA RecordedKeeps ==
  ASSUME Inv, step = "record", UNCHANGED <<pumpFrame, host>>, NEW q, NEW new, NEW b, NEW r,
         Records(q, new, b), r \in new,
         new \subseteq Resources(prepared) \cup Scratches(prepared),
         q \in Queue(Resources(prepared)), gpu' \in Seq(Slots), RingSound(q, gpu'),
         Referenced(q) = Referenced(queue) \cup {r},
         b \in Build, IndexesFollow(b), b.phase = build.phase, b.error = build.error,
         Made(b) = Made(build) \cup {r}
  PROVE  Inv'
<1>1. /\ TypeOK /\ RingSound(queue, gpu) /\ host = "building" /\ ReservationHolds
      /\ build \in Build /\ prepared \in Prepared
      /\ Made(build) \subseteq alive /\ Made(build) \subseteq uploaded \cup Referenced(queue)
      /\ IndexesFollow(build) /\ PumpFollows(step, build)
      /\ ~rayQuery => Referenced(queue) \subseteq alive
  BY WhilePumped
<1>2. /\ queue' = q /\ alive' = alive \cup new /\ host' = "building" /\ build' = Advanced(b)
      /\ step' \in {"none", StepOf(build'.phase)}
      /\ UNCHANGED pumpFrame /\ queue' \in Queue(Resources(prepared)) /\ RingSound(queue, gpu)'
  BY <1>1 DEF Records
<1>3. build.phase \in {"Textures", "Meshes"}
  BY <1>1, StepOfIs, BuildIs DEF PumpFollows
<1>4. /\ build' \in Build /\ IndexesFollow(build') /\ Advanced(build') = build'
      /\ Made(build') = Made(build) \cup {r} /\ build'.error = build.error
      /\ build'.phase \in {"Textures", "Meshes", "WaitingForGpu"}
  BY <1>2, <1>3, AdvancedIs
<1>5. step' \in Steps /\ PumpFollows(step', build')
  <2>1. build'.phase \in Phases
    BY <1>4, BuildIs
  <2>2. step' \in {"none", "record", "submit"}
    BY <1>2, <1>4, <2>1, StepOfIs
  <2>. QED BY <1>2, <1>4, <2>2 DEF PumpFollows, Steps
<1>6. alive \subseteq Resources(prepared) \cup Scratches(prepared) /\ build'.error # "reservation"
  BY <1>1, <1>4 DEF TypeOK, ReservationHolds
<1>7. /\ Made(build') \subseteq alive' /\ Made(build') \subseteq uploaded \cup Referenced(queue')
      /\ ~rayQuery => Referenced(queue') \subseteq alive'
      /\ alive' \subseteq Resources(prepared) \cup Scratches(prepared)
  BY <1>1, <1>2, <1>4, <1>6
<1>8. build'.phase \notin {"Ready", "Cancelled", "Failed", "Materials"}
  BY <1>4
<1>. QED BY <1>1, <1>2, <1>4, <1>5, <1>6, <1>7, <1>8, StillPumped

\* The active slot gets the commands for r with what is staged for them, s.
LEMMA RecordedIs ==
  ASSUME NEW R, NEW u \in Queue(R), NEW g \in Seq(Slots), RingSound(u, g), u.active # None,
         NEW s \in Slot(R), s.used <= s.capacity, s.capacity # 0,
         s.refs = Current(u).refs, s.flight = Current(u).flight, NEW r \in R
  PROVE  /\ WithSlot(u, s) \in Queue(R) /\ RingSound(WithSlot(u, s), g)
         /\ Referenced(WithSlot(u, s)) = Referenced(u)
         /\ WithSlot(u, Recorded(s, r)) \in Queue(R) /\ RingSound(WithSlot(u, Recorded(s, r)), g)
         /\ Referenced(WithSlot(u, Recorded(s, r))) = Referenced(u) \cup {r}
<1>1. PICK p : p = WithSlot(u, s)
  OBVIOUS
<1>2. PICK t : t = Recorded(s, r)
  OBVIOUS
<1>3. PICK q : q = WithSlot(u, t)
  OBVIOUS
<1>4. /\ t \in Slot(R) /\ t.used = s.used /\ t.capacity = s.capacity /\ t.flight = s.flight
      /\ t.refs = s.refs \cup {r}
  <2>1. /\ s.used \in Nat /\ s.capacity \in Nat /\ s.refs \in SUBSET R /\ s.flight \in Flights
        /\ s = [used |-> s.used, capacity |-> s.capacity, refs |-> s.refs, flight |-> s.flight]
    BY DEF Slot
  <2>2. t = [used |-> s.used, capacity |-> s.capacity, refs |-> s.refs \cup {r}, flight |-> s.flight]
    BY <1>2, <2>1 DEF Recorded
  <2>3. s.refs \cup {r} \in SUBSET R
    BY <2>1
  <2>4. t \in Slot(R)
    BY <2>1, <2>2, <2>3 DEF Slot
  <2>. QED BY <2>2, <2>4
<1>5. Current(u).refs \subseteq s.refs /\ Current(u).refs \subseteq t.refs
  BY <1>4
<1>6. /\ p \in Queue(R) /\ RingSound(p, g) /\ Referenced(p) = Referenced(u) \cup s.refs
      /\ Current(u).flight = "free"
  BY <1>1, <1>5, WithSlotIs
<1>7. q \in Queue(R) /\ RingSound(q, g) /\ Referenced(q) = Referenced(u) \cup t.refs
  BY <1>3, <1>4, <1>5, WithSlotIs
<1>8. s.refs \subseteq Referenced(u)
  <2>1. u.active \in Slots
    BY DEF Queue
  <2>2. ASSUME NEW x \in s.refs PROVE x \in Referenced(u)
    <3>1. u.slots[u.active].flight # "signalled" /\ x \in u.slots[u.active].refs
      BY <1>6 DEF Current
    <3>. QED BY <2>1, <3>1, ReferencedIs
  <2>. QED BY <2>2
<1>9. Referenced(p) = Referenced(u) /\ Referenced(q) = Referenced(u) \cup {r}
  BY <1>4, <1>6, <1>7, <1>8
<1>. QED BY <1>1, <1>2, <1>3, <1>6, <1>7, <1>9

LEMMA RecordTextureKeeps ==
  ASSUME Inv, RecordTexture
  PROVE  Inv'
<1>. DEFINE n == build.texture + 1
            bytes == prepared.textures[n]
            staged(q) == Staged(Current(q), bytes)
<1>1. step = "record" /\ build.phase = "Textures" /\ UNCHANGED <<pumpFrame, host>>
  BY DEF RecordTexture
<1>2. PICK q :
        /\ q = Acquired(queue, bytes) /\ gpu' = gpu \o AcquireBatch(queue, bytes)
        /\ \/ FindsNoSlot(q)
           \/ q.active # None /\ Fails(q, "resource")
           \/ q.active # None /\ Exceeds(Current(q), bytes) /\ Fails(q, "reservation")
           \/ /\ q.active # None /\ ~Exceeds(Current(q), bytes)
              /\ \/ Fails(WithSlot(q, staged(q)), "resource")
                 \/ Records(WithSlot(q, Recorded(staged(q), Texture(n))),
                            {Texture(n)}, [build EXCEPT !.texture = n])
  BY DEF RecordTexture
<1>3. /\ TypeOK /\ RingSound(queue, gpu) /\ host = "building"
      /\ queue \in Queue(Resources(prepared)) /\ gpu \in Seq(Slots) /\ build \in Build
      /\ prepared \in Prepared /\ IndexesFollow(build) /\ PumpFollows(step, build)
  BY <1>1, WhilePumped
<1>4. n \in 1 .. Len(prepared.textures) /\ n = build.texture + 1 /\ build.texture \in Nat
  <2>1. build.texture # Len(prepared.textures)
    <3>1. build = Advanced(build)
      BY <1>1, <1>3 DEF PumpFollows
    <3>. QED BY <1>1, <1>3, <3>1, AdvancedIs
  <2>2. build.texture \in 0 .. Len(prepared.textures) /\ Len(prepared.textures) \in Nat
    BY <1>3, BuildIs, Models
  <2>. QED BY <2>1, <2>2
<1>5. bytes \in Nat \ {0} /\ Texture(n) \in Resources(prepared)
  BY <1>3, <1>4, Models
<1>. HIDE DEF n, bytes, staged
<1>6. /\ q \in Queue(Resources(prepared)) /\ gpu' \in Seq(Slots) /\ RingSound(q, gpu')
      /\ Referenced(q) = Referenced(queue)
      /\ q.active # None =>
           /\ q.active \in Slots /\ Current(q) \in Slot(Resources(prepared))
           /\ Fits(Current(q), bytes) /\ Current(q).capacity # 0
  <2>1. PICK h : h = gpu \o AcquireBatch(queue, bytes)
    OBVIOUS
  <2>2. /\ q \in Queue(Resources(prepared)) /\ h \in Seq(Slots) /\ RingSound(q, h)
        /\ Referenced(q) = Referenced(queue)
        /\ q.active # None =>
             /\ q.active \in Slots /\ Current(q) \in Slot(Resources(prepared))
             /\ Fits(Current(q), bytes) /\ Current(q).capacity # 0
    BY <1>2, <1>3, <1>5, <2>1, AcquiredIs, ZenonT(30)
  <2>. QED BY <1>2, <2>1, <2>2
<1>7. CASE FindsNoSlot(q) \/ Fails(q, "resource")
  BY <1>1, <1>6, <1>7, UnrecordedKeeps
<1>8. CASE q.active # None /\ ~Exceeds(Current(q), bytes)
  <2>1. PICK s : s = staged(q)
    OBVIOUS
  <2>2. /\ s \in Slot(Resources(prepared)) /\ s.used <= s.capacity /\ s.capacity # 0
        /\ s.refs = Current(q).refs /\ s.flight = Current(q).flight
    BY <1>5, <1>6, <1>8, <2>1, StagedIs DEF staged
  <2>3. /\ WithSlot(q, s) \in Queue(Resources(prepared)) /\ RingSound(WithSlot(q, s), gpu')
        /\ Referenced(WithSlot(q, s)) = Referenced(queue)
        /\ WithSlot(q, Recorded(s, Texture(n))) \in Queue(Resources(prepared))
        /\ RingSound(WithSlot(q, Recorded(s, Texture(n))), gpu')
        /\ Referenced(WithSlot(q, Recorded(s, Texture(n)))) = Referenced(queue) \cup {Texture(n)}
    BY <1>5, <1>6, <1>8, <2>2, RecordedIs
  <2>4. CASE Fails(WithSlot(q, s), "resource")
    BY <1>1, <1>6, <2>3, <2>4, UnrecordedKeeps
  <2>5. CASE Records(WithSlot(q, Recorded(s, Texture(n))), {Texture(n)}, [build EXCEPT !.texture = n])
    <3>1. PICK b : b = [build EXCEPT !.texture = n]
      OBVIOUS
    <3>2. b = [phase |-> build.phase, texture |-> n, mesh |-> build.mesh,
               material |-> build.material, failing |-> build.failing, error |-> build.error]
      BY <1>3, <3>1 DEF Build
    <3>3. n \in 0 .. Len(prepared.textures)
      BY <1>4
    <3>4. b \in Build
      BY <1>3, <3>2, <3>3, BuildIs DEF Build
    <3>5. IndexesFollow(b) /\ b.phase = build.phase /\ b.error = build.error
      BY <1>1, <1>3, <3>2 DEF IndexesFollow
    <3>6. Made(b) = Made(build) \cup {Texture(n)}
      <4>1. \A k : k \in 1 .. n <=> k \in 1 .. build.texture \/ k = n
        BY <1>4
      <4>2. b.texture = n /\ b.mesh = build.mesh
        BY <3>2
      <4>3. ASSUME NEW x PROVE x \in Made(b) <=> x \in Made(build) \/ x = Texture(n)
        BY <4>1, <4>2, MadeIs
      <4>. QED BY <4>3
    <3>7. {Texture(n)} \subseteq Resources(prepared) \cup Scratches(prepared)
      BY <1>5
    <3>. QED BY <1>1, <1>6, <2>3, <2>5, <3>1, <3>4, <3>5, <3>6, <3>7, RecordedKeeps
  <2>. QED BY <1>2, <1>6, <1>7, <1>8, <2>1, <2>4, <2>5
<1>9. CASE Exceeds(Current(q), bytes) /\ q.active # None
  BY <1>6, <1>9 DEF Exceeds
<1>. QED BY <1>2, <1>7, <1>8, <1>9

\* The padding that a mesh reserves is enough for the second of its two copies.
LEMMA MeshFits ==
  ASSUME NEW R, NEW s \in Slot(R), NEW v \in Nat \ {0}, NEW i \in Nat \ {0},
         Fits(s, MeshBytes(v, i)), NEW f, f = Staged(s, v), NEW t, t = Staged(f, i)
  PROVE  /\ Fits(s, v) /\ Fits(f, i)
         /\ t \in Slot(R) /\ t.used <= t.capacity /\ t.capacity = s.capacity
         /\ t.refs = s.refs /\ t.flight = s.flight
<1>1. s.used \in Nat /\ s.capacity \in Nat
  BY DEF Slot
<1>2. AlignUp(s.used) \in Nat /\ Alignment - 1 \in Nat
  BY <1>1, Aligned, QueueAssumption
<1>3. AlignUp(s.used) + (v + i + (Alignment - 1)) <= s.capacity
  BY DEF Fits, MeshBytes
<1>4. Fits(s, v)
  BY <1>1, <1>2, <1>3 DEF Fits
<1>5. /\ f \in Slot(R) /\ f.capacity = s.capacity /\ f.refs = s.refs /\ f.flight = s.flight
      /\ f.used = AlignUp(s.used) + v
  BY <1>4, StagedIs
<1>6. f.used \in Nat /\ AlignUp(f.used) \in Nat /\ AlignUp(f.used) <= f.used + (Alignment - 1)
  <2>1. f.used \in Nat
    BY <1>2, <1>5
  <2>. QED BY <2>1, Aligned
<1>7. Fits(f, i)
  <2>1. AlignUp(f.used) + i <= f.capacity
    BY <1>1, <1>2, <1>3, <1>5, <1>6
  <2>. QED BY <2>1 DEF Fits
<1>8. /\ t \in Slot(R) /\ t.used <= t.capacity /\ t.capacity = f.capacity
      /\ t.refs = f.refs /\ t.flight = f.flight
  BY <1>5, <1>7, StagedIs
<1>. QED BY <1>4, <1>5, <1>7, <1>8

LEMMA RecordMeshKeeps ==
  ASSUME Inv, RecordMesh
  PROVE  Inv'
<1>. DEFINE n == build.mesh + 1
            vertices == prepared.meshes[n][1]
            indices == prepared.meshes[n][2]
            bytes == MeshBytes(vertices, indices)
            first(q) == Staged(Current(q), vertices)
            last(q) == Staged(first(q), indices)
            exceeds(q) == Exceeds(Current(q), vertices) \/ Exceeds(first(q), indices)
            made == {Mesh(n)} \cup (IF rayQuery THEN {Scratch(n)} ELSE {})
<1>1. step = "record" /\ build.phase = "Meshes" /\ UNCHANGED <<pumpFrame, host>>
  BY DEF RecordMesh
<1>2. PICK q :
        /\ q = Acquired(queue, bytes) /\ gpu' = gpu \o AcquireBatch(queue, bytes)
        /\ \/ FindsNoSlot(q)
           \/ q.active # None /\ Fails(q, "resource")
           \/ q.active # None /\ exceeds(q) /\ Fails(q, "reservation")
           \/ /\ q.active # None /\ ~exceeds(q)
              /\ \/ rayQuery /\ Fails(WithSlot(q, Recorded(last(q), Mesh(n))), "resource")
                 \/ Records(WithSlot(q, Recorded(last(q), Mesh(n))), made, [build EXCEPT !.mesh = n])
  BY DEF RecordMesh
<1>3. /\ TypeOK /\ RingSound(queue, gpu) /\ host = "building"
      /\ queue \in Queue(Resources(prepared)) /\ gpu \in Seq(Slots) /\ build \in Build
      /\ prepared \in Prepared /\ IndexesFollow(build) /\ PumpFollows(step, build)
  BY <1>1, WhilePumped
<1>4. n \in 1 .. Len(prepared.meshes) /\ n = build.mesh + 1 /\ build.mesh \in Nat
  <2>1. build.mesh # Len(prepared.meshes)
    <3>1. build = Advanced(build)
      BY <1>1, <1>3 DEF PumpFollows
    <3>. QED BY <1>1, <1>3, <3>1, AdvancedIs
  <2>2. build.mesh \in 0 .. Len(prepared.meshes) /\ Len(prepared.meshes) \in Nat
    BY <1>3, BuildIs, Models
  <2>. QED BY <2>1, <2>2
<1>5. /\ vertices \in Nat \ {0} /\ indices \in Nat \ {0} /\ bytes \in Nat \ {0}
      /\ Mesh(n) \in Resources(prepared) /\ Mesh(n) \in made
      /\ made \subseteq Resources(prepared) \cup Scratches(prepared)
      /\ bytes = MeshBytes(vertices, indices)
  <2>1. /\ vertices \in Nat \ {0} /\ indices \in Nat \ {0}
        /\ Mesh(n) \in Resources(prepared) /\ Scratch(n) \in Scratches(prepared)
    BY <1>3, <1>4, Models
  <2>2. \A v \in Nat \ {0}, i \in Nat \ {0} : MeshBytes(v, i) \in Nat \ {0}
    BY QueueAssumption DEF MeshBytes
  <2>. HIDE DEF vertices, indices
  <2>3. bytes \in Nat \ {0}
    BY <2>1, <2>2
  <2>. QED BY <2>1, <2>3
<1>. HIDE DEF n, vertices, indices, bytes, first, last, exceeds, made
<1>6. /\ q \in Queue(Resources(prepared)) /\ gpu' \in Seq(Slots) /\ RingSound(q, gpu')
      /\ Referenced(q) = Referenced(queue)
      /\ q.active # None =>
           /\ q.active \in Slots /\ Current(q) \in Slot(Resources(prepared))
           /\ Fits(Current(q), bytes) /\ Current(q).capacity # 0
  <2>1. PICK h : h = gpu \o AcquireBatch(queue, bytes)
    OBVIOUS
  <2>2. /\ queue \in Queue(Resources(prepared)) /\ gpu \in Seq(Slots) /\ RingSound(queue, gpu)
        /\ bytes \in Nat \ {0} /\ q = Acquired(queue, bytes)
    BY <1>2, <1>3, <1>5
  <2>3. /\ q \in Queue(Resources(prepared)) /\ h \in Seq(Slots) /\ RingSound(q, h)
        /\ Referenced(q) = Referenced(queue)
        /\ q.active # None =>
             /\ q.active \in Slots /\ Current(q) \in Slot(Resources(prepared))
             /\ Fits(Current(q), bytes) /\ Current(q).capacity # 0
    BY <2>1, <2>2, AcquiredIs, ZenonT(30)
  <2>. QED BY <1>2, <2>1, <2>3
<1>7. CASE FindsNoSlot(q) \/ Fails(q, "resource")
  BY <1>1, <1>6, <1>7, UnrecordedKeeps
<1>8. CASE q.active # None /\ ~(FindsNoSlot(q) \/ Fails(q, "resource"))
  <2>1. PICK s : s = last(q)
    OBVIOUS
  <2>2. /\ s \in Slot(Resources(prepared)) /\ s.used <= s.capacity /\ s.capacity # 0
        /\ s.refs = Current(q).refs /\ s.flight = Current(q).flight
        /\ ~exceeds(q)
    <3>1. PICK c \in Slot(Resources(prepared)) : c = Current(q)
      BY <1>6, <1>8
    <3>2. PICK f : f = Staged(c, vertices)
      OBVIOUS
    <3>3. s = Staged(f, indices) /\ (exceeds(q) <=> Exceeds(c, vertices) \/ Exceeds(f, indices))
      BY <2>1, <3>1, <3>2 DEF last, first, exceeds
    <3>4. Fits(c, MeshBytes(vertices, indices)) /\ c.capacity # 0
      BY <1>5, <1>6, <1>8, <3>1
    <3>5. /\ Fits(c, vertices) /\ Fits(f, indices)
          /\ s \in Slot(Resources(prepared)) /\ s.used <= s.capacity /\ s.capacity = c.capacity
          /\ s.refs = c.refs /\ s.flight = c.flight
      BY <1>5, <3>2, <3>3, <3>4, MeshFits
    <3>. QED BY <3>1, <3>3, <3>4, <3>5 DEF Exceeds
  <2>3. PICK p : p = WithSlot(q, Recorded(s, Mesh(n)))
    OBVIOUS
  <2>4. /\ p \in Queue(Resources(prepared)) /\ RingSound(p, gpu')
        /\ Referenced(p) = Referenced(queue) \cup {Mesh(n)}
    BY <1>5, <1>6, <1>8, <2>2, <2>3, RecordedIs
  <2>5. CASE rayQuery /\ Fails(p, "resource")
    BY <1>1, <1>6, <2>4, <2>5, UnrecordedKeeps
  <2>6. CASE Records(p, made, [build EXCEPT !.mesh = n])
    <3>1. PICK b : b = [build EXCEPT !.mesh = n]
      OBVIOUS
    <3>2. b = [phase |-> build.phase, texture |-> build.texture, mesh |-> n,
               material |-> build.material, failing |-> build.failing, error |-> build.error]
      BY <1>3, <3>1 DEF Build
    <3>3. n \in 0 .. Len(prepared.meshes)
      BY <1>4
    <3>4. b \in Build
      BY <1>3, <3>2, <3>3, BuildIs DEF Build
    <3>5. IndexesFollow(b) /\ b.phase = build.phase /\ b.error = build.error
      BY <1>1, <1>3, <3>2 DEF IndexesFollow
    <3>6. Made(b) = Made(build) \cup {Mesh(n)}
      <4>1. \A k : k \in 1 .. n <=> k \in 1 .. build.mesh \/ k = n
        BY <1>4
      <4>2. b.mesh = n /\ b.texture = build.texture
        BY <3>2
      <4>3. ASSUME NEW x PROVE x \in Made(b) <=> x \in Made(build) \/ x = Mesh(n)
        BY <4>1, <4>2, MadeIs
      <4>. QED BY <4>3
    <3>. QED BY <1>1, <1>5, <1>6, <2>4, <2>6, <3>1, <3>4, <3>5, <3>6, RecordedKeeps
  <2>. QED BY <1>2, <1>8, <2>1, <2>2, <2>3, <2>5, <2>6
<1>. QED BY <1>2, <1>7, <1>8

LEMMA SubmitRecordedKeeps ==
  ASSUME Inv, SubmitRecorded
  PROVE  Inv'
<1>1. /\ step = "submit" /\ step' = "wait" /\ queue' = Submitted(queue) /\ gpu' = gpu \o Batch(queue)
      /\ UNCHANGED pumpFrame /\ build' = build /\ alive' = alive /\ host' = host
  BY DEF SubmitRecorded
<1>2. /\ TypeOK /\ RingSound(queue, gpu) /\ host = "building" /\ ReservationHolds
      /\ queue \in Queue(Resources(prepared)) /\ gpu \in Seq(Slots) /\ build \in Build
      /\ Made(build) \subseteq alive /\ Made(build) \subseteq uploaded \cup Referenced(queue)
      /\ build.phase \notin {"Ready", "Cancelled", "Failed"}
      /\ IndexesFollow(build) /\ PumpFollows(step, build)
      /\ ~rayQuery => Referenced(queue) \subseteq alive
  BY <1>1, WhilePumped
<1>3. /\ queue' \in Queue(Resources(prepared)) /\ gpu' \in Seq(Slots) /\ RingSound(queue, gpu)'
      /\ Referenced(queue') = Referenced(queue)
  <2>1. PICK p, h : p = Submitted(queue) /\ h = gpu \o Batch(queue)
    OBVIOUS
  <2>2. /\ p \in Queue(Resources(prepared)) /\ h \in Seq(Slots) /\ RingSound(p, h)
        /\ Referenced(p) = Referenced(queue)
    BY <1>2, <2>1, SubmittedIs
  <2>. QED BY <1>1, <2>1, <2>2
<1>4. /\ build.phase # "Materials" /\ PumpFollows(step', build') /\ step' \in Steps
      /\ build'.error # "reservation"
  <2>1. build.phase # "Materials"
    BY <1>1, <1>2 DEF PumpFollows, StepOf
  <2>. QED BY <1>1, <1>2, <2>1 DEF PumpFollows, Steps, ReservationHolds
<1>5. alive' \subseteq Resources(prepared) \cup Scratches(prepared)
  BY <1>1, <1>2 DEF TypeOK
<1>. QED BY <1>1, <1>2, <1>3, <1>4, <1>5, StillPumped

\* The pump looks at the fences while it waits.
LEMMA Waits ==
  ASSUME Inv, step = "wait", queue' = Polled(queue)
  PROVE  /\ queue' \in Queue(Resources(prepared)) /\ RingSound(queue', gpu)
         /\ Referenced(queue') = Referenced(queue)
         /\ build.phase \in {"WaitingForGpu", "Cancelling"}
<1>1. /\ RingSound(queue, gpu) /\ queue \in Queue(Resources(prepared)) /\ gpu \in Seq(Slots)
      /\ build \in Build /\ PumpFollows(step, build)
  BY WhilePumped
<1>2. build.phase \in {"WaitingForGpu", "Cancelling"}
  BY <1>1, BuildIs, StepOfIs DEF PumpFollows
<1>3. PICK p : p = Polled(queue)
  OBVIOUS
<1>4. p \in Queue(Resources(prepared)) /\ RingSound(p, gpu) /\ Referenced(p) = Referenced(queue)
  BY <1>1, <1>3, PolledIs
<1>. QED BY <1>2, <1>3, <1>4

LEMMA KeepsWaitingKeeps ==
  ASSUME Inv, KeepsWaiting
  PROVE  Inv'
<1>1. /\ step = "wait" /\ step' = "none" /\ queue' = Polled(queue) /\ gpu' = gpu
      /\ UNCHANGED pumpFrame /\ build' = build /\ alive' = alive /\ host' = host
  BY DEF KeepsWaiting
<1>2. /\ TypeOK /\ host = "building" /\ ReservationHolds /\ gpu \in Seq(Slots) /\ build \in Build
      /\ Made(build) \subseteq alive /\ Made(build) \subseteq uploaded \cup Referenced(queue)
      /\ IndexesFollow(build)
      /\ ~rayQuery => Referenced(queue) \subseteq alive
  BY <1>1, WhilePumped
<1>3. /\ queue' \in Queue(Resources(prepared)) /\ RingSound(queue, gpu)'
      /\ Referenced(queue') = Referenced(queue) /\ build.phase \in {"WaitingForGpu", "Cancelling"}
  BY <1>1, Waits
<1>4. PumpFollows(step', build') /\ step' \in Steps /\ build'.error # "reservation"
  BY <1>1, <1>2 DEF PumpFollows, Steps, ReservationHolds
<1>5. alive' \subseteq Resources(prepared) \cup Scratches(prepared)
  BY <1>1, <1>2 DEF TypeOK
<1>. QED BY <1>1, <1>2, <1>3, <1>4, <1>5, StillPumped

\* What is made is no scratch memory.
LEMMA MadeIsNoScratch ==
  ASSUME build \in Build, prepared \in Prepared
  PROVE  /\ Made(build) \subseteq Resources(prepared) /\ Made(build) \cap Scratches(prepared) = {}
         /\ build.texture = Len(prepared.textures) /\ build.mesh = Len(prepared.meshes) =>
              Resources(prepared) \subseteq Made(build)
<1>1. /\ build.texture \in 0 .. Len(prepared.textures) /\ build.mesh \in 0 .. Len(prepared.meshes)
      /\ Len(prepared.textures) \in Nat /\ Len(prepared.meshes) \in Nat
  BY BuildIs, Models
<1>2. 1 .. build.texture \subseteq 1 .. Len(prepared.textures) /\ 1 .. build.mesh \subseteq 1 .. Len(prepared.meshes)
  BY <1>1
<1>3. Made(build) \subseteq Resources(prepared)
  BY <1>2, MadeIs, Models
<1>4. Resources(prepared) \cap Scratches(prepared) = {}
  BY Models
<1>5. build.texture = Len(prepared.textures) /\ build.mesh = Len(prepared.meshes) =>
        Resources(prepared) \subseteq Made(build)
  BY MadeIs, Models
<1>. QED BY <1>3, <1>4, <1>5

LEMMA UploadEndsKeeps ==
  ASSUME Inv, UploadEnds
  PROVE  Inv'
<1>1. /\ step = "wait" /\ step' = "materials" /\ queue' = Polled(queue) /\ Idle(queue') /\ gpu' = gpu
      /\ UNCHANGED pumpFrame /\ alive' = alive \ Scratches(prepared) /\ host' = host
      /\ build.phase = "WaitingForGpu" /\ build' = [build EXCEPT !.phase = "Materials"]
  BY DEF UploadEnds
<1>2. /\ TypeOK /\ host = "building" /\ ReservationHolds /\ gpu \in Seq(Slots) /\ build \in Build
      /\ Made(build) \subseteq alive /\ Made(build) \subseteq uploaded \cup Referenced(queue)
      /\ IndexesFollow(build) /\ prepared \in Prepared
  BY <1>1, WhilePumped
<1>3. /\ queue' \in Queue(Resources(prepared)) /\ RingSound(queue, gpu)'
      /\ Referenced(queue') = Referenced(queue)
  BY <1>1, Waits
<1>4. build' = [phase |-> "Materials", texture |-> build.texture, mesh |-> build.mesh,
                material |-> build.material, failing |-> build.failing, error |-> build.error]
  BY <1>1, <1>2 DEF Build
<1>5. build' \in Build
  BY <1>2, <1>4, BuildIs DEF Build, Phases
<1>6. /\ IndexesFollow(build') /\ Made(build') = Made(build) /\ build'.error # "reservation"
      /\ build'.phase = "Materials"
  BY <1>1, <1>2, <1>4 DEF IndexesFollow, Made, ReservationHolds
<1>7. PumpFollows(step', build') /\ step' \in Steps
  BY <1>1, <1>6 DEF PumpFollows, StepOf, Steps
<1>8. Made(build) \cap Scratches(prepared) = {}
  BY <1>2, MadeIsNoScratch
<1>9. Referenced(queue') = {}
  BY <1>1, IdleIs
<1>10. alive' \subseteq Resources(prepared) \cup Scratches(prepared)
  BY <1>1, <1>2 DEF TypeOK
<1>11. Made(build') \subseteq alive' /\ Made(build') \subseteq uploaded \cup Referenced(queue')
  BY <1>1, <1>2, <1>3, <1>6, <1>8
<1>12. ~rayQuery => Referenced(queue') \subseteq alive'
  BY <1>9
<1>. QED BY <1>1, <1>2, <1>3, <1>5, <1>6, <1>7, <1>10, <1>11, <1>12, StillPumped

LEMMA MakeMaterialsKeeps ==
  ASSUME Inv, MakeMaterials
  PROVE  Inv'
<1>1. /\ step = "materials" /\ step' = "none" /\ queue' = queue /\ gpu' = gpu /\ alive' = alive
      /\ UNCHANGED pumpFrame
  BY DEF MakeMaterials
<1>2. /\ TypeOK /\ RingSound(queue, gpu) /\ host = "building" /\ ReservationHolds
      /\ queue \in Queue(Resources(prepared)) /\ gpu \in Seq(Slots) /\ build \in Build
      /\ prepared \in Prepared
      /\ Made(build) \subseteq alive /\ Made(build) \subseteq uploaded \cup Referenced(queue)
      /\ build.phase \notin {"Ready", "Cancelled", "Failed"}
      /\ build.phase = "Materials" => Idle(queue)
      /\ IndexesFollow(build) /\ PumpFollows(step, build)
      /\ ~rayQuery => Referenced(queue) \subseteq alive
  BY <1>1, WhilePumped
<1>3. /\ build.phase = "Materials" /\ Idle(queue)
      /\ build.texture = Len(prepared.textures) /\ build.mesh = Len(prepared.meshes)
  <2>1. build.phase \in Phases /\ StepOf(build.phase) = "materials"
    BY <1>1, <1>2, BuildIs DEF PumpFollows
  <2>2. build.phase = "Materials"
    BY <1>2, <2>1, StepOfIs DEF Phases
  <2>. QED BY <1>2, <2>2 DEF IndexesFollow
<1>4. PumpFollows(step', build') /\ step' \in Steps
  BY <1>1 DEF PumpFollows, Steps
<1>5. alive' \subseteq Resources(prepared) \cup Scratches(prepared)
  BY <1>1, <1>2 DEF TypeOK
<1>6. CASE host' = host
  <2>1. /\ build' \in Build /\ Made(build') = Made(build) /\ IndexesFollow(build')
        /\ build'.phase \in {"Materials", "Cancelling"} /\ build'.error # "reservation"
    <3>1. CASE build' = [build EXCEPT !.phase = "Cancelling", !.failing = TRUE, !.error = "resource"]
      <4>1. PICK failing \in BOOLEAN :
              build' = [phase |-> "Cancelling", texture |-> build.texture, mesh |-> build.mesh,
                        material |-> build.material, failing |-> failing, error |-> "resource"]
        BY <1>2, <3>1 DEF Build
      <4>. QED BY <1>2, <4>1, GivesUp
    <3>2. ASSUME NEW m \in build.material .. prepared.materials, m # prepared.materials,
                 build' = [build EXCEPT !.material = m]
          PROVE  /\ build' \in Build /\ Made(build') = Made(build) /\ IndexesFollow(build')
                 /\ build'.phase = "Materials" /\ build'.error # "reservation"
      <4>1. build' = [phase |-> "Materials", texture |-> build.texture, mesh |-> build.mesh,
                      material |-> m, failing |-> build.failing, error |-> build.error]
        BY <1>2, <1>3, <3>2 DEF Build
      <4>2. m \in 0 .. prepared.materials
        BY <1>2, BuildIs, Models
      <4>3. build' \in Build
        BY <1>2, <4>1, <4>2, BuildIs DEF Build, Phases
      <4>. QED BY <1>2, <1>3, <4>1, <4>3 DEF Made, IndexesFollow, ReservationHolds
    <3>. QED BY <1>2, <1>6, <3>1, <3>2 DEF MakeMaterials
  <2>2. /\ queue' \in Queue(Resources(prepared)) /\ RingSound(queue, gpu)' /\ gpu' \in Seq(Slots)
        /\ host' = "building" /\ Idle(queue')
    BY <1>1, <1>2, <1>3, <1>6
  <2>3. /\ Made(build') \subseteq alive' /\ Made(build') \subseteq uploaded \cup Referenced(queue')
        /\ ~rayQuery => Referenced(queue') \subseteq alive'
    BY <1>1, <1>2, <2>1
  <2>4. build'.phase \notin {"Ready", "Cancelled", "Failed"}
    BY <2>1
  <2>. QED BY <1>1, <1>2, <1>4, <1>5, <2>1, <2>2, <2>3, <2>4, StillPumped
<1>7. CASE host' = "published" /\ build' = [build EXCEPT !.material = prepared.materials, !.phase = "Ready"]
  <2>1. /\ prepared' = prepared /\ rayQuery' = rayQuery /\ uploaded' = uploaded /\ cancelled' = cancelled
    BY <1>1 DEF pumpFrame, inputVars
  <2>2. build' = [phase |-> "Ready", texture |-> build.texture, mesh |-> build.mesh,
                  material |-> prepared.materials, failing |-> build.failing, error |-> build.error]
    BY <1>2, <1>7 DEF Build
  <2>3. prepared.materials \in 0 .. prepared.materials
    BY <1>2, Models
  <2>4. build' \in Build /\ Build' = Build
    BY <1>2, <2>1, <2>2, <2>3, BuildIs DEF Build, Phases
  <2>5. TypeOK'
    BY <1>1, <1>2, <1>4, <1>7, <2>1, <2>4 DEF TypeOK
  <2>6. Referenced(queue) = {} /\ Resources(prepared) \subseteq Made(build)
    BY <1>2, <1>3, IdleIs, MadeIsNoScratch
  <2>7. PublishedIsUploaded'
    BY <1>1, <1>2, <2>1, <2>6 DEF PublishedIsUploaded
  <2>8. RingSound(queue, gpu)' /\ Idle(queue') /\ build'.error # "reservation"
    BY <1>1, <1>2, <1>3, <2>2 DEF ReservationHolds
  <2>9. BuildSound' /\ GoneIsIdle' /\ ReservationHolds'
    BY <1>1, <1>7, <2>8 DEF BuildSound, GoneIsIdle, ReservationHolds
  <2>10. RecordedIsAlive'
    BY <1>1, <2>6 DEF RecordedIsAlive
  <2>. QED BY <2>5, <2>7, <2>8, <2>9, <2>10 DEF Inv, UploadInvariant
<1>. QED BY <1>6, <1>7 DEF MakeMaterials

LEMMA CancelEndsKeeps ==
  ASSUME Inv, CancelEnds
  PROVE  Inv'
<1>1. /\ step = "wait" /\ step' = "none" /\ queue' = Polled(queue) /\ Idle(queue') /\ gpu' = gpu
      /\ UNCHANGED pumpFrame /\ alive' = {} /\ host' = "dropped"
      /\ build' = [build EXCEPT !.phase = IF build.failing THEN "Failed" ELSE "Cancelled"]
  BY DEF CancelEnds
<1>2. TypeOK /\ ReservationHolds /\ gpu \in Seq(Slots) /\ build \in Build
  BY <1>1, WhilePumped
<1>3. queue' \in Queue(Resources(prepared)) /\ RingSound(queue, gpu)'
  BY <1>1, Waits
<1>4. /\ prepared' = prepared /\ rayQuery' = rayQuery /\ uploaded' = uploaded /\ cancelled' = cancelled
  BY <1>1 DEF pumpFrame, inputVars
<1>5. PICK p \in Phases :
        build' = [phase |-> p, texture |-> build.texture, mesh |-> build.mesh,
                  material |-> build.material, failing |-> build.failing, error |-> build.error]
  BY <1>1, <1>2 DEF Build, Phases
<1>6. build' \in Build /\ Build' = Build
  BY <1>2, <1>4, <1>5, BuildIs DEF Build
<1>7. TypeOK'
  BY <1>1, <1>2, <1>3, <1>4, <1>6 DEF TypeOK, Steps
<1>8. build'.error # "reservation" /\ Referenced(queue') = {}
  BY <1>1, <1>2, <1>5, IdleIs DEF ReservationHolds
<1>9. BuildSound' /\ GoneIsIdle' /\ PublishedIsUploaded' /\ ReservationHolds' /\ RecordedIsAlive'
  BY <1>1, <1>8 DEF BuildSound, GoneIsIdle, PublishedIsUploaded, ReservationHolds, RecordedIsAlive
<1>. QED BY <1>3, <1>7, <1>9 DEF Inv, UploadInvariant

LEMMA BetweenKeeps ==
  ASSUME Inv, Cancel \/ Shutdown
  PROVE  Inv'
<1>1. /\ TypeOK /\ RingSound(queue, gpu) /\ BuildSound /\ GoneIsIdle /\ ReservationHolds
      /\ PublishedIsUploaded /\ RecordedIsAlive /\ build \in Build
  BY DEF Inv, UploadInvariant, TypeOK
<1>2. /\ prepared' = prepared /\ rayQuery' = rayQuery /\ uploaded' = uploaded
      /\ queue' = queue /\ gpu' = gpu /\ step' = step /\ step = "none" /\ host = "building"
      /\ cancelled' = TRUE /\ Build' = Build
  BY DEF Cancel, Shutdown, Between, inputVars, Build
<1>3. CASE Cancel
  <2>1. build' = build /\ alive' = alive /\ host' = host
    BY <1>3 DEF Cancel
  <2>2. TypeOK'
    BY <1>1, <1>2, <2>1 DEF TypeOK
  <2>3. BuildSound'
    BY <1>1, <1>2, <2>1 DEF BuildSound, IndexesFollow, PumpFollows, Advanced, StepOf
  <2>. QED BY <1>1, <1>2, <2>1, <2>2, <2>3
       DEF Inv, UploadInvariant, GoneIsIdle, ReservationHolds, PublishedIsUploaded, RecordedIsAlive
<1>4. CASE Shutdown
  <2>1. alive' = {} /\ host' = "draining" /\ build' = [build EXCEPT !.phase = "Cancelling"]
    BY <1>4 DEF Shutdown
  <2>2. build' = [phase |-> "Cancelling", texture |-> build.texture, mesh |-> build.mesh,
                  material |-> build.material, failing |-> build.failing, error |-> build.error]
    BY <1>1, <2>1 DEF Build
  <2>3. build' \in Build
    BY <1>1, <2>2, BuildIs DEF Build, Phases
  <2>4. TypeOK'
    BY <1>1, <1>2, <2>1, <2>3 DEF TypeOK
  <2>5. build'.error # "reservation"
    BY <1>1, <2>2 DEF ReservationHolds
  <2>. QED BY <1>1, <1>2, <2>1, <2>4, <2>5
       DEF Inv, UploadInvariant, BuildSound, GoneIsIdle, ReservationHolds, PublishedIsUploaded, RecordedIsAlive
<1>. QED BY <1>3, <1>4

LEMMA DrainKeeps ==
  ASSUME Inv, Drain
  PROVE  Inv'
<1>1. /\ TypeOK /\ RingSound(queue, gpu) /\ BuildSound /\ GoneIsIdle /\ ReservationHolds
      /\ queue \in Queue(Resources(prepared)) /\ gpu \in Seq(Slots) /\ build \in Build
  BY DEF Inv, UploadInvariant, TypeOK
<1>2. /\ prepared' = prepared /\ rayQuery' = rayQuery /\ uploaded' = uploaded /\ cancelled' = cancelled
      /\ build' = build /\ step' = step /\ alive' = alive /\ host = "draining" /\ Build' = Build
      /\ queue' = Submitted(Polled(queue)) /\ gpu' = gpu \o Batch(Polled(queue))
      /\ host' = IF Idle(queue') THEN "drained" ELSE "draining"
  BY DEF Drain, inputVars, Build
<1>3. queue' \in Queue(Resources(prepared)) /\ gpu' \in Seq(Slots) /\ RingSound(queue, gpu)'
  <2>1. PICK p : p = Polled(queue)
    OBVIOUS
  <2>2. p \in Queue(Resources(prepared)) /\ RingSound(p, gpu)
    BY <1>1, <2>1, PolledIs
  <2>3. PICK q, h : q = Submitted(p) /\ h = gpu \o Batch(p)
    OBVIOUS
  <2>4. q \in Queue(Resources(prepared)) /\ h \in Seq(Slots) /\ RingSound(q, h)
    BY <1>1, <2>2, <2>3, SubmittedIs
  <2>. QED BY <1>2, <2>1, <2>3, <2>4
<1>4. TypeOK'
  BY <1>1, <1>2, <1>3 DEF TypeOK
<1>5. host' # "draining" => host' = "drained" /\ Idle(queue') /\ Referenced(queue') = {}
  BY <1>2, IdleIs
<1>. QED BY <1>1, <1>2, <1>3, <1>4, <1>5
     DEF Inv, UploadInvariant, BuildSound, GoneIsIdle, ReservationHolds, PublishedIsUploaded, RecordedIsAlive

LEMMA GpuRunsKeeps ==
  ASSUME Inv, GpuRuns
  PROVE  Inv'
<1>1. /\ TypeOK /\ RingSound(queue, gpu) /\ BuildSound /\ GoneIsIdle /\ ReservationHolds
      /\ PublishedIsUploaded /\ RecordedIsAlive
      /\ queue \in Queue(Resources(prepared)) /\ gpu \in Seq(Slots) /\ build \in Build
  BY DEF Inv, UploadInvariant, TypeOK
<1>2. PICK i : i = Head(gpu)
  OBVIOUS
<1>3. /\ gpu # <<>> /\ queue' = Signalled(queue, i)
      /\ uploaded' = uploaded \cup queue.slots[i].refs /\ gpu' = Tail(gpu)
      /\ prepared' = prepared /\ rayQuery' = rayQuery /\ cancelled' = cancelled /\ Build' = Build
      /\ build' = build /\ step' = step /\ alive' = alive /\ host' = host
  BY <1>2 DEF GpuRuns, inputVars, Build
<1>4. /\ queue' \in Queue(Resources(prepared)) /\ gpu' \in Seq(Slots) /\ RingSound(queue, gpu)'
      /\ Referenced(queue') \subseteq Referenced(queue)
      /\ Referenced(queue) \subseteq Referenced(queue') \cup queue.slots[i].refs
      /\ queue.slots[i].refs \in SUBSET Resources(prepared)
      /\ ~Idle(queue)
  <2>1. PICK p : p = Signalled(queue, i)
    OBVIOUS
  <2>2. /\ p \in Queue(Resources(prepared)) /\ Tail(gpu) \in Seq(Slots) /\ RingSound(p, Tail(gpu))
        /\ Referenced(p) \subseteq Referenced(queue)
        /\ Referenced(queue) \subseteq Referenced(p) \cup queue.slots[i].refs
        /\ queue.slots[i].refs \in SUBSET Resources(prepared)
        /\ ~Idle(queue)
    BY <1>1, <1>2, <1>3, <2>1, SignalledIs
  <2>. QED BY <1>3, <2>1, <2>2
<1>5. TypeOK'
  BY <1>1, <1>3, <1>4 DEF TypeOK
<1>6. BuildSound'
  <2>1. /\ Made(build)' = Made(build) /\ IndexesFollow(build)' = IndexesFollow(build)
        /\ PumpFollows(step, build)' = PumpFollows(step, build)
    BY <1>3 DEF Made, IndexesFollow, PumpFollows, Advanced, StepOf
  <2>. QED BY <1>1, <1>3, <1>4, <2>1 DEF BuildSound
<1>7. GoneIsIdle' /\ PublishedIsUploaded' /\ ReservationHolds' /\ RecordedIsAlive'
  BY <1>1, <1>3, <1>4 DEF GoneIsIdle, PublishedIsUploaded, ReservationHolds, RecordedIsAlive
<1>. QED BY <1>4, <1>5, <1>6, <1>7 DEF Inv, UploadInvariant

LEMMA StutterKeeps ==
  ASSUME Inv, UNCHANGED vars
  PROVE  Inv'
<1>1. /\ prepared' = prepared /\ rayQuery' = rayQuery /\ uploaded' = uploaded /\ cancelled' = cancelled
      /\ build' = build /\ step' = step /\ alive' = alive /\ host' = host /\ queue' = queue /\ gpu' = gpu
  BY DEF vars, inputVars
<1>. QED BY <1>1 DEF Inv, UploadInvariant, TypeOK, Build, BuildSound, IndexesFollow, PumpFollows,
                     Advanced, StepOf, GoneIsIdle, ReservationHolds, PublishedIsUploaded, RecordedIsAlive

LEMMA InitSound ==
  ASSUME Init
  PROVE  Inv
<1>1. /\ prepared \in Prepared /\ rayQuery \in BOOLEAN /\ step = "none" /\ queue = EmptyQueue
      /\ gpu = <<>> /\ alive = {} /\ uploaded = {} /\ cancelled = FALSE /\ host = "building"
      /\ build = [phase |-> "Textures", texture |-> 0, mesh |-> 0, material |-> 0,
                  failing |-> FALSE, error |-> "none"]
  BY DEF Init
<1>2. build \in Build /\ Made(build) = {}
  <2>1. 0 \in 0 .. Len(prepared.textures) /\ 0 \in 0 .. Len(prepared.meshes) /\ 0 \in 0 .. prepared.materials
    BY <1>1, Models
  <2>2. build.texture = 0 /\ build.mesh = 0
    BY <1>1
  <2>3. Made(build) = {}
    BY <2>2, MadeIs
  <2>. QED BY <1>1, <2>1, <2>3 DEF Build, Phases
<1>3. gpu \in Seq(Slots) /\ Len(gpu) = 0 /\ DOMAIN gpu = {}
  <2>1. gpu \in Seq(Slots) /\ Len(gpu) = 0
    BY <1>1, EmptySeq
  <2>. QED BY <2>1, LenProperties
<1>4. /\ queue.slots = [i \in Slots |-> EmptySlot] /\ queue.active = None
      /\ queue = [slots |-> queue.slots, active |-> None]
  BY <1>1 DEF EmptyQueue
<1>5. EmptySlot \in Slot(Resources(prepared))
  BY DEF EmptySlot, Slot, Flights
<1>6. queue \in Queue(Resources(prepared))
  BY <1>4, <1>5 DEF Queue
<1>7. RingSound(queue, gpu)
  <2>1. ToSet(gpu) = {} /\ IsInjective(gpu)
    BY <1>3 DEF ToSet, IsInjective
  <2>2. \A i \in Slots : queue.slots[i] = EmptySlot
    BY <1>4
  <2>3. /\ EmptySlot.used = 0 /\ EmptySlot.capacity = 0 /\ EmptySlot.refs = {} /\ EmptySlot.flight = "free"
    BY DEF EmptySlot
  <2>4. ASSUME NEW i \in Slots PROVE SlotSound(queue, gpu, i)
    BY <2>1, <2>2, <2>3 DEF SlotSound, InFlight, HasCommands
  <2>. QED BY <2>1, <2>4 DEF RingSound
<1>8. TypeOK
  BY <1>1, <1>2, <1>3, <1>6 DEF TypeOK, Steps
<1>9. Referenced(queue) = {}
  <2>1. \A i \in Slots : queue.slots[i].refs = {}
    BY <1>4 DEF EmptySlot
  <2>. QED BY <2>1, ReferencedIs
<1>10. BuildSound
  <2>1. IndexesFollow(build) /\ PumpFollows(step, build)
    BY <1>1 DEF IndexesFollow, PumpFollows
  <2>. QED BY <1>1, <1>2, <2>1 DEF BuildSound
<1>11. GoneIsIdle /\ PublishedIsUploaded /\ ReservationHolds /\ RecordedIsAlive
  BY <1>1, <1>9 DEF GoneIsIdle, PublishedIsUploaded, ReservationHolds, RecordedIsAlive
<1>. QED BY <1>7, <1>8, <1>10, <1>11 DEF Inv, UploadInvariant

LEMMA StepSound ==
  ASSUME Inv, [Next]_vars
  PROVE  Inv'
<1>1. CASE Pump
  BY <1>1, BeginPumpKeeps, RecordTextureKeeps, RecordMeshKeeps, SubmitRecordedKeeps,
     KeepsWaitingKeeps, UploadEndsKeeps, CancelEndsKeeps, MakeMaterialsKeeps DEF Pump
<1>2. CASE Cancel \/ Shutdown
  BY <1>2, BetweenKeeps
<1>3. CASE Drain
  BY <1>3, DrainKeeps
<1>4. CASE GpuRuns
  BY <1>4, GpuRunsKeeps
<1>5. CASE Over \/ UNCHANGED vars
  BY <1>5, StutterKeeps DEF Over
<1>. QED BY <1>1, <1>2, <1>3, <1>4, <1>5 DEF Next

\* Whatever the sizes, a reservation covers what is staged under it, a batch is
\* in flight until its fence has signalled, and a model is published when the GPU
\* has uploaded all of it (ModelGpuBuilder::pump over IncrementalUploadQueue).
THEOREM UploadsAreWhole == Spec => []UploadInvariant
<1>1. Init => Inv
  BY InitSound
<1>2. Inv /\ [Next]_vars => Inv'
  BY StepSound
<1>3. Inv => UploadInvariant
  BY DEF Inv
<1>. QED BY <1>1, <1>2, <1>3, PTL DEF Spec

\* Without ray queries, recorded and running commands refer to textures and
\* meshes that exist, also when a constructor fails or the load is cancelled.
THEOREM CommandsReferToWhatExists == Spec => []RecordedIsAlive
<1>1. Init => Inv
  BY InitSound
<1>2. Inv /\ [Next]_vars => Inv'
  BY StepSound
<1>3. Inv => RecordedIsAlive
  BY DEF Inv
<1>. QED BY <1>1, <1>2, <1>3, PTL DEF Spec

-----------------------------------------------------------------------------
(* The frame graph: for any passes that declare themselves as               *)
(* PassAssumption says, any features and any number of frames in flight.    *)

\* A compiled graph is found by its features.
LEMMA CompiledIsFound ==
  ASSUME NEW F \in FeatureSets
  PROVE  Compiled(F) \in CompiledGraphs
<1>1. CompiledGraph(F) \in CompiledGraphs
  BY DEF CompiledGraphs
<1>2. CompiledGraph(F).key = F
  BY DEF CompiledGraph
<1>. QED BY <1>1, <1>2 DEF Compiled

\* A graph's images are those that its passes use.
LEMMA GraphImages ==
  ASSUME NEW graph \in CompiledGraphs
  PROVE  /\ graph.images \subseteq Images
         /\ \A o \in graph.owners : graph.uses[o] \subseteq graph.images
<1>1. PICK F \in FeatureSets : graph = CompiledGraph(F)
  BY DEF CompiledGraphs
<1>. DEFINE owners == ActiveOwners(Declared(F), ActiveNodes(F))
<1>2. /\ graph.owners = owners
      /\ graph.uses = [o \in owners |-> ImagesUsed(o, F)]
      /\ graph.images = UNION {ImagesUsed(o, F) : o \in owners}
  BY <1>1, Zenon DEF CompiledGraph
<1>3. \A o : ImagesUsed(o, F) \subseteq Images
  BY DEF ImagesUsed, Images, ActiveNodes, ActiveUses
<1>. HIDE DEF owners
<1>4. graph.images \subseteq Images
  BY <1>2, <1>3
<1>5. \A o \in graph.owners : graph.uses[o] \subseteq graph.images
  BY <1>2
<1>. QED BY <1>4, <1>5

LEMMA OwnedAreImages ==
  \A o \in Owners : OwnerImages[o] \subseteq Images
BY DEF OwnerImages, Images

\* What a frame's graph uses, by PassAssumption.
LEMMA UsesOfAPass ==
  ASSUME NEW F \in FeatureSets
  PROVE  /\ Compiled(F).images \subseteq Images
         /\ \A o \in Owners \cap Compiled(F).owners :
              Compiled(F).uses[o] = OwnerImages[o] /\ OwnerImages[o] \subseteq Compiled(F).images
         /\ \A o, w : OwnImage(o, w) => w \in OwnerImages[o] /\ w \in Callbacks[o]
         /\ \A o, w : OwnImage(o, w) /\ w \in Compiled(F).images \cup Persistent
                        => o \in Compiled(F).owners
<1>. DEFINE graph == Compiled(F)
<1>1. graph \in CompiledGraphs
  BY CompiledIsFound
<1>. HIDE DEF graph
<1>2. graph.images \subseteq Images /\ \A o \in graph.owners : graph.uses[o] \subseteq graph.images
  BY <1>1, GraphImages
<1>3. \A o \in Owners \cap graph.owners : graph.uses[o] = OwnerImages[o]
  BY <1>1, PassAssumption
<1>4. \A o, w : OwnImage(o, w) => /\ w \in OwnerImages[o] /\ w \in Callbacks[o]
                                  /\ w \in graph.images \cup Persistent => o \in graph.owners
  BY <1>1 DEF OwnImage
<1>. QED BY <1>2, <1>3, <1>4 DEF graph

LEMMA GraphInitEstablishes ==
  GraphInit => SetsInvariant
<1>. SUFFICES ASSUME GraphInit PROVE SetsInvariant
  OBVIOUS
<1>. USE SubmissionBound, GraphBounds DEF GraphInit, ClockInit, Serials
<1>1. {} \in FeatureSets /\ refresh \in BOOLEAN /\ resetPending \in BOOLEAN
  BY DEF FeatureSets
<1>2. bound \in [Owners -> SUBSET Images]
  BY OwnedAreImages
<1>3. PoolTypeOK
  BY <1>1, <1>2 DEF PoolTypeOK, ClockTypeOK
<1>4. ClockOrder /\ UsedIsBound /\ FreedIsIdle /\ RefreshIsQuiet /\ SetsFollowOwnImage
  BY DEF ClockOrder, UsedIsBound, FreedIsIdle, RefreshIsQuiet, SetsFollowOwnImage
<1>5. RetiredAfterUse
  BY DEF RetiredAfterUse
<1>6. RunUsesImages
  BY OwnedAreImages DEF RunUsesImages
<1>. QED BY <1>3, <1>4, <1>5, <1>6 DEF SetsInvariant

\* What synchronizeResidency does to residency and serials.
LEMMA ResidencyFollows ==
  ASSUME SetsInvariant, NEW wanted \in SUBSET Images, SynchronizeResidency(wanted)
  PROVE  /\ residency' \in [Images -> {"Unallocated", "Resident", "Retiring"}]
         /\ retireAfter' \in [Images -> Serials]
         /\ \A i \in Images :
              /\ DueAfter(i) \in Serials
              /\ residency[i] # "Unallocated" => lastUse[i] <= DueAfter(i) /\ DueAfter(i) <= submitted
              /\ i \in wanted => residency'[i] = "Resident"
              /\ i \in DestroyedFor(wanted) =>
                   /\ i \notin wanted
                   /\ residency'[i] = "Unallocated"
                   /\ lastUse[i] <= completed
              /\ i \notin wanted /\ i \notin DestroyedFor(wanted) =>
                   /\ residency'[i] # "Resident"
                   /\ residency'[i] = "Unallocated" <=> residency[i] = "Unallocated"
                   /\ residency[i] # "Unallocated" =>
                        completed < DueAfter(i) /\ retireAfter'[i] = DueAfter(i)
<1>. USE SubmissionBound DEF Serials, ClockTypeOK, ClockOrder
<1>1. PoolTypeOK /\ ClockOrder /\ RetiredAfterUse
  BY DEF SetsInvariant
<1>2. \A i \in Images :
        /\ DueAfter(i) \in Serials
        /\ residency[i] # "Unallocated" => lastUse[i] <= DueAfter(i) /\ DueAfter(i) <= submitted
  BY <1>1 DEF PoolTypeOK, RetiredAfterUse, DueAfter
<1>3. residency' \in [Images -> {"Unallocated", "Resident", "Retiring"}]
  BY <1>1 DEF PoolTypeOK, SynchronizeResidency
<1>4. retireAfter' \in [Images -> Serials]
  BY <1>1, <1>2 DEF PoolTypeOK, SynchronizeResidency
<1>5. ASSUME NEW i \in Images, i \in wanted
      PROVE  residency'[i] = "Resident"
  BY <1>5 DEF SynchronizeResidency
<1>6. ASSUME NEW i \in Images, i \in DestroyedFor(wanted)
      PROVE  i \notin wanted /\ residency'[i] = "Unallocated" /\ lastUse[i] <= completed
  <2>1. i \notin wanted /\ residency[i] # "Unallocated" /\ DueAfter(i) <= completed
    BY <1>6 DEF DestroyedFor
  <2>2. lastUse[i] <= DueAfter(i) /\ lastUse[i] \in Nat /\ DueAfter(i) \in Nat /\ completed \in Nat
    BY <1>1, <1>2, <2>1 DEF PoolTypeOK
  <2>. QED BY <1>6, <2>1, <2>2 DEF SynchronizeResidency
<1>7. ASSUME NEW i \in Images, i \notin wanted, i \notin DestroyedFor(wanted)
      PROVE  /\ residency'[i] # "Resident"
             /\ residency'[i] = "Unallocated" <=> residency[i] = "Unallocated"
             /\ residency[i] # "Unallocated" =>
                  completed < DueAfter(i) /\ retireAfter'[i] = DueAfter(i)
  <2>1. residency'[i] = IF residency[i] = "Resident" THEN "Retiring" ELSE residency[i]
    BY <1>7 DEF SynchronizeResidency
  <2>2. residency[i] # "Unallocated" => ~(DueAfter(i) <= completed)
    BY <1>7 DEF DestroyedFor
  <2>3. residency'[i] # "Unallocated" => retireAfter'[i] = DueAfter(i)
    BY <1>7 DEF SynchronizeResidency
  <2>. QED BY <2>1, <2>2, <2>3, <1>1, <1>2 DEF PoolTypeOK
<1>. QED BY <1>2, <1>3, <1>4, <1>5, <1>6, <1>7

\* What a frame does to the pool, in terms of its graph.
LEMMA PrepareSteps ==
  ASSUME SetsInvariant, NEW F \in SUBSET Features, PrepareResources(F)
  PROVE  \E wanted \in SUBSET Images : \E renewing \in SUBSET Owners :
           /\ SynchronizeResidency(wanted)
           /\ features' \in FeatureSets
           /\ wanted = Compiled(features').images \cup Persistent
           /\ \A o \in Owners \cap Compiled(features').owners :
                /\ OwnerImages[o] \subseteq wanted
                /\ Compiled(features').uses[o] = OwnerImages[o]
           /\ \A o \in Owners \ Compiled(features').owners : o \notin renewing
           /\ refresh => Owners \cap Compiled(features').owners \subseteq renewing
           /\ \A o \in Owners \cap Compiled(features').owners : \A w \in OwnerImages[o] \cap Callbacks[o] :
                residency[w] = "Unallocated" => o \in renewing
           /\ ~refresh => \A o \in renewing : \E i \in OwnerImages[o] : residency[i] = "Unallocated"
           /\ freed' = IF refresh THEN {} ELSE renewing
           /\ \A o \in Owners :
                bound'[o] = IF o \in renewing
                              THEN {i \in OwnerImages[o] : residency'[i] # "Unallocated"}
                              ELSE bound[o] \ DestroyedFor(wanted)
           /\ bound' \in [Owners -> SUBSET Images]
           /\ resetPending' \in BOOLEAN
<1>. DEFINE G == FrameFeatures(F)
            graph == Compiled(G)
            wanted == graph.images \cup Persistent
            created == CreatedFor(wanted)
            renewing == Renewing(G, created)
<1>1. G \in FeatureSets /\ features' = G
  BY DEF PrepareResources, FrameFeatures, FeatureSets
<1>2. /\ wanted \in SUBSET Images
      /\ \A o \in Owners \cap graph.owners : OwnerImages[o] \subseteq wanted /\ graph.uses[o] = OwnerImages[o]
  BY <1>1, UsesOfAPass, PassAssumption
<1>3. /\ SynchronizeResidency(wanted)
      /\ freed' = IF refresh THEN {} ELSE renewing
      /\ bound' = [o \in Owners |->
                     IF o \in renewing
                       THEN {i \in OwnerImages[o] : residency'[i] # "Unallocated"}
                       ELSE bound[o] \ DestroyedFor(wanted)]
  BY Zenon DEF PrepareResources
<1>4. resetPending' \in BOOLEAN
  <2>1. resetPending \in BOOLEAN
    BY DEF SetsInvariant, PoolTypeOK
  <2>2. PendingReset \in BOOLEAN
    BY DEF PendingReset
  <2>3. resetPending' = IF "ddgi" \in F THEN PendingReset ELSE resetPending
    BY DEF PrepareResources
  <2>. QED BY <2>1, <2>2, <2>3
<1>5. renewing = IF refresh THEN Owners \cap graph.owners
                 ELSE {o \in Owners \cap Notified(G, created) : Callbacks[o] \cap created # {}}
  BY DEF Renewing
<1>6. Notified(G, created) = {o \in graph.owners : graph.uses[o] \cap created # {}}
  BY DEF Notified
<1>7. created = {i \in wanted : residency[i] = "Unallocated"}
  BY DEF CreatedFor
<1>. HIDE DEF graph, wanted, created, renewing
<1>8. \A o \in Owners \ graph.owners : o \notin renewing
  BY <1>5, <1>6
<1>9. renewing \in SUBSET Owners /\ (refresh => Owners \cap graph.owners \subseteq renewing)
  BY <1>5
<1>10. ASSUME NEW o \in Owners \cap graph.owners, NEW w \in OwnerImages[o] \cap Callbacks[o],
              residency[w] = "Unallocated"
       PROVE  o \in renewing
  <2>1. w \in created
    BY <1>2, <1>7, <1>10
  <2>2. w \in graph.uses[o]
    BY <1>2
  <2>. QED BY <2>1, <2>2, <1>5, <1>6
<1>11. ASSUME ~refresh, NEW o \in renewing
       PROVE  \E i \in OwnerImages[o] : residency[i] = "Unallocated"
  <2>1. o \in Owners \cap graph.owners /\ graph.uses[o] \cap created # {}
    BY <1>5, <1>6, <1>11
  <2>. QED BY <2>1, <1>2, <1>7
<1>12. bound' \in [Owners -> SUBSET Images]
  <2>1. \A o \in Owners : bound[o] \in SUBSET Images
    BY DEF SetsInvariant, PoolTypeOK
  <2>. QED BY <1>3, <2>1, OwnedAreImages
<1>13. graph = Compiled(features')
  BY <1>1 DEF graph
<1>14. wanted = graph.images \cup Persistent
  BY DEF wanted
<1>15. \A o \in Owners :
                bound'[o] = IF o \in renewing
                              THEN {i \in OwnerImages[o] : residency'[i] # "Unallocated"}
                              ELSE bound[o] \ DestroyedFor(wanted)
  BY <1>3
<1>. QED BY <1>1, <1>2, <1>3, <1>4, <1>8, <1>9, <1>10, <1>11, <1>12, <1>13, <1>14, <1>15

\* A pass that may run has the sets for it, and keeps them as long as its own
\* image: the image is made anew with the sets or the sets survived with it.
LEMMA PrepareKeepsSets ==
  ASSUME SetsInvariant, NEW F \in SUBSET Features, PrepareResources(F)
  PROVE  UsedIsBound' /\ SetsFollowOwnImage'
<1>1. PICK wanted \in SUBSET Images, renewing \in SUBSET Owners :
        /\ SynchronizeResidency(wanted)
        /\ features' \in FeatureSets
        /\ wanted = Compiled(features').images \cup Persistent
        /\ \A o \in Owners \cap Compiled(features').owners :
             /\ OwnerImages[o] \subseteq wanted
             /\ Compiled(features').uses[o] = OwnerImages[o]
        /\ \A o \in Owners \ Compiled(features').owners : o \notin renewing
        /\ refresh => Owners \cap Compiled(features').owners \subseteq renewing
        /\ \A o \in Owners \cap Compiled(features').owners : \A w \in OwnerImages[o] \cap Callbacks[o] :
             residency[w] = "Unallocated" => o \in renewing
        /\ \A o \in Owners :
             bound'[o] = IF o \in renewing
                           THEN {i \in OwnerImages[o] : residency'[i] # "Unallocated"}
                           ELSE bound[o] \ DestroyedFor(wanted)
  BY PrepareSteps
<1>2. /\ residency' \in [Images -> {"Unallocated", "Resident", "Retiring"}]
      /\ \A i \in Images :
           /\ DueAfter(i) \in Serials
           /\ residency[i] # "Unallocated" => lastUse[i] <= DueAfter(i) /\ DueAfter(i) <= submitted
           /\ i \in wanted => residency'[i] = "Resident"
           /\ i \in DestroyedFor(wanted) => i \notin wanted /\ residency'[i] = "Unallocated"
           /\ i \notin wanted /\ i \notin DestroyedFor(wanted) =>
                /\ residency'[i] # "Resident"
                /\ residency'[i] = "Unallocated" <=> residency[i] = "Unallocated"
                /\ residency[i] # "Unallocated" =>
                     completed < DueAfter(i) /\ retireAfter'[i] = DueAfter(i)
  BY <1>1, ResidencyFollows
<1>. DEFINE owners == Compiled(features').owners
<1>3. \A o, w : OwnImage(o, w) => w \in OwnerImages[o] /\ w \in Callbacks[o] /\ (w \in wanted => o \in owners)
  BY <1>1, UsesOfAPass
<1>4. /\ PoolTypeOK /\ RefreshIsQuiet /\ SetsFollowOwnImage /\ ClockOrder
      /\ completed \in Nat /\ submitted \in Nat
  BY SubmissionBound DEF SetsInvariant, PoolTypeOK, ClockTypeOK, Serials
<1>5. \A o \in Owners : OwnerImages[o] \subseteq Images
  BY OwnedAreImages
<1>. HIDE DEF owners
\* The sets of a pass that runs.
<1>6. ASSUME NEW o \in Owners \cap owners, NEW w \in Images, OwnImage(o, w)
      PROVE  \A i \in OwnerImages[o] : i \in bound'[o] /\ residency'[i] = "Resident"
  <2>1. \A i \in OwnerImages[o] : i \in wanted /\ residency'[i] = "Resident"
    BY <1>1, <1>2, <1>5 DEF owners
  <2>2. CASE o \in renewing
    BY <2>1, <2>2, <1>1
  <2>3. CASE o \notin renewing
    <3>1. ~refresh /\ residency[w] # "Unallocated"
      BY <2>3, <1>1, <1>3, <1>6 DEF owners
    <3>2. \A i \in OwnerImages[o] : i \in bound[o]
      BY <3>1, <1>4, <1>6 DEF SetsFollowOwnImage
    <3>3. bound'[o] = bound[o] \ DestroyedFor(wanted)
      BY <2>3, <1>1
    <3>. QED BY <2>1, <3>2, <3>3 DEF DestroyedFor
  <2>. QED BY <2>2, <2>3
<1>7. UsedIsBound'
  <2>1. \A i \in Compiled(features').images : residency'[i] = "Resident"
    BY <1>1, <1>2
  <2>2. ASSUME NEW o \in Owners \cap owners, HasImage(o)
        PROVE  Compiled(features').uses[o] \subseteq bound'[o]
    <3>1. PICK w \in Images : OwnImage(o, w)
      BY <2>2, PassAssumption
    <3>. QED BY <3>1, <1>6, <1>1 DEF owners
  <2>. QED BY <2>1, <2>2 DEF UsedIsBound, owners
\* The sets of any pass, by its own image.
<1>8. ASSUME NEW o \in Owners, NEW w \in Images, OwnImage(o, w), residency'[w] # "Unallocated",
             NEW i \in OwnerImages[o]
      PROVE  /\ i \in bound'[o] /\ residency'[i] # "Unallocated"
             /\ residency'[i] = "Retiring" =>
                  residency'[w] = "Retiring" /\ retireAfter'[w] <= retireAfter'[i]
  <2>1. CASE o \in owners
    BY <2>1, <1>6, <1>8
  <2>2. CASE o \notin owners
    <3>1. w \notin wanted /\ o \notin renewing /\ w \notin DestroyedFor(wanted)
      BY <2>2, <1>1, <1>2, <1>3, <1>8 DEF owners
    <3>2. /\ residency[w] # "Unallocated" /\ completed < DueAfter(w)
          /\ residency'[w] = "Retiring" /\ retireAfter'[w] = DueAfter(w) /\ DueAfter(w) <= submitted
          /\ DueAfter(w) \in Nat
      BY <3>1, <1>2, <1>8 DEF Serials
    <3>3. ~refresh
      BY <3>2, <1>4 DEF RefreshIsQuiet
    <3>4. /\ i \in bound[o] /\ residency[i] # "Unallocated"
          /\ residency[i] = "Retiring" => residency[w] = "Retiring" /\ retireAfter[w] <= retireAfter[i]
      BY <3>2, <3>3, <1>4, <1>8 DEF SetsFollowOwnImage
    <3>5. i \in Images /\ DueAfter(i) \in Nat
      BY <1>2, <1>5 DEF Serials
    <3>6. DueAfter(w) <= DueAfter(i)
      <4>1. residency[i] \in {"Resident", "Retiring"}
        BY <3>4, <3>5, <1>4 DEF PoolTypeOK
      <4>2. CASE residency[i] = "Resident"
        BY <3>2, <4>2 DEF DueAfter
      <4>3. CASE residency[i] = "Retiring"
        BY <3>4, <4>3 DEF DueAfter
      <4>. QED BY <4>1, <4>2, <4>3
    <3>7. i \notin DestroyedFor(wanted)
      BY <3>2, <3>5, <3>6, <1>4 DEF DestroyedFor
    <3>8. i \in bound'[o]
      BY <3>1, <3>4, <3>7, <1>1
    <3>9. residency'[i] # "Unallocated"
      BY <3>4, <3>5, <3>7, <1>2
    <3>10. residency'[i] = "Retiring" => retireAfter'[i] = DueAfter(i)
      BY <3>4, <3>5, <3>7, <1>2
    <3>. QED BY <3>2, <3>6, <3>8, <3>9, <3>10
  <2>. QED BY <2>1, <2>2
<1>9. SetsFollowOwnImage'
  BY <1>8 DEF SetsFollowOwnImage
<1>. QED BY <1>7, <1>9

\* Sets are freed only when no frame in flight has run their pass.
LEMMA PrepareKeepsSerials ==
  ASSUME SetsInvariant, NEW F \in SUBSET Features, PrepareResources(F)
  PROVE  /\ PoolTypeOK' /\ ClockOrder' /\ RetiredAfterUse' /\ RunUsesImages' /\ RefreshIsQuiet'
         /\ FreedIsIdle'
<1>1. PICK wanted \in SUBSET Images, renewing \in SUBSET Owners :
        /\ SynchronizeResidency(wanted)
        /\ features' \in FeatureSets
        /\ \A o \in Owners \cap Compiled(features').owners : OwnerImages[o] \subseteq wanted
        /\ ~refresh => \A o \in renewing : \E i \in OwnerImages[o] : residency[i] = "Unallocated"
        /\ freed' = IF refresh THEN {} ELSE renewing
        /\ bound' \in [Owners -> SUBSET Images]
        /\ resetPending' \in BOOLEAN
  BY PrepareSteps
<1>2. /\ residency' \in [Images -> {"Unallocated", "Resident", "Retiring"}]
      /\ retireAfter' \in [Images -> Serials]
      /\ \A i \in Images :
           /\ DueAfter(i) \in Serials
           /\ residency[i] # "Unallocated" => lastUse[i] <= DueAfter(i) /\ DueAfter(i) <= submitted
           /\ i \in wanted => residency'[i] = "Resident"
           /\ i \in DestroyedFor(wanted) => residency'[i] = "Unallocated" /\ lastUse[i] <= completed
           /\ i \notin wanted /\ i \notin DestroyedFor(wanted) =>
                /\ residency'[i] = "Unallocated" <=> residency[i] = "Unallocated"
                /\ residency[i] # "Unallocated" => retireAfter'[i] = DueAfter(i)
  BY <1>1, ResidencyFollows
<1>3. /\ PoolTypeOK /\ ClockOrder /\ RetiredAfterUse /\ RunUsesImages /\ RefreshIsQuiet
  BY DEF SetsInvariant
<1>4. /\ UNCHANGED <<submitted, finished, completed, lastUse, lastRun, resizes>>
      /\ phase' = "prepared" /\ refresh' = FALSE
  BY DEF PrepareResources, clockVars
<1>5. PoolTypeOK'
  <2>1. freed' \subseteq Owners /\ refresh' \in BOOLEAN /\ phase' \in {"idle", "prepared"}
    BY <1>1, <1>4
  <2>. QED BY <1>1, <1>2, <1>3, <1>4, <2>1 DEF PoolTypeOK, ClockTypeOK
<1>6. ClockOrder' /\ RunUsesImages' /\ RefreshIsQuiet'
  BY <1>3, <1>4 DEF ClockOrder, RunUsesImages, RefreshIsQuiet
<1>7. RetiredAfterUse'
  <2>. SUFFICES ASSUME NEW i \in Images
                PROVE  /\ lastUse[i] <= submitted
                       /\ residency'[i] = "Retiring" => lastUse[i] <= retireAfter'[i] /\ retireAfter'[i] <= submitted
                       /\ residency'[i] = "Unallocated" => lastUse[i] <= completed
    BY <1>4 DEF RetiredAfterUse
  <2>1. lastUse[i] <= submitted /\ (residency[i] = "Unallocated" => lastUse[i] <= completed)
    BY <1>3 DEF RetiredAfterUse
  <2>. QED BY <2>1, <1>2
<1>8. FreedIsIdle'
  <2>. SUFFICES ASSUME ~refresh, NEW o \in renewing PROVE lastRun[o] <= completed
    BY <1>1, <1>4 DEF FreedIsIdle
  <2>1. PICK i \in OwnerImages[o] : residency[i] = "Unallocated"
    BY <1>1
  <2>2. i \in Images
    BY OwnedAreImages
  <2>3. lastRun[o] <= lastUse[i] /\ lastUse[i] <= completed
    BY <2>1, <2>2, <1>3 DEF RunUsesImages, RetiredAfterUse
  <2>4. lastRun[o] \in Nat /\ lastUse[i] \in Nat /\ completed \in Nat
    BY <2>2, <1>3, SubmissionBound DEF PoolTypeOK, ClockTypeOK, Serials
  <2>. QED BY <2>3, <2>4
<1>. QED BY <1>5, <1>6, <1>7, <1>8

LEMMA ExecuteKeeps ==
  ASSUME SetsInvariant, Execute
  PROVE  SetsInvariant'
<1>. DEFINE graph == Compiled(features)
<1>1. /\ PoolTypeOK /\ ClockOrder /\ UsedIsBound /\ RetiredAfterUse /\ RunUsesImages /\ RefreshIsQuiet
      /\ SetsFollowOwnImage
  BY DEF SetsInvariant
<1>2. /\ phase = "prepared" /\ phase' = "idle" /\ freed' = {}
      /\ submitted < MaxSubmissions /\ submitted' = submitted + 1
      /\ lastUse' = [i \in Images |-> IF i \in graph.images THEN submitted' ELSE lastUse[i]]
      /\ lastRun' = [o \in Owners |-> IF o \in graph.owners THEN submitted' ELSE lastRun[o]]
      /\ resetPending' = (resetPending /\ "reset" \notin features)
      /\ UNCHANGED <<finished, completed, features, residency, retireAfter, refresh, bound, resizes>>
  BY DEF Execute, Submit
<1>3. /\ graph.images \subseteq Images
      /\ \A o \in Owners \cap graph.owners : OwnerImages[o] \subseteq graph.images
  BY <1>1, UsesOfAPass DEF PoolTypeOK
<1>4. \A i \in graph.images : residency[i] = "Resident"
  BY <1>1, <1>2 DEF UsedIsBound
<1>. HIDE DEF graph
<1>5. submitted \in Nat /\ MaxSubmissions \in Nat /\ completed \in Nat /\ finished \in Nat
  BY <1>1, SubmissionBound DEF PoolTypeOK, ClockTypeOK, Serials
<1>6. /\ submitted' \in Serials
      /\ \A i \in Images : lastUse[i] \in Serials /\ lastUse'[i] \in Serials /\ lastUse[i] <= lastUse'[i]
      /\ \A i \in Images : lastUse'[i] <= submitted'
  BY <1>1, <1>2, <1>5 DEF PoolTypeOK, Serials, RetiredAfterUse
<1>7. PoolTypeOK'
  <2>1. resetPending' \in BOOLEAN
    BY <1>2
  <2>2. lastUse' \in [Images -> Serials]
    BY <1>2, <1>6
  <2>3. lastRun' \in [Owners -> Serials]
    BY <1>1, <1>2, <1>6 DEF PoolTypeOK
  <2>. QED BY <1>1, <1>2, <1>6, <2>1, <2>2, <2>3 DEF PoolTypeOK, ClockTypeOK
<1>8. ClockOrder' /\ UsedIsBound' /\ FreedIsIdle' /\ RefreshIsQuiet' /\ SetsFollowOwnImage'
  BY <1>1, <1>2, <1>5
     DEF ClockOrder, UsedIsBound, FreedIsIdle, RefreshIsQuiet, SetsFollowOwnImage
<1>9. RetiredAfterUse'
  <2>. SUFFICES ASSUME NEW i \in Images
                PROVE  /\ residency[i] = "Retiring" => lastUse'[i] <= retireAfter[i] /\ retireAfter[i] <= submitted'
                       /\ residency[i] = "Unallocated" => lastUse'[i] <= completed
    BY <1>2, <1>6 DEF RetiredAfterUse
  <2>1. retireAfter[i] \in Nat
    BY <1>1 DEF PoolTypeOK, Serials
  <2>2. residency[i] # "Resident" => lastUse'[i] = lastUse[i]
    BY <1>2, <1>4
  <2>. QED BY <2>1, <2>2, <1>1, <1>2, <1>5 DEF RetiredAfterUse
<1>10. RunUsesImages'
  <2>. SUFFICES ASSUME NEW o \in Owners, NEW i \in OwnerImages[o] PROVE lastRun'[o] <= lastUse'[i]
    BY DEF RunUsesImages
  <2>1. i \in Images
    BY OwnedAreImages
  <2>2. CASE o \in graph.owners
    BY <2>1, <2>2, <1>2, <1>3, <1>5
  <2>3. CASE o \notin graph.owners
    <3>1. lastRun'[o] = lastRun[o] /\ lastRun[o] <= lastUse[i] /\ lastRun[o] \in Nat
      BY <2>3, <1>1, <1>2 DEF RunUsesImages, PoolTypeOK, Serials
    <3>. QED BY <2>1, <3>1, <1>6 DEF Serials
  <2>. QED BY <2>2, <2>3
<1>. QED BY <1>7, <1>8, <1>9, <1>10 DEF SetsInvariant

LEMMA ResizeKeeps ==
  ASSUME SetsInvariant, Resize
  PROVE  SetsInvariant'
<1>1. PoolTypeOK /\ ClockOrder /\ FreedIsIdle /\ RetiredAfterUse /\ RunUsesImages
  BY DEF SetsInvariant
<1>2. /\ phase = "idle" /\ resizes < MaxResizes /\ finished = submitted /\ completed' = submitted
      /\ bound' = [o \in Owners |-> {}]
      /\ residency' = [i \in Images |->
                     IF i \in Viewport /\ residency[i] = "Retiring" THEN "Unallocated"
                     ELSE residency[i]]
      /\ retireAfter' = [i \in Images |->
                       IF residency'[i] = "Unallocated" THEN 0 ELSE retireAfter[i]]
      /\ refresh' = TRUE /\ resizes' = resizes + 1
      /\ UNCHANGED <<submitted, finished, phase, features, freed, resetPending, lastUse, lastRun>>
  BY DEF Resize
<1>3. submitted \in Nat /\ MaxSubmissions \in Nat /\ MaxResizes \in Nat /\ completed \in Nat
  BY <1>1, SubmissionBound, GraphBounds DEF PoolTypeOK, ClockTypeOK, Serials
<1>4. PoolTypeOK'
  <2>1. residency' \in [Images -> {"Unallocated", "Resident", "Retiring"}]
    BY <1>1, <1>2 DEF PoolTypeOK
  <2>2. retireAfter' \in [Images -> Serials]
    BY <1>1, <1>2, <1>3 DEF PoolTypeOK, Serials
  <2>3. bound' \in [Owners -> SUBSET Images] /\ refresh' \in BOOLEAN
    BY <1>2
  <2>4. resizes' \in 0 .. MaxResizes
    BY <1>1, <1>2, <1>3 DEF PoolTypeOK
  <2>. QED BY <1>1, <1>2, <2>1, <2>2, <2>3, <2>4 DEF PoolTypeOK, ClockTypeOK
<1>5. ClockOrder' /\ UsedIsBound' /\ RefreshIsQuiet' /\ SetsFollowOwnImage' /\ RunUsesImages'
  BY <1>1, <1>2, <1>3
     DEF ClockOrder, UsedIsBound, RefreshIsQuiet, SetsFollowOwnImage, RunUsesImages
<1>6. FreedIsIdle'
  <2>1. \A o \in freed : lastRun[o] \in Nat
    BY <1>1 DEF PoolTypeOK, Serials
  <2>2. completed <= submitted
    BY <1>1, <1>2 DEF ClockOrder
  <2>. QED BY <2>1, <2>2, <1>1, <1>2, <1>3 DEF FreedIsIdle
<1>7. RetiredAfterUse'
  BY <1>1, <1>2 DEF RetiredAfterUse, PoolTypeOK
<1>. QED BY <1>4, <1>5, <1>6, <1>7 DEF SetsInvariant

\* The other steps: the queue finishes a frame, beginFrame observes it.
LEMMA ClockKeeps ==
  ASSUME SetsInvariant, \/ GpuFinish \/ BeginFrame \/ UNCHANGED graphVars
  PROVE  SetsInvariant'
<1>1. /\ PoolTypeOK /\ ClockOrder /\ UsedIsBound /\ FreedIsIdle /\ RetiredAfterUse /\ RunUsesImages
      /\ RefreshIsQuiet /\ SetsFollowOwnImage
  BY DEF SetsInvariant
<1>2. /\ UNCHANGED <<submitted, phase, features, residency, retireAfter, refresh, bound, freed,
                     resetPending, lastUse, lastRun, resizes>>
      /\ \/ finished < submitted /\ finished' = finished + 1 /\ completed' = completed
         \/ phase = "idle" /\ completed' \in completed + 1 .. finished /\ finished' = finished
         \/ finished' = finished /\ completed' = completed
  BY DEF GpuFinish, BeginFrame, Finish, Observe, graphVars, clockVars, poolVars, gpuVars
<1>3. submitted \in Nat /\ MaxSubmissions \in Nat /\ completed \in Nat /\ finished \in Nat
  BY <1>1, SubmissionBound DEF PoolTypeOK, ClockTypeOK, Serials
<1>4. /\ completed' \in Nat /\ finished' \in Nat
      /\ completed <= completed' /\ completed' <= finished' /\ finished' <= submitted
      /\ completed = submitted => completed' = submitted
  BY <1>1, <1>2, <1>3 DEF ClockOrder
<1>5. PoolTypeOK'
  <2>1. submitted <= MaxSubmissions
    BY <1>1 DEF PoolTypeOK, ClockTypeOK, Serials
  <2>2. completed' \in Serials /\ finished' \in Serials
    BY <2>1, <1>3, <1>4 DEF Serials
  <2>. QED BY <2>2, <1>1, <1>2 DEF PoolTypeOK, ClockTypeOK
<1>6. ClockOrder' /\ UsedIsBound' /\ RunUsesImages' /\ RefreshIsQuiet' /\ SetsFollowOwnImage'
  BY <1>1, <1>2, <1>4
     DEF ClockOrder, UsedIsBound, RefreshIsQuiet, SetsFollowOwnImage, RunUsesImages
<1>7. FreedIsIdle' /\ RetiredAfterUse'
  <2>1. /\ \A o \in freed : lastRun[o] \in Nat
        /\ \A i \in Images : lastUse[i] \in Nat
    BY <1>1 DEF PoolTypeOK, Serials
  <2>. QED BY <2>1, <1>1, <1>2, <1>3, <1>4 DEF FreedIsIdle, RetiredAfterUse
<1>. QED BY <1>5, <1>6, <1>7 DEF SetsInvariant

LEMMA GraphNextKeeps ==
  ASSUME SetsInvariant, [GraphNext]_graphVars
  PROVE  SetsInvariant'
<1>1. ASSUME NEW F \in SUBSET Features, PrepareResources(F) PROVE SetsInvariant'
  BY <1>1, PrepareKeepsSets, PrepareKeepsSerials DEF SetsInvariant
<1>. QED BY <1>1, ExecuteKeeps, ResizeKeeps, ClockKeeps DEF GraphNext

\* Passes run with the sets they need, and no set is freed under a frame in
\* flight, for any passes that satisfy PassAssumption, whatever is switched and
\* however often the viewport is resized.
THEOREM GraphSetsHold == GraphSpec => []SetsInvariant
BY GraphInitEstablishes, GraphNextKeeps, PTL DEF GraphSpec

\* A frame destroys an image only when its last use is known to have finished,
\* a resize only when every frame has.
LEMMA DestroysAfterUse ==
  ASSUME SetsInvariant, [GraphNext]_graphVars
  PROVE  \A i \in Images :
           residency[i] # "Unallocated" /\ residency'[i] = "Unallocated" => lastUse[i] <= finished
<1>. SUFFICES ASSUME NEW i \in Images, residency[i] # "Unallocated", residency'[i] = "Unallocated"
              PROVE  lastUse[i] <= finished
  OBVIOUS
<1>1. /\ lastUse[i] \in Nat /\ completed \in Nat /\ finished \in Nat /\ submitted \in Nat
      /\ completed <= finished /\ lastUse[i] <= submitted
  BY SubmissionBound DEF SetsInvariant, PoolTypeOK, ClockTypeOK, Serials, ClockOrder, RetiredAfterUse
<1>2. ASSUME NEW F \in SUBSET Features, PrepareResources(F)
      PROVE  lastUse[i] <= finished
  <2>1. PICK wanted \in SUBSET Images : SynchronizeResidency(wanted)
    BY <1>2, PrepareSteps
  <2>2. lastUse[i] <= completed
    BY <2>1, ResidencyFollows
  <2>. QED BY <2>2, <1>1
<1>3. CASE Resize
  BY <1>1, <1>3 DEF Resize
<1>4. CASE Execute \/ GpuFinish \/ BeginFrame \/ UNCHANGED graphVars
  BY <1>4 DEF Execute, GpuFinish, BeginFrame, graphVars, poolVars
<1>. QED BY <1>2, <1>3, <1>4 DEF GraphNext

\* An image goes only after the last frame that used it.
THEOREM ImagesOutliveTheirUse == GraphSpec => DestroyedAfterUse
<1>1. SetsInvariant /\ [GraphNext]_graphVars =>
        [\A i \in Images :
           residency[i] # "Unallocated" /\ residency'[i] = "Unallocated"
             => lastUse[i] <= finished]_graphVars
  BY DestroysAfterUse
<1>. QED BY <1>1, GraphSetsHold, PTL DEF GraphSpec, DestroyedAfterUse

=============================================================================
