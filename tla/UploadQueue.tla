---------------------------- MODULE UploadQueue ----------------------------
(***************************************************************************)
(* The ring of upload slots: core/IncrementalUploadQueue.cpp.              *)
(*                                                                         *)
(* A slot is a staging buffer, a command buffer and a fence.  A caller     *)
(* acquires one for a number of bytes, stages them, records commands that  *)
(* refer to its own resources, and the batch is submitted when the slot is *)
(* full or the caller asks for it.  A queue is a value, u; the fences are  *)
(* signalled by the GPU, which is not this thread's.                       *)
(***************************************************************************)
EXTENDS Integers, FiniteSets, FiniteSetsExt, Sequences, SequencesExt

CONSTANTS
  SlotCount,      \* slotCount
  SlotCapacity,   \* defaultCapacity_, in bytes of the model
  Alignment       \* copyAlignment_

ASSUME QueueAssumption ==
  /\ SlotCount \in Nat /\ SlotCount >= 2
  /\ SlotCapacity \in Nat \ {0}
  /\ Alignment \in Nat \ {0}

Slots == 1 .. SlotCount
None == 0

\* used is cursor_, capacity is 0 without a staging buffer, refs are the
\* resources of the recorded commands (hasCommands_ is that there are some),
\* and a batch in flight may have its fence signalled.
Flights == {"free", "running", "signalled"}
EmptySlot == [used |-> 0, capacity |-> 0, refs |-> {}, flight |-> "free"]
Slot(refs) == [used : Nat, capacity : Nat, refs : SUBSET refs, flight : Flights]
Queue(refs) == [slots : [Slots -> Slot(refs)], active : Slots \cup {None}]
EmptyQueue == [slots |-> [i \in Slots |-> EmptySlot], active |-> None]

InFlight(s) == s.flight # "free"
HasCommands(s) == s.refs # {}

AlignUp(n) == ((n + Alignment - 1) \div Alignment) * Alignment

Fits(s, bytes) == AlignUp(s.used) + bytes <= s.capacity

\* Slot::canFit.
CanFit(s, bytes) == ~InFlight(s) /\ (s.capacity = 0 \/ Fits(s, bytes))

\* Slot::prepare: a slot without commands may get a larger staging buffer.
Prepare(s, bytes) ==
  IF s.capacity # 0 /\ Fits(s, bytes)
    THEN s
    ELSE [s EXCEPT !.used = 0,
                   !.capacity = IF AlignUp(bytes) > SlotCapacity THEN AlignUp(bytes)
                                ELSE SlotCapacity]

\* Mutant: a completed slot keeps hasCommands_.
Forgetful_Polled(u) ==
  [u EXCEPT !.slots =
     [i \in Slots |->
        IF u.slots[i].flight = "signalled"
          THEN [u.slots[i] EXCEPT !.used = 0, !.flight = "free"]
          ELSE u.slots[i]]]

\* Slot::poll and resetAfterCompletion, for every slot.
Polled(u) ==
  [u EXCEPT !.slots =
     [i \in Slots |->
        IF u.slots[i].flight = "signalled"
          THEN [u.slots[i] EXCEPT !.used = 0, !.refs = {}, !.flight = "free"]
          ELSE u.slots[i]]]

\* submitActive: a slot without commands is let go and not submitted.
Submitted(u) ==
  IF u.active = None THEN u
  ELSE [slots |-> [u.slots EXCEPT ![u.active].flight =
                     IF HasCommands(u.slots[u.active]) THEN "running" ELSE @],
        active |-> None]

\* The batch that submitActive hands to the graphics queue.
Batch(u) ==
  IF u.active # None /\ HasCommands(u.slots[u.active]) THEN <<u.active>> ELSE <<>>

\* The GPU has run the batch of slot i.
Signalled(u, i) == [u EXCEPT !.slots[i].flight = "signalled"]

Free(u) == {i \in Slots : ~InFlight(u.slots[i]) /\ ~HasCommands(u.slots[i])}

\* acquire: the active slot if the bytes fit, else the first free one; the
\* queue has no active slot afterwards if there is none.
KeepsActive(u, bytes) == u.active # None /\ CanFit(u.slots[u.active], bytes)

Opened(u, i, bytes) ==
  [slots |-> [u.slots EXCEPT ![i] = Prepare(@, bytes)], active |-> i]

Acquired(u, bytes) ==
  LET p == Polled(u)
      s == IF KeepsActive(p, bytes) THEN p ELSE Submitted(p)
      i == IF KeepsActive(p, bytes) THEN p.active
           ELSE IF Free(s) = {} THEN None ELSE Min(Free(s))
  IN IF i = None THEN s ELSE Opened(s, i, bytes)

\* What acquire submits on its way.
AcquireBatch(u, bytes) ==
  LET p == Polled(u) IN IF KeepsActive(p, bytes) THEN <<>> ELSE Batch(p)

\* stageBytes throws when the reservation is exceeded.
Exceeds(s, bytes) == ~Fits(s, bytes)
Staged(s, bytes) == [s EXCEPT !.used = AlignUp(s.used) + bytes]

\* Commands for resource r are recorded (commandBuffer).
Recorded(s, r) == [s EXCEPT !.refs = @ \cup {r}]

Idle(u) ==
  \A i \in Slots : ~InFlight(u.slots[i]) /\ ~HasCommands(u.slots[i])

\* The batch that is being recorded.
Current(u) == u.slots[u.active]
WithSlot(u, s) == [u EXCEPT !.slots[u.active] = s]

\* The resources that commands refer to which have not run yet.
Referenced(u) ==
  UNION {u.slots[i].refs : i \in {j \in Slots : u.slots[j].flight # "signalled"}}

\* What the queue promises, to a graphics queue which still has the batches g to run:
\* a batch is in flight until its fence has signalled and g has it once; commands are
\* in the batch that is recorded or in flight, and their staging memory is not
\* replaced (Slot::prepare would throw).
SlotSound(u, g, i) ==
  LET s == u.slots[i]
  IN /\ s.used <= s.capacity
     /\ s.flight = "running" <=> i \in ToSet(g)
     /\ InFlight(s) => HasCommands(s) /\ i # u.active
     /\ HasCommands(s) => s.capacity # 0 /\ (InFlight(s) \/ i = u.active)

RingSound(u, g) == IsInjective(g) /\ \A i \in Slots : SlotSound(u, g, i)

=============================================================================
