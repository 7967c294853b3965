---------------------------- MODULE ModelUpload ----------------------------
(***************************************************************************)
(* The upload of one model: scene/ModelGpuBuilder.cpp over an upload       *)
(* queue, with the constructors of Texture and Mesh, and what the asset    *)
(* repository does with a builder that has finished or is dropped at exit. *)
(*                                                                         *)
(* The main thread pumps the builder once a frame, within a budget; the    *)
(* GPU runs the submitted batches in their order.                          *)
(***************************************************************************)
EXTENDS UploadQueue

CONSTANT Prepared    \* models: sizes of textures, of vertices and indices, materials

ASSUME UploadAssumption ==
  \A p \in Prepared :
    /\ p.textures \in Seq(Nat \ {0})
    /\ p.meshes \in Seq((Nat \ {0}) \X (Nat \ {0}))
    /\ p.materials \in Nat

VARIABLES
  prepared,   \* prepared_
  rayQuery,   \* the device builds acceleration structures
  build,      \* the builder: its phase, its indexes, failurePending_, error_
  step,       \* where pump() is, "none" when it does not run
  queue,      \* uploadQueue_
  gpu,        \* the slots whose batches the graphics queue has yet to run
  alive,      \* the resources that exist
  uploaded,   \* history: the resources whose commands have run
  cancelled,  \* *cancellation
  host        \* what became of the builder

inputVars == <<prepared, rayQuery>>
vars == <<inputVars, build, step, queue, gpu, alive, uploaded, cancelled, host>>

Phases == {"Textures", "Meshes", "WaitingForGpu", "Materials", "Ready",
           "Cancelling", "Cancelled", "Failed"}
Steps == {"none", "record", "submit", "wait", "materials"}

Texture(n) == <<"texture", n>>
Mesh(n) == <<"mesh", n>>
Scratch(n) == <<"scratch", n>>
Resources(p) ==
  {Texture(n) : n \in DOMAIN p.textures} \cup {Mesh(n) : n \in DOMAIN p.meshes}
Scratches(p) == {Scratch(n) : n \in DOMAIN p.meshes}

Build == [phase : Phases, texture : 0 .. Len(prepared.textures),
          mesh : 0 .. Len(prepared.meshes), material : 0 .. prepared.materials,
          failing : BOOLEAN, error : {"none", "resource", "reservation"}]

TypeOK ==
  /\ prepared \in Prepared
  /\ rayQuery \in BOOLEAN
  /\ build \in Build
  /\ step \in Steps
  /\ queue \in Queue(Resources(prepared))
  /\ gpu \in Seq(Slots)
  /\ alive \subseteq Resources(prepared) \cup Scratches(prepared)
  /\ uploaded \subseteq Resources(prepared)
  /\ cancelled \in BOOLEAN
  /\ host \in {"building", "published", "dropped", "draining", "drained"}

Init ==
  /\ prepared \in Prepared
  /\ rayQuery \in BOOLEAN
  /\ build = [phase |-> "Textures", texture |-> 0, mesh |-> 0, material |-> 0,
              failing |-> FALSE, error |-> "none"]
  /\ step = "none"
  /\ queue = EmptyQueue
  /\ gpu = <<>>
  /\ alive = {}
  /\ uploaded = {}
  /\ cancelled = FALSE
  /\ host = "building"

----------------------------------------------------------------------------
(* ModelGpuBuilder::pump, one step for each time it looks at the fences or  *)
(* records a resource: the GPU runs meanwhile.                             *)

pumpFrame == <<inputVars, uploaded, cancelled>>

\* The phase follows the indexes.
Advanced(b) ==
  LET next(phase) ==
        IF phase = "Textures" /\ b.texture = Len(prepared.textures) THEN "Meshes" ELSE phase
      after(phase) ==
        IF phase = "Meshes" /\ b.mesh = Len(prepared.meshes) THEN "WaitingForGpu" ELSE phase
  IN [b EXCEPT !.phase = after(next(@))]

\* Where a pump goes from a phase.
StepOf(phase) ==
  CASE phase \in {"Textures", "Meshes"} -> "record"
    [] phase \in {"WaitingForGpu", "Cancelling"} -> "submit"
    [] OTHER -> "materials"

BeginPump ==
  /\ host = "building" /\ step = "none"
  /\ queue' = Polled(queue)
  /\ build' = IF cancelled THEN [build EXCEPT !.phase = "Cancelling"] ELSE Advanced(build)
  /\ step' = StepOf(build'.phase)
  /\ UNCHANGED <<pumpFrame, gpu, alive, host>>

\* The resource is recorded, with batch q; the budget for the pump may be spent.
Records(q, new, b) ==
  /\ queue' = q
  /\ alive' = alive \cup new
  /\ build' = Advanced(b)
  /\ \/ step' = StepOf(build'.phase)
     \/ build'.phase # "WaitingForGpu" /\ step' = "none"

\* acquire finds no slot: the pump ends.
FindsNoSlot(q) ==
  /\ q.active = None
  /\ queue' = q
  /\ step' = "none"
  /\ UNCHANGED <<build, alive>>

\* fail(): the pump ends and the next ones cancel.
Fails(q, why) ==
  /\ queue' = q
  /\ build' = [build EXCEPT !.phase = "Cancelling", !.failing = TRUE, !.error = why]
  /\ step' = "none"
  /\ UNCHANGED alive

\* A texture stages its pixels, allocates its image and records the copy; it may
\* fail before or after the first.
RecordTexture ==
  LET n == build.texture + 1
      bytes == prepared.textures[n]
      staged(q) == Staged(Current(q), bytes)
  IN /\ step = "record" /\ build.phase = "Textures"
     /\ gpu' = gpu \o AcquireBatch(queue, bytes)
     /\ \E q \in {Acquired(queue, bytes)} :
          \/ FindsNoSlot(q)
          \/ q.active # None /\ Fails(q, "resource")
          \/ q.active # None /\ Exceeds(Current(q), bytes) /\ Fails(q, "reservation")
          \/ /\ q.active # None /\ ~Exceeds(Current(q), bytes)
             /\ \/ Fails(WithSlot(q, staged(q)), "resource")
                \/ Records(WithSlot(q, Recorded(staged(q), Texture(n))),
                           {Texture(n)}, [build EXCEPT !.texture = n])
     /\ UNCHANGED <<pumpFrame, host>>

\* The bytes a mesh reserves for its vertices and its indices.
MeshBytes(v, i) == v + i + (Alignment - 1)

\* A mesh allocates its buffers, stages and records both copies and, with
\* ray queries, allocates an acceleration structure and its scratch.
RecordMesh ==
  LET n == build.mesh + 1
      vertices == prepared.meshes[n][1]
      indices == prepared.meshes[n][2]
      bytes == MeshBytes(vertices, indices)
      first(q) == Staged(Current(q), vertices)
      exceeds(q) == Exceeds(Current(q), vertices) \/ Exceeds(first(q), indices)
      recorded(q) == WithSlot(q, Recorded(Staged(first(q), indices), Mesh(n)))
  IN /\ step = "record" /\ build.phase = "Meshes"
     /\ gpu' = gpu \o AcquireBatch(queue, bytes)
     /\ \E q \in {Acquired(queue, bytes)} :
          \/ FindsNoSlot(q)
          \/ q.active # None /\ Fails(q, "resource")
          \/ q.active # None /\ exceeds(q) /\ Fails(q, "reservation")
          \/ /\ q.active # None /\ ~exceeds(q)
             /\ \/ rayQuery /\ Fails(recorded(q), "resource")
                \/ Records(recorded(q),
                           {Mesh(n)} \cup (IF rayQuery THEN {Scratch(n)} ELSE {}),
                           [build EXCEPT !.mesh = n])
     /\ UNCHANGED <<pumpFrame, host>>

\* submitRecorded, when everything is recorded or given up.
SubmitRecorded ==
  /\ step = "submit"
  /\ queue' = Submitted(queue)
  /\ gpu' = gpu \o Batch(queue)
  /\ step' = "wait"
  /\ UNCHANGED <<pumpFrame, build, alive, host>>

\* Batches still run: the pump ends.
KeepsWaiting ==
  /\ step = "wait"
  /\ queue' = Polled(queue)
  /\ ~Idle(queue')
  /\ step' = "none"
  /\ UNCHANGED <<pumpFrame, build, gpu, alive, host>>

\* Mutant: the wait for the GPU ends when nothing is left to record.
Unwaited_UploadEnds ==
  /\ step = "wait" /\ build.phase = "WaitingForGpu"
  /\ queue' = Polled(queue)
  /\ build' = [build EXCEPT !.phase = "Materials"]
  /\ alive' = alive \ Scratches(prepared)
  /\ step' = "materials"
  /\ UNCHANGED <<pumpFrame, gpu, host>>

\* Every batch has run; the scratch memory of the acceleration structures is
\* given back.
UploadEnds ==
  /\ step = "wait" /\ build.phase = "WaitingForGpu"
  /\ queue' = Polled(queue)
  /\ Idle(queue')
  /\ build' = [build EXCEPT !.phase = "Materials"]
  /\ alive' = alive \ Scratches(prepared)
  /\ step' = "materials"
  /\ UNCHANGED <<pumpFrame, gpu, host>>

\* Mutant: the builder is done cancelling as soon as it has submitted.
Hasty_CancelEnds ==
  /\ step = "wait" /\ build.phase = "Cancelling"
  /\ queue' = Polled(queue)
  /\ build' = [build EXCEPT !.phase = IF build.failing THEN "Failed" ELSE "Cancelled"]
  /\ alive' = {}
  /\ host' = "dropped"
  /\ step' = "none"
  /\ UNCHANGED <<pumpFrame, gpu>>

\* Every batch has run, and the repository drops the builder with what it has made.
CancelEnds ==
  /\ step = "wait" /\ build.phase = "Cancelling"
  /\ queue' = Polled(queue)
  /\ Idle(queue')
  /\ build' = [build EXCEPT !.phase = IF build.failing THEN "Failed" ELSE "Cancelled"]
  /\ alive' = {}
  /\ host' = "dropped"
  /\ step' = "none"
  /\ UNCHANGED <<pumpFrame, gpu>>

\* Materials need no GPU work: some are made (at least one, the budget being meant
\* for uploads), or one fails, or the asset cannot be finalized.  The repository
\* takes a finished asset from the builder.
MakeMaterials ==
  /\ step = "materials"
  /\ step' = "none"
  /\ \/ build' = [build EXCEPT !.phase = "Cancelling", !.failing = TRUE,
                               !.error = "resource"]
        /\ host' = host
     \/ \E m \in build.material .. prepared.materials :
          IF m = prepared.materials
            THEN /\ build' = [build EXCEPT !.material = m, !.phase = "Ready"]
                 /\ host' = "published"
            ELSE /\ m > build.material
                 /\ build' = [build EXCEPT !.material = m]
                 /\ host' = host
  /\ UNCHANGED <<pumpFrame, queue, gpu, alive>>

Pump ==
  \/ BeginPump \/ RecordTexture \/ RecordMesh \/ SubmitRecorded
  \/ KeepsWaiting \/ UploadEnds \/ CancelEnds \/ MakeMaterials

----------------------------------------------------------------------------
(* The main thread between two pumps.                                      *)

Between == host = "building" /\ step = "none"

\* Nobody wants the model any more: the record's flag is raised.
Cancel ==
  /\ Between
  /\ ~cancelled
  /\ cancelled' = TRUE
  /\ UNCHANGED <<inputVars, build, step, queue, gpu, alive, uploaded, host>>

\* AssetRepository::shutdown drops the builder, whose members go in the
\* reverse order of their declaration: the resources first ...
Shutdown ==
  /\ Between
  /\ cancelled' = TRUE
  /\ build' = [build EXCEPT !.phase = "Cancelling"]
  /\ alive' = {}
  /\ host' = "draining"
  /\ UNCHANGED <<inputVars, step, queue, gpu, uploaded>>

\* ... and then the queue, which submits what was recorded and waits.
Drain ==
  /\ host = "draining"
  /\ queue' = Submitted(Polled(queue))
  /\ gpu' = gpu \o Batch(Polled(queue))
  /\ host' = IF Idle(queue') THEN "drained" ELSE "draining"
  /\ UNCHANGED <<inputVars, build, step, alive, uploaded, cancelled>>

----------------------------------------------------------------------------
\* The GPU runs the oldest batch and signals its fence.
GpuRuns ==
  /\ gpu # <<>>
  /\ LET i == Head(gpu)
     IN /\ queue' = Signalled(queue, i)
        /\ uploaded' = uploaded \cup queue.slots[i].refs
  /\ gpu' = Tail(gpu)
  /\ UNCHANGED <<inputVars, build, step, alive, cancelled, host>>

\* The builder is gone.
Over ==
  /\ host \in {"published", "dropped", "drained"}
  /\ UNCHANGED vars

Next == Pump \/ Cancel \/ Shutdown \/ Drain \/ GpuRuns \/ Over

Spec == Init /\ [][Next]_vars

\* The main loop pumps every frame and the GPU runs what it was given.
Fairness == WF_vars(Pump) /\ WF_vars(Drain) /\ WF_vars(GpuRuns)
FairSpec == Spec /\ Fairness

----------------------------------------------------------------------------
(* Properties.                                                             *)

\* While a model is built on a device without ray queries, no recorded or
\* running command refers to a texture or a mesh that was destroyed, also
\* after a constructor failed or the load was cancelled.
RecordedIsAlive ==
  host # "draining" /\ ~rayQuery => Referenced(queue) \subseteq alive

\* A published model is complete: the GPU has uploaded every resource of it.
PublishedIsUploaded ==
  host = "published" =>
    /\ Resources(prepared) \subseteq alive
    /\ Resources(prepared) \subseteq uploaded

\* A reservation made by acquire covers what is staged under it, whatever
\* the sizes and the alignment.
ReservationHolds == build.error # "reservation"

Made(b) ==
  {Texture(n) : n \in 1 .. b.texture} \cup {Mesh(n) : n \in 1 .. b.mesh}

\* The indexes follow the phase.
IndexesFollow(b) ==
  /\ b.phase \in {"Meshes", "WaitingForGpu", "Materials"} => b.texture = Len(prepared.textures)
  /\ b.phase \in {"WaitingForGpu", "Materials"} => b.mesh = Len(prepared.meshes)
  /\ b.phase = "Textures" => b.mesh = 0

\* pump() is where the phase says.
PumpFollows(at, b) ==
  /\ at \in {"record", "materials"} => StepOf(b.phase) = at
  /\ at \in {"submit", "wait"} => StepOf(b.phase) = "submit"
  /\ at = "record" => b = Advanced(b)

\* What the builder counts as made exists and is uploaded or going to be, and nothing
\* is in flight when the materials are made.
BuildSound ==
  host = "building" =>
    /\ Made(build) \subseteq alive
    /\ Made(build) \subseteq uploaded \cup Referenced(queue)
    /\ build.phase \notin {"Ready", "Cancelled", "Failed"}
    /\ build.phase = "Materials" => Idle(queue)
    /\ IndexesFollow(build)
    /\ PumpFollows(step, build)

\* A builder that is gone is not pumped and has left nothing in flight.
GoneIsIdle ==
  /\ host # "building" => step = "none"
  /\ host \in {"published", "dropped", "drained"} => Idle(queue)

\* The types, whole published models, reservations that hold, and why.
UploadInvariant ==
  /\ TypeOK /\ RingSound(queue, gpu) /\ BuildSound /\ GoneIsIdle
  /\ PublishedIsUploaded /\ ReservationHolds

\* A build ends: the ring never blocks the pump, and a failed or cancelled
\* build gets to the end of its batches.
BuildEnds == <>(host # "building")

=============================================================================
