-------------------------- MODULE AssetRepository --------------------------
(***************************************************************************)
(* The shared repository of model assets, scene/AssetRepository.cpp.       *)
(*                                                                         *)
(* A request makes a record (a generation) or joins the one its key has.   *)
(* The repository's worker prepares queued records on the CPU, the main    *)
(* thread uploads prepared ones one at a time with a ModelGpuBuilder, and  *)
(* releaseUnused retires what nobody leases until the frames that used it  *)
(* have completed.  Two threads: every action of the main thread is one    *)
(* call, the worker's actions are cut where it writes a record's state     *)
(* after reading what the main thread may change.                          *)
(***************************************************************************)
EXTENDS SubmissionClock, Sequences

CONSTANTS
  Keys,            \* ModelAssetKey: a model and an import profile
  Holders,         \* who holds leases: worlds, load tasks, the editor
  MaxGenerations   \* bound on the records a behaviour creates

ASSUME GenerationBound == MaxGenerations \in Nat

Generations == 1 .. MaxGenerations

NoGeneration == 0

LoadingStates == {"Queued", "PreparingCpu", "ReadyForUpload", "Uploading"}
States == LoadingStates \cup {"Unloaded", "Ready", "Retiring", "Failed", "Cancelled"}

VARIABLES
  \* of each record
  state,        \* state
  cancellation, \* *cancellation
  asset,        \* None, Live, Released: the GPU resources
  retireAfter,  \* retireAfterSerial, meaningful while Retiring
  lastUse,      \* the last submission that drew with the asset
  \* of the repository
  generations,  \* nextGeneration_ - 1
  active,       \* active_: the generation of each key
  inactive,     \* inactive_: superseded generations
  cpuQueue,     \* cpuQueue_
  gpuQueue,     \* gpuQueue_
  builder,      \* gpuRecord_ and gpuBuilder_
  worker,       \* the worker thread
  stage,        \* running, stopping (stopping_), stopped, idle, exited
  \* of the rest of the program
  lease         \* the record each holder leases

recordVars == <<state, cancellation, asset, retireAfter, lastUse>>
registryVars == <<generations, active, inactive>>
vars == <<clockVars, recordVars, registryVars, cpuQueue, gpuQueue, builder,
          worker, stage, lease>>

BuilderPhases == {"none", "building", "cancelling"}
Stages == {"running", "stopping", "stopped", "idle", "exited"}

NoBuilder == [gen |-> NoGeneration, phase |-> "none", failurePending |-> FALSE]
IdleWorker == [gen |-> NoGeneration, step |-> "waiting"]

TypeOK ==
  /\ ClockTypeOK
  /\ state \in [Generations -> States]
  /\ cancellation \in [Generations -> BOOLEAN]
  /\ asset \in [Generations -> {"None", "Live", "Released"}]
  /\ retireAfter \in [Generations -> Serials]
  /\ lastUse \in [Generations -> Serials]
  /\ generations \in 0 .. MaxGenerations
  /\ active \in [Keys -> Generations \cup {NoGeneration}]
  /\ inactive \in SUBSET Generations
  /\ cpuQueue \in Seq(Generations)
  /\ gpuQueue \in Seq(Generations)
  /\ builder \in [gen : Generations \cup {NoGeneration}, phase : BuilderPhases,
                  failurePending : BOOLEAN]
  /\ worker \in [gen : Generations, step : {"preparing", "skipping"}]
               \cup [gen : {NoGeneration}, step : {"waiting", "exited"}]
  /\ stage \in Stages
  /\ lease \in [Holders -> Generations \cup {NoGeneration}]

Init ==
  /\ ClockInit
  /\ state = [g \in Generations |-> "Unloaded"]
  /\ cancellation = [g \in Generations |-> FALSE]
  /\ asset = [g \in Generations |-> "None"]
  /\ retireAfter = [g \in Generations |-> 0]
  /\ lastUse = [g \in Generations |-> 0]
  /\ generations = 0
  /\ active = [k \in Keys |-> NoGeneration]
  /\ inactive = {}
  /\ cpuQueue = <<>>
  /\ gpuQueue = <<>>
  /\ builder = NoBuilder
  /\ worker = IdleWorker
  /\ stage = "running"
  /\ lease = [h \in Holders |-> NoGeneration]

-----------------------------------------------------------------------------
Leased(g) == \E h \in Holders : lease[h] = g        \* consumers > 0
Loading(g) == state[g] \in LoadingStates            \* loadingState
Usable == {g \in Generations : Loading(g) \/ state[g] \in {"Ready", "Retiring"}}
ActiveRecords == {active[k] : k \in Keys} \ {NoGeneration}
Held == ActiveRecords \cup inactive

-----------------------------------------------------------------------------
(* Requests and leases.                                                    *)

\* supersede: the records G leave active_.
Supersede(G) ==
  /\ inactive' = inactive \cup G
  /\ cancellation' = [g \in Generations |->
                        cancellation[g] \/ (g \in G /\ Loading(g) /\ ~Leased(g))]

\* requestModel finds a Ready or Retiring record: back to Ready.
RequestHit(h, k) ==
  /\ active[k] # NoGeneration
  /\ state[active[k]] \in {"Ready", "Retiring"}
  /\ state' = [state EXCEPT ![active[k]] = "Ready"]
  /\ retireAfter' = [retireAfter EXCEPT ![active[k]] = 0]
  /\ lease' = [lease EXCEPT ![h] = active[k]]
  /\ UNCHANGED <<cancellation, asset, lastUse, registryVars, cpuQueue>>

\* requestModel joins a record that is still loading.
RequestCoalesced(h, k) ==
  /\ active[k] # NoGeneration
  /\ Loading(active[k])
  /\ lease' = [lease EXCEPT ![h] = active[k]]
  /\ UNCHANGED <<recordVars, registryVars, cpuQueue>>

\* requestModel makes a new record; the key's old one is superseded.
RequestNew(h, k, reload) ==
  LET old == active[k]
      new == generations + 1
  IN /\ reload \/ old \notin Usable
     /\ new <= MaxGenerations
     /\ Supersede({old} \ {NoGeneration})
     /\ generations' = new
     /\ active' = [active EXCEPT ![k] = new]
     /\ state' = [state EXCEPT ![new] = "Queued"]
     /\ cpuQueue' = Append(cpuQueue, new)
     /\ lease' = [lease EXCEPT ![h] = new]
     /\ UNCHANGED <<asset, retireAfter, lastUse>>

RequestModel(h, k) ==
  /\ stage = "running"
  /\ lease[h] = NoGeneration
  /\ \E reload \in BOOLEAN :
       \/ ~reload /\ (RequestHit(h, k) \/ RequestCoalesced(h, k))
       \/ RequestNew(h, k, reload)
  /\ UNCHANGED <<clockVars, gpuQueue, builder, worker, stage>>

\* A world is destroyed, a task dropped, an entity deleted in the editor.
DropLease(h) ==
  /\ stage = "running"
  /\ lease[h] # NoGeneration
  /\ lease' = [lease EXCEPT ![h] = NoGeneration]
  /\ UNCHANGED <<clockVars, recordVars, registryVars, cpuQueue, gpuQueue,
                 builder, worker, stage>>

Invalidate(k) ==
  /\ stage = "running"
  /\ active[k] # NoGeneration
  /\ Supersede({active[k]})
  /\ active' = [active EXCEPT ![k] = NoGeneration]
  /\ UNCHANGED <<clockVars, state, asset, retireAfter, lastUse, generations,
                 cpuQueue, gpuQueue, builder, worker, stage, lease>>

\* A frame draws every asset that is Ready and leased.
RenderFrame ==
  /\ stage = "running"
  /\ Submit
  /\ lastUse' = [g \in Generations |->
                   IF Leased(g) /\ state[g] = "Ready" THEN submitted' ELSE lastUse[g]]
  /\ UNCHANGED <<state, cancellation, asset, retireAfter, registryVars, cpuQueue,
                 gpuQueue, builder, worker, stage, lease>>

-----------------------------------------------------------------------------
(* pump: the builder's step, then, if there is no builder, the next one.   *)

\* ModelGpuBuilder::pump drains its uploads once cancelled or failed.
Draining == builder.phase = "cancelling" \/ cancellation[builder.gen]

\* The builder is not finished by this pump; an exception starts its drain.
PumpContinues ==
  /\ builder # NoBuilder
  /\ builder' \in IF Draining
                  THEN {[builder EXCEPT !.phase = "cancelling"]}
                  ELSE {builder, [builder EXCEPT !.phase = "cancelling", !.failurePending = TRUE]}
  /\ UNCHANGED <<state, cancellation, asset, gpuQueue>>

\* What the record becomes when this pump finishes the builder.
BuilderResult ==
  IF ~Draining THEN "Ready" ELSE IF builder.failurePending THEN "Failed" ELSE "Cancelled"

Uploadable ==
  {g \in Generations : state[g] = "ReadyForUpload" /\ Leased(g) /\ ~cancellation[g]}

\* No builder is left: the queue's records up to the first that is still
\* wanted are cancelled, and that one gets the next builder.
PumpStartsNext ==
  \E i \in 0 .. Len(gpuQueue) :
    LET skipped == {g \in {gpuQueue[j] : j \in 1 .. i} : state[g] = "ReadyForUpload"}
        next == IF i < Len(gpuQueue) THEN gpuQueue[i + 1] ELSE NoGeneration
    IN /\ \A j \in 1 .. i : gpuQueue[j] \notin Uploadable
       /\ next \in Uploadable \cup {NoGeneration}
       /\ gpuQueue' = SubSeq(gpuQueue, i + 2, Len(gpuQueue))
       /\ builder' = [gen |-> next,
                      phase |-> IF next = NoGeneration THEN "none" ELSE "building",
                      failurePending |-> FALSE]
       /\ cancellation' = [g \in Generations |-> cancellation[g] \/ g \in skipped]
       /\ state' = [g \in Generations |->
                      CASE g = builder.gen -> BuilderResult
                        [] g \in skipped -> "Cancelled"
                        [] g = next -> "Uploading"
                        [] OTHER -> state[g]]
       /\ asset' = [g \in Generations |->
                      IF g = builder.gen /\ BuilderResult = "Ready" THEN "Live" ELSE asset[g]]

Pump ==
  /\ stage = "running"
  /\ PumpContinues \/ PumpStartsNext
  /\ UNCHANGED <<clockVars, retireAfter, lastUse, registryVars, cpuQueue, worker,
                 stage, lease>>

-----------------------------------------------------------------------------
(* releaseUnused: collectRecord on every record.                           *)

Unused == {g \in Held : ~Leased(g)}

\* Mutant: a record retires after the last completed submission.
RetireSerial_Completed(g) == IF state[g] = "Ready" THEN completed ELSE retireAfter[g]

\* A Ready record retires after the last submission, whatever it drew.
RetireSerial(g) == IF state[g] = "Ready" THEN submitted ELSE retireAfter[g]

\* Mutant: a record is looked at once, when it starts to retire.
Retirees_ReadyOnly == {g \in Unused : state[g] = "Ready"}

Retirees == {g \in Unused : state[g] \in {"Ready", "Retiring"}}

\* Mutant: the serial is compared with the submissions, not the completions.
Expired_Submitted == {g \in Retirees : RetireSerial(g) <= submitted}

Expired == {g \in Retirees : RetireSerial(g) <= completed}

Collected == Expired \cup {g \in Unused : state[g] \in {"Failed", "Cancelled"}}

ReleaseUnused ==
  /\ stage = "running"
  /\ cancellation' = [g \in Generations |->
                        cancellation[g] \/ (g \in Unused /\ Loading(g))]
  /\ state' = [g \in Generations |->
                 CASE g \in Retirees -> "Retiring"
                   [] g \in Held /\ Leased(g) /\ state[g] = "Retiring" -> "Ready"
                   [] OTHER -> state[g]]
  /\ retireAfter' = [g \in Generations |->
                       IF g \in Retirees THEN RetireSerial(g) ELSE retireAfter[g]]
  /\ asset' = [g \in Generations |-> IF g \in Expired THEN "Released" ELSE asset[g]]
  /\ active' = [k \in Keys |-> IF active[k] \in Collected THEN NoGeneration ELSE active[k]]
  /\ inactive' = inactive \ Collected
  /\ UNCHANGED <<clockVars, lastUse, generations, cpuQueue, gpuQueue, builder,
                 worker, stage, lease>>

-----------------------------------------------------------------------------
(* workerLoop.                                                             *)

Unwanted(g) == cancellation[g] \/ ~Leased(g)

workerFrame == <<clockVars, cancellation, asset, retireAfter, lastUse, registryVars,
                 builder, stage, lease>>

\* A record that was abandoned in the queue is skipped.  Its state is written
\* in a later step: the main thread may look at the record in between.
WorkerTake ==
  /\ stage = "running"
  /\ worker.step = "waiting"
  /\ cpuQueue # <<>>
  /\ LET g == Head(cpuQueue) IN
       IF Unwanted(g)
       THEN worker' = [gen |-> g, step |-> "skipping"] /\ UNCHANGED state
       ELSE /\ worker' = [gen |-> g, step |-> "preparing"]
            /\ state' = [state EXCEPT ![g] = "PreparingCpu"]
  /\ cpuQueue' = Tail(cpuQueue)
  /\ UNCHANGED <<workerFrame, gpuQueue>>

\* Mutant: a prepared record is not queued for upload.
WorkerPrepared_NotQueued ==
  /\ worker.step = "preparing"
  /\ worker' = IdleWorker
  /\ state' = [state EXCEPT ![worker.gen] =
                 IF Unwanted(worker.gen) THEN "Cancelled" ELSE "ReadyForUpload"]
  /\ UNCHANGED <<workerFrame, cpuQueue, gpuQueue>>

\* prepareFactory returned.
WorkerPrepared ==
  /\ worker.step = "preparing"
  /\ IF Unwanted(worker.gen)
     THEN /\ worker' = [worker EXCEPT !.step = "skipping"]
          /\ UNCHANGED <<state, gpuQueue>>
     ELSE /\ worker' = IdleWorker
          /\ state' = [state EXCEPT ![worker.gen] = "ReadyForUpload"]
          /\ gpuQueue' = Append(gpuQueue, worker.gen)
  /\ UNCHANGED <<workerFrame, cpuQueue>>

\* prepareFactory threw, of itself or at a cancellation check.
WorkerFailed ==
  /\ worker.step = "preparing"
  /\ state' = [state EXCEPT ![worker.gen] =
                 IF cancellation[worker.gen] THEN "Cancelled" ELSE "Failed"]
  /\ worker' = IdleWorker
  /\ UNCHANGED <<workerFrame, cpuQueue, gpuQueue>>

WorkerSkip ==
  /\ worker.step = "skipping"
  /\ state' = [state EXCEPT ![worker.gen] = "Cancelled"]
  /\ worker' = IdleWorker
  /\ UNCHANGED <<workerFrame, cpuQueue, gpuQueue>>

\* The worker waits for work and finds stopping_ set.
WorkerExit ==
  /\ stage = "stopping"
  /\ worker.step = "waiting"
  /\ worker' = [worker EXCEPT !.step = "exited"]
  /\ UNCHANGED <<workerFrame, state, cpuQueue, gpuQueue>>

-----------------------------------------------------------------------------
(* shutdown, and what Application::shutdown does after it.                 *)

\* stopping_ is set and every record cancelled; the main thread then joins
\* the worker.
ShutdownBegin ==
  /\ stage = "running"
  /\ stage' = "stopping"
  /\ cancellation' = [g \in Generations |-> cancellation[g] \/ g \in Held]
  /\ UNCHANGED <<clockVars, state, asset, retireAfter, lastUse, registryVars,
                 cpuQueue, gpuQueue, builder, worker, lease>>

\* The worker is joined: the builder, active_ and inactive_ are cleared, and
\* with them the assets that no lease keeps.
ShutdownFinish ==
  /\ stage = "stopping"
  /\ worker.step = "exited"
  /\ stage' = "stopped"
  /\ builder' = NoBuilder
  /\ active' = [k \in Keys |-> NoGeneration]
  /\ inactive' = {}
  /\ asset' = [g \in Generations |->
                 IF g \in Unused /\ asset[g] = "Live" THEN "Released" ELSE asset[g]]
  /\ UNCHANGED <<clockVars, state, cancellation, retireAfter, lastUse, generations,
                 cpuQueue, gpuQueue, worker, lease>>

\* vkDeviceWaitIdle and markAllSubmissionsCompleted.
DeviceWaitIdle ==
  /\ stage = "stopped"
  /\ finished = submitted
  /\ completed' = submitted
  /\ stage' = "idle"
  /\ UNCHANGED <<submitted, finished, recordVars, registryVars, cpuQueue, gpuQueue,
                 builder, worker, lease>>

\* The worlds go, and with them the last leases and assets.
DestroyWorlds ==
  /\ stage = "idle"
  /\ stage' = "exited"
  /\ lease' = [h \in Holders |-> NoGeneration]
  /\ asset' = [g \in Generations |-> IF asset[g] = "Live" THEN "Released" ELSE asset[g]]
  /\ UNCHANGED <<clockVars, state, cancellation, retireAfter, lastUse, registryVars,
                 cpuQueue, gpuQueue, builder, worker>>

Exited ==
  /\ stage = "exited"
  /\ UNCHANGED vars

-----------------------------------------------------------------------------
\* What the frames on the queue and the frame loop do meanwhile.
GpuFinish ==
  /\ Finish
  /\ UNCHANGED <<recordVars, registryVars, cpuQueue, gpuQueue, builder, worker,
                 stage, lease>>

ObserveCompletion ==
  /\ stage = "running"
  /\ Observe
  /\ UNCHANGED <<recordVars, registryVars, cpuQueue, gpuQueue, builder, worker,
                 stage, lease>>

Worker == WorkerTake \/ WorkerPrepared \/ WorkerFailed \/ WorkerSkip \/ WorkerExit

Shutdown == ShutdownFinish \/ DeviceWaitIdle \/ DestroyWorlds

Next ==
  \/ \E h \in Holders, k \in Keys : RequestModel(h, k)
  \/ \E h \in Holders : DropLease(h)
  \/ \E k \in Keys : Invalidate(k)
  \/ RenderFrame
  \/ Pump
  \/ ReleaseUnused
  \/ Worker
  \/ ShutdownBegin
  \/ Shutdown
  \/ Exited
  \/ GpuFinish
  \/ ObserveCompletion

Spec == Init /\ [][Next]_vars

\* The main loop pumps, collects and observes completed frames in every
\* iteration, the worker runs, the GPU finishes what it was given and a
\* shutdown that began goes on.  Nobody has to request, draw or quit.
FairSpec ==
  /\ Spec
  /\ WF_vars(Pump)
  /\ WF_vars(ReleaseUnused)
  /\ WF_vars(ObserveCompletion)
  /\ WF_vars(GpuFinish)
  /\ WF_vars(Worker)
  /\ WF_vars(Shutdown)

-----------------------------------------------------------------------------
(* Properties.                                                             *)

\* While the program runs, an asset is destroyed only when every frame that
\* drew with it has finished, whoever dropped it, re-requested it, reloaded
\* or invalidated its key in between.
ReleasedAfterLastUse ==
  stage = "running" =>
    \A g \in Generations : asset[g] = "Released" => lastUse[g] <= finished

\* A lease keeps what it leases: a Ready record that somebody holds has its
\* asset, also after it has been retired and revived.
LeasedReadyIsLive ==
  \A h \in Holders :
    lease[h] # NoGeneration /\ state[lease[h]] = "Ready" => asset[lease[h]] = "Live"

\* The inductive invariants.  Where a record is decides its state, and no
\* record is twice in a queue or in two places: what the worker and pump write
\* is never an overwritten result.
PlacesInvariant ==
  /\ \A i \in DOMAIN cpuQueue :
       /\ state[cpuQueue[i]] = "Queued"
       /\ cpuQueue[i] <= generations
       /\ cpuQueue[i] # worker.gen
       /\ \A j \in DOMAIN cpuQueue : cpuQueue[i] = cpuQueue[j] => i = j
  /\ \A i \in DOMAIN gpuQueue :
       /\ state[gpuQueue[i]] = "ReadyForUpload"
       /\ \A j \in DOMAIN gpuQueue : gpuQueue[i] = gpuQueue[j] => i = j
  /\ worker.step = "preparing" => state[worker.gen] = "PreparingCpu"
  /\ worker.step = "skipping" => state[worker.gen] \in {"Queued", "PreparingCpu"}
  /\ builder.gen # NoGeneration => state[builder.gen] = "Uploading"
  /\ builder.gen = NoGeneration => builder = NoBuilder

\* Exactly the records that got Ready have had an asset; one that was
\* destroyed is out of everybody's reach; a retiring one has not been drawn
\* since the serial it waits for.
AssetInvariant ==
  /\ ClockOrder
  /\ \A g \in Generations :
       /\ asset[g] # "None" <=> state[g] \in {"Ready", "Retiring"}
       /\ asset[g] = "Released" => g \notin Held /\ ~Leased(g)
       /\ lastUse[g] <= submitted
       /\ state[g] = "Retiring" => lastUse[g] <= retireAfter[g]
       /\ g > generations => state[g] = "Unloaded" /\ g \notin Held /\ ~Leased(g)
  /\ stage \notin {"running", "stopping"} => Held = {}
  /\ ReleasedAfterLastUse

\* What the proofs carry from step to step: the types, where each record is
\* and what became of its asset.  LeasedReadyIsLive follows.
IInv == TypeOK /\ PlacesInvariant /\ AssetInvariant

\* An asset nobody leases is eventually destroyed or leased again.
UnusedIsReleased ==
  \A g \in Generations :
    (asset[g] = "Live" /\ ~Leased(g)) ~> (asset[g] = "Released" \/ Leased(g))

\* A load does not stay pending: it ends Ready, Failed or Cancelled, unless the
\* program quits first.
LoadSettles ==
  \A g \in Generations : Loading(g) ~> (~Loading(g) \/ stage # "running")

\* The repository is an implementation of deferred release.
Deferred == INSTANCE DeferredRelease
              WITH Resources <- Generations, status <- asset,
                   closing <- stage # "running"

ImplementsDeferredRelease == Deferred!ReleaseSpec

=============================================================================
