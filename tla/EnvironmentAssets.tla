------------------------- MODULE EnvironmentAssets -------------------------
(***************************************************************************)
(* The image-based lighting environments: the repository that loads them   *)
(* (scene/EnvironmentAssetRepository.cpp, its GPU builder), the main thread *)
(* that asks for them, waits, publishes and clears                         *)
(* (scene/SceneRuntimeCoordinator.cpp), and the renderer's lighting        *)
(* generations, which keep what frames in flight draw (render/Renderer.cpp)*)
(*                                                                         *)
(* Two threads: the main thread goes round its loop, one action per stage; *)
(* the worker is cut between its reads of what the main thread may write   *)
(* and its stores, and cancel() between its read and its stores.           *)
(***************************************************************************)
EXTENDS SubmissionClock, Sequences, FiniteSets, SequencesExt

CONSTANTS
  Environments,    \* EnvironmentAssetKey: an environment and its profile
  MaxGenerations,  \* bound on the records a behaviour creates
  MaxScenes,       \* bound on the native scenes a behaviour resolves
  MaxRetired,      \* bound on the lighting generations a user leaves behind
  ImageCount       \* images of an environment; the code has 4

ASSUME EnvironmentBounds ==
  /\ MaxGenerations \in Nat
  /\ MaxScenes \in Nat
  /\ MaxRetired \in Nat
  /\ ImageCount \in Nat \ {0}

Generations == 1 .. MaxGenerations
None == 0

LoadingStates == {"Queued", "PreparingCpu", "ReadyForUpload", "Uploading", "WaitingForGpu"}
States == LoadingStates \cup {"Unloaded", "Ready", "Retiring", "Failed", "Cancelled"}

VARIABLES
  \* of each record
  state,        \* state
  cancellation, \* task->cancellation
  kept,         \* asset is not null
  retireAfter,  \* retireAfterSerial
  lastUse,      \* history: the last submission that drew with the asset
  \* of the repository
  generations,  \* nextGeneration_ - 1
  active,       \* active_
  inactive,     \* inactive_
  cpuQueue,     \* cpuQueue_
  gpuQueue,     \* gpuQueue_
  builder,      \* gpuRecord_ and gpuBuilder_ with its batches
  worker,       \* the worker thread
  \* of the main thread
  main,         \* the stage of the loop
  cancelling,   \* the cancel() calls under way, whether the first has read that
                \* nobody works on the record, and what follows them
  pending,      \* pendingEnvironmentAsset_; latestEnvironmentLoadTask_ is its task
                \* until that has ended
  shown,        \* activeEnvironmentAsset_
  scene,        \* the native scene that is loading
  asking,       \* the environments that its document names and those not yet requested
  scenes,       \* how many there were
  world,        \* the environments of the current world's probes
  retiredWorlds,
  lighting,     \* currentLightingGeneration_: environment, probe environments
  retiredLighting

recordVars == <<state, cancellation, kept, retireAfter, lastUse>>
tableVars == <<generations, active, inactive>>
queueVars == <<cpuQueue, gpuQueue>>
holderVars == <<pending, shown, scene, scenes, asking, world, retiredWorlds>>
drawVars == <<lighting, retiredLighting>>
vars == <<clockVars, recordVars, tableVars, queueVars, builder, worker, main,
          cancelling, holderVars, drawVars>>

NoBuilder == [gen |-> None, phase |-> "Images", images |-> 0, batch |-> "none",
              failing |-> FALSE]
NoCalls == [calls |-> <<>>, idle |-> FALSE, then |-> "input"]
NoScene == [phase |-> "none", bound |-> <<>>, global |-> None, probes |-> {}]
NoQuestions == [global |-> None, probes |-> {}, left |-> {}]
BuilderPhases == {"Images", "WaitingForGpu", "Ready", "Cancelling", "Failed", "Cancelled"}
IdleWorker == [gen |-> None, at |-> "waiting"]
Dark == [env |-> None, probes |-> {}]

Exiting == {"stopping", "stopped", "idle", "exited"}
Stages == {"input", "cancel", "scene", "ask", "frame", "submit"} \cup Exiting

Builders == [gen : 0 .. MaxGenerations, phase : BuilderPhases, images : 0 .. ImageCount,
             batch : {"none", "recorded", "running"}, failing : BOOLEAN]
Lightings == [env : 0 .. MaxGenerations, probes : SUBSET Generations]

TypeOK ==
  /\ ClockTypeOK
  /\ state \in [Generations -> States]
  /\ cancellation \in [Generations -> BOOLEAN]
  /\ kept \in [Generations -> BOOLEAN]
  /\ retireAfter \in [Generations -> Serials]
  /\ lastUse \in [Generations -> Serials]
  /\ generations \in 0 .. MaxGenerations
  /\ active \in [Environments -> 0 .. generations]
  /\ inactive \subseteq 1 .. generations
  /\ cpuQueue \in Seq(Generations) /\ gpuQueue \in Seq(Generations)
  /\ builder \in Builders
  /\ worker \in [gen : 0 .. MaxGenerations,
                at : {"waiting", "skip", "prepare", "load", "ready", "exited"}]
  /\ main \in Stages
  /\ cancelling \in [calls : Seq(Generations), idle : BOOLEAN,
                    then : {"input", "clear", "close", "drop scene"}]
  /\ pending \in 0 .. generations /\ shown \in 0 .. generations
  /\ scene \in [phase : {"none", "loading", "failed"}, bound : Seq(Generations),
               global : 0 .. MaxGenerations, probes : SUBSET Generations]
  /\ scenes \in 0 .. MaxScenes
  /\ asking \in [global : Environments \cup {None}, probes : SUBSET Environments,
                left : SUBSET Environments]
  /\ world \subseteq Generations
  /\ retiredWorlds \subseteq [probes : SUBSET Generations, after : Serials]
  /\ lighting \in Lightings
  /\ retiredLighting \subseteq [env : 0 .. MaxGenerations, probes : SUBSET Generations,
                               after : Serials]

Init ==
  /\ ClockInit
  /\ state = [g \in Generations |-> "Unloaded"]
  /\ cancellation = [g \in Generations |-> FALSE]
  /\ kept = [g \in Generations |-> FALSE]
  /\ retireAfter = [g \in Generations |-> 0]
  /\ lastUse = [g \in Generations |-> 0]
  /\ generations = 0
  /\ active = [e \in Environments |-> None]
  /\ inactive = {}
  /\ cpuQueue = <<>> /\ gpuQueue = <<>>
  /\ builder = NoBuilder
  /\ worker = IdleWorker
  /\ main = "input"
  /\ cancelling = NoCalls
  /\ pending = None /\ shown = None
  /\ scene = NoScene /\ scenes = 0 /\ asking = NoQuestions
  /\ world = {} /\ retiredWorlds = {}
  /\ lighting = Dark /\ retiredLighting = {}

----------------------------------------------------------------------------
\* consumers > 0.
Leased(g) ==
  \/ g \in {pending, shown}
  \/ g \in Range(scene.bound)
  \/ g \in world
  \/ \E w \in retiredWorlds : g \in w.probes

Loading(g) == state[g] \in LoadingStates
Held == ({active[e] : e \in Environments} \ {None}) \cup inactive

\* The GPU resources of a record exist: it, or a lighting generation that
\* frames may be drawing with, has them.
Drawn(l) == {l.env} \cup l.probes
Exists(g) ==
  \/ kept[g]
  \/ g \in Drawn(lighting)
  \/ \E l \in retiredLighting : g \in Drawn(l)

----------------------------------------------------------------------------
(* request.  R is the part of the state it changes.                        *)

Tables == [state |-> state, cancellation |-> cancellation, retireAfter |-> retireAfter,
           generations |-> generations, active |-> active, inactive |-> inactive,
           cpuQueue |-> cpuQueue, got |-> None]

\* supersede.
Superseded(R, e) ==
  LET g == R.active[e]
  IN IF g = None THEN R
     ELSE [R EXCEPT !.inactive = @ \cup {g},
                    !.active[e] = None,
                    !.cancellation[g] = @ \/ (~Leased(g) /\ R.state[g] \in LoadingStates)]

Usable(R, g) == g # None /\ R.state[g] \in LoadingStates \cup {"Ready", "Retiring"}

Requested(R, e, reload) ==
  LET g == R.active[e]
      new == R.generations + 1
      joined == [R EXCEPT !.got = g]
      old == Superseded(R, e)
  IN IF ~reload /\ Usable(R, g)
       THEN IF R.state[g] \in LoadingStates THEN joined
            ELSE [joined EXCEPT !.state[g] = "Ready", !.retireAfter[g] = 0]
       ELSE [old EXCEPT !.generations = new,
                        !.active[e] = new,
                        !.state[new] = "Queued",
                        !.cpuQueue = Append(@, new),
                        !.got = new]

StoreTables(R) ==
  /\ R.generations <= MaxGenerations
  /\ state' = R.state
  /\ cancellation' = R.cancellation
  /\ retireAfter' = R.retireAfter
  /\ generations' = R.generations
  /\ active' = R.active
  /\ inactive' = R.inactive
  /\ cpuQueue' = R.cpuQueue

\* A request makes a record only while the bound allows one.
Room == generations < MaxGenerations

----------------------------------------------------------------------------
(* The renderer.                                                           *)

Retired(l) == [env |-> l.env, probes |-> l.probes, after |-> submitted]

\* createLightingGeneration: the current one retires.
Relit(env, probes) ==
  /\ lighting' = [env |-> env, probes |-> probes]
  /\ retiredLighting' = retiredLighting \cup {Retired(lighting)}

\* publishEnvironment and, for None, clearEnvironment.
PublishEnvironment(g) == Relit(g, lighting.probes)

----------------------------------------------------------------------------
(* cancel(), once for each of a list of records, and what follows.         *)

\* retireCurrentWorld.
RetiredWorlds ==
  IF world = {} THEN retiredWorlds
  ELSE retiredWorlds \cup {[probes |-> world, after |-> submitted]}

After(then) ==
  CASE then = "input" ->
         /\ main' = "input"
         /\ UNCHANGED <<holderVars, drawVars>>
    [] then = "clear" ->
         /\ main' = "input"
         /\ pending' = None /\ shown' = None
         /\ PublishEnvironment(None)
         /\ UNCHANGED <<scene, scenes, asking, world, retiredWorlds>>
    [] then = "close" ->
         /\ main' = "input"
         /\ pending' = None /\ shown' = None
         /\ scene' = IF scene.phase = "loading" THEN [scene EXCEPT !.phase = "failed"]
                     ELSE scene
         /\ world' = {} /\ retiredWorlds' = RetiredWorlds
         /\ PublishEnvironment(None)
         /\ UNCHANGED <<scenes, asking>>
    [] then = "drop scene" ->
         /\ main' = "frame"
         /\ scene' = NoScene
         /\ UNCHANGED <<pending, shown, scenes, asking, world, retiredWorlds, drawVars>>

\* The first record that is loading is read; there may be none.
Cancelling(gens, then) ==
  \/ /\ \A i \in DOMAIN gens : ~Loading(gens[i])
     /\ cancelling' = NoCalls
     /\ After(then)
  \/ \E first \in DOMAIN gens :
       /\ Loading(gens[first])
       /\ \A i \in 1 .. first - 1 : ~Loading(gens[i])
       /\ cancelling' = [calls |-> SubSeq(gens, first, Len(gens)),
                         idle |-> state[gens[first]] \in {"Queued", "ReadyForUpload"},
                         then |-> then]
       /\ main' = "cancel"
       /\ UNCHANGED <<holderVars, drawVars>>

\* The record that was read is cancelled, at once if nobody was working on it;
\* the next one is read.
Cancel ==
  /\ main = "cancel"
  /\ LET g == Head(cancelling.calls)
     IN /\ cancellation' = [cancellation EXCEPT ![g] = TRUE]
        /\ state' = IF cancelling.idle THEN [state EXCEPT ![g] = "Cancelled"] ELSE state
  /\ Cancelling(Tail(cancelling.calls), cancelling.then)
  /\ UNCHANGED <<clockVars, kept, retireAfter, lastUse, tableVars, queueVars,
                 builder, worker>>

----------------------------------------------------------------------------
(* What users and scripts call, between two iterations of the loop.        *)

AtInput == main = "input"
UserMayRelight == Cardinality(retiredLighting) < MaxRetired

\* queueEnvironment; reloadEnvironment is a reload of the selected one.
QueueEnvironment(e, reload) ==
  /\ AtInput
  /\ Room
  /\ \E R \in {Requested(Tables, e, reload)} :
       /\ StoreTables(R)
       /\ pending' = R.got
  /\ UNCHANGED <<clockVars, kept, lastUse, gpuQueue, builder, worker, main,
                 cancelling, shown, scene, scenes, asking, world, retiredWorlds,
                 drawVars>>

Invalidate(e) ==
  /\ AtInput
  /\ active[e] # None
  /\ StoreTables(Superseded(Tables, e))
  /\ UNCHANGED <<clockVars, kept, lastUse, gpuQueue, builder, worker, main,
                 cancelling, holderVars, drawVars>>

\* The latest task, unless it has ended.
LatestIfUnfinished == IF pending = None THEN <<>> ELSE <<pending>>

UserCancels(gens, then) ==
  /\ AtInput
  /\ Cancelling(gens, then)
  /\ UNCHANGED <<clockVars, recordVars, tableVars, queueVars, builder, worker>>

\* cancelEnvironmentLoad; a second cancel of a record changes nothing.
CancelEnvironmentLoad(g) == Loading(g) /\ ~cancellation[g] /\ UserCancels(<<g>>, "input")

ClearEnvironment == UserMayRelight /\ UserCancels(LatestIfUnfinished, "clear")
CloseWorld == UserMayRelight /\ UserCancels(LatestIfUnfinished, "close")

\* Another scene is requested: the loading one is superseded and its bindings
\* are dropped, without a cancel.
SupersedeScene ==
  /\ AtInput
  /\ scene # NoScene
  /\ scene' = NoScene
  /\ UNCHANGED <<clockVars, recordVars, tableVars, queueVars, builder, worker, main,
                 cancelling, pending, shown, scenes, asking, world,
                 retiredWorlds, drawVars>>

\* cancelSceneLoad.
CancelSceneLoad ==
  /\ AtInput
  /\ scene.phase = "loading"
  /\ scene' = [scene EXCEPT !.phase = "failed"]
  /\ UNCHANGED <<clockVars, recordVars, tableVars, queueVars, builder, worker, main,
                 cancelling, pending, shown, scenes, asking, world,
                 retiredWorlds, drawVars>>

----------------------------------------------------------------------------
(* EnvironmentAssetRepository::pump.  The builder's batches are none, some *)
(* recorded or running; its queue is the one of UploadQueue.         *)

\* submitRecorded, then poll: the GPU may have run them by then.
Polled(batch) == IF batch = "none" THEN {"none"} ELSE {"running", "none"}

\* Mutant: the builder does not look at the flag.
Undrained_Draining == builder.phase = "Cancelling"

\* A build that failed or whose record is cancelled ends its batches.
Draining == builder.phase = "Cancelling" \/ cancellation[builder.gen]

\* Some images are left; with its batches running the builder may find no slot.
SomeRecorded ==
  LET least == IF builder.batch = "running" THEN builder.images ELSE builder.images + 1
  IN {[builder EXCEPT !.images = p[1], !.batch = p[2]] :
        p \in (least .. ImageCount - 1) \X {"recorded", "running"}}

AllRecorded ==
  {[builder EXCEPT !.images = ImageCount, !.batch = x,
                   !.phase = IF x = "none" THEN "Ready" ELSE "WaitingForGpu"] :
     x \in {"running", "none"}}

\* An image fails, before or after the first has been recorded.
RecordingFails ==
  {[builder EXCEPT !.phase = "Cancelling", !.failing = TRUE, !.batch = x] :
     x \in {builder.batch, "recorded"}}

\* EnvironmentGpuBuilder::pump: the builders it may leave.
Built ==
  IF Draining
    THEN {[builder EXCEPT !.batch = x,
                          !.phase = IF x # "none" THEN "Cancelling"
                                    ELSE IF builder.failing THEN "Failed" ELSE "Cancelled"] :
            x \in Polled(builder.batch)}
  ELSE IF builder.phase = "WaitingForGpu"
    THEN {[builder EXCEPT !.batch = x,
                          !.phase = IF x = "none" THEN "Ready" ELSE "WaitingForGpu"] :
            x \in Polled(builder.batch)}
  ELSE SomeRecorded \cup AllRecorded \cup RecordingFails

\* builderState: the state of the record after a pump that leaves b.
BuiltState(b) ==
  CASE b.phase = "Images" -> "Uploading"
    [] b.phase \in {"WaitingForGpu", "Cancelling"} -> "WaitingForGpu"
    [] OTHER -> b.phase

Uploadable(g) == state[g] = "ReadyForUpload" /\ Leased(g) /\ ~cancellation[g]

\* The records of the queue up to the first that is wanted are dropped, and
\* that one is built.
StartNext ==
  \E i \in 0 .. Len(gpuQueue) :
    LET dropped == {g \in Range(SubSeq(gpuQueue, 1, i)) : state[g] = "ReadyForUpload"}
        next == IF i < Len(gpuQueue) THEN gpuQueue[i + 1] ELSE None
    IN /\ \A j \in 1 .. i : ~Uploadable(gpuQueue[j])
       /\ next # None => Uploadable(next)
       /\ gpuQueue' = SubSeq(gpuQueue, i + 2, Len(gpuQueue))
       /\ builder' = [NoBuilder EXCEPT !.gen = next]
       /\ cancellation' = [g \in Generations |-> cancellation[g] \/ g \in dropped]
       /\ \E b \in IF builder = NoBuilder THEN {NoBuilder}
                   ELSE {x \in Built : x.phase \in {"Ready", "Cancelled", "Failed"}} :
            /\ state' = [g \in Generations |->
                           CASE g = b.gen -> BuiltState(b)
                             [] g \in dropped -> "Cancelled"
                             [] g = next -> "Uploading"
                             [] OTHER -> state[g]]
            /\ kept' = [g \in Generations |->
                          kept[g] \/ (g = b.gen /\ b.phase = "Ready")]

KeepBuilding ==
  /\ builder # NoBuilder
  /\ \E b \in {x \in Built : x.phase \notin {"Ready", "Cancelled", "Failed"}} :
       /\ builder' = b
       /\ state' = [state EXCEPT ![b.gen] = BuiltState(b)]
  /\ UNCHANGED <<cancellation, kept, gpuQueue>>

PumpRepository == KeepBuilding \/ StartNext

\* The wait for the environment a user chose ends.
UpdateEnvironmentLoading ==
  CASE pending # None /\ state'[pending] = "Ready" ->
         /\ PublishEnvironment(pending)
         /\ shown' = pending
         /\ pending' = None
    [] pending # None /\ state'[pending] \in {"Failed", "Cancelled"} ->
         /\ pending' = None
         /\ UNCHANGED <<shown, drawVars>>
    [] OTHER -> UNCHANGED <<pending, shown, drawVars>>

\* The first half of SceneRuntimeCoordinator::pump.
PumpEnvironments ==
  /\ AtInput
  /\ main' = "scene"
  /\ PumpRepository
  /\ UpdateEnvironmentLoading
  /\ UNCHANGED <<clockVars, retireAfter, lastUse, tableVars, cpuQueue, worker,
                 cancelling, scene, scenes, asking, world, retiredWorlds>>

----------------------------------------------------------------------------
(* The native scene.                                                       *)

\* What a step of the scene that requests nothing leaves alone.
requestVars == <<state, cancellation, retireAfter, tableVars, cpuQueue>>

\* resolveNativeSceneAssets: the environments of a document are collected; each of
\* them is requested in a step of its own, since the worker runs on.
ResolveScene ==
  /\ scene = NoScene
  /\ scenes < MaxScenes
  /\ \E global \in Environments \cup {None}, probes \in SUBSET Environments :
       LET named == (probes \cup {global}) \ {None}
       IN /\ generations + Cardinality(named) <= MaxGenerations
          /\ asking' = [global |-> global, probes |-> probes, left |-> named]
          /\ main' = IF named = {} THEN "scene" ELSE "ask"
  /\ scene' = [NoScene EXCEPT !.phase = "loading"]
  /\ scenes' = scenes + 1
  /\ UNCHANGED <<requestVars, cancelling, pending, shown, world, retiredWorlds,
                 drawVars>>

askFrame == <<clockVars, kept, lastUse, gpuQueue, builder, worker, cancelling, pending,
              shown, scenes, world, retiredWorlds, drawVars>>

\* The global environment is requested first; a probe that names it shares the
\* record.  The scene leases what it got.
RequestEnvironment(e) ==
  /\ main = "ask"
  /\ e = asking.global \/ asking.global \notin asking.left
  /\ \E R \in {Requested(Tables, e, FALSE)} :
       /\ StoreTables(R)
       /\ scene' = [scene EXCEPT !.bound = Append(@, R.got),
                                !.global = IF e = asking.global THEN R.got ELSE @,
                                !.probes = IF e \in asking.probes THEN @ \cup {R.got}
                                           ELSE @]
  /\ IF asking.left = {e} THEN main' = "frame" /\ asking' = NoQuestions
     ELSE main' = "ask" /\ asking' = [asking EXCEPT !.left = @ \ {e}]
  /\ UNCHANGED askFrame

\* The Catalog has no such environment: the bindings are dropped.
ResolveFails ==
  /\ main = "ask"
  /\ scene' = [NoScene EXCEPT !.phase = "failed"]
  /\ asking' = NoQuestions
  /\ main' = "frame"
  /\ UNCHANGED <<askFrame, requestVars>>

AskForEnvironments == ResolveFails \/ \E e \in asking.left : RequestEnvironment(e)

\* There is none, or it waits for its models or its environments.
SceneWaits ==
  /\ \/ scene = NoScene
     \/ scene.phase = "loading"
        /\ \A g \in Range(scene.bound) : state[g] \notin {"Failed", "Cancelled"}
  /\ main' = "frame"
  /\ UNCHANGED <<requestVars, cancelling, holderVars, drawVars>>

\* A model, an environment, the document or a block of the publication fails.
SceneFails ==
  /\ scene.phase = "loading"
  /\ scene' = [scene EXCEPT !.phase = "failed"]
  /\ main' = "frame"
  /\ UNCHANGED <<requestVars, cancelling, pending, shown, scenes, asking, world,
                 retiredWorlds, drawVars>>

\* A failed or cancelled scene cancels what it asked for, whoever else did.
FinalizeScene ==
  /\ scene.phase = "failed"
  /\ Cancelling(scene.bound, "drop scene")
  /\ UNCHANGED requestVars

\* Mutant: a scene without an environment leaves the lighting as it is.
Unlit_SceneLighting ==
  IF scene.global = None THEN UNCHANGED drawVars ELSE PublishEnvironment(scene.global)

SceneLighting == PublishEnvironment(scene.global)

\* publishNativeScene.
PublishNativeScene ==
  /\ scene.phase = "loading"
  /\ \A g \in Range(scene.bound) : state[g] \in {"Ready", "Retiring"}
  /\ SceneLighting
  /\ shown' = scene.global
  /\ retiredWorlds' = RetiredWorlds
  /\ world' = scene.probes
  /\ scene' = NoScene
  /\ main' = "frame"
  /\ UNCHANGED <<requestVars, cancelling, pending, scenes, asking>>

UpdateScene ==
  /\ main = "scene"
  /\ ResolveScene \/ SceneWaits \/ SceneFails \/ FinalizeScene \/ PublishNativeScene
  /\ UNCHANGED <<clockVars, kept, lastUse, gpuQueue, builder, worker>>

----------------------------------------------------------------------------
(* The frame.                                                              *)

\* The retired entries that are left: they are popped in their order, in which
\* their serials never decrease.
Uncompleted(entries) == {x \in entries : x.after > completed}

\* The records that leave the tables.
Collected(expired, unused) ==
  expired \cup {g \in unused : state[g] \in {"Failed", "Cancelled"}}

\* releaseUnused: collectRecord on every record.
ReleaseUnused ==
  LET unused == {g \in Held : ~Leased(g)'} \* by the worlds that are left
      retirees == {g \in unused : state[g] \in {"Ready", "Retiring"}}
      serial(g) == IF state[g] = "Ready" THEN submitted ELSE retireAfter[g]
      expired == {g \in retirees : serial(g) <= completed}
      collected == Collected(expired, unused)
  IN /\ cancellation' = [g \in Generations |->
                           cancellation[g] \/ (g \in unused /\ Loading(g))]
     /\ state' = [g \in Generations |->
                    CASE g \in retirees -> "Retiring"
                      [] g \in Held \ unused /\ state[g] = "Retiring" -> "Ready"
                      [] OTHER -> state[g]]
     /\ retireAfter' = [g \in Generations |->
                          IF g \in retirees THEN serial(g) ELSE retireAfter[g]]
     /\ kept' = [g \in Generations |-> kept[g] /\ g \notin expired]
     /\ active' = [e \in Environments |->
                     IF active[e] \in collected THEN None ELSE active[e]]
     /\ inactive' = inactive \ collected

\* SceneRuntimeCoordinator::collectRetired.
CollectRetired ==
  /\ retiredWorlds' = Uncompleted(retiredWorlds)
  /\ UNCHANGED <<pending, shown, scene, asking, world>>
  /\ ReleaseUnused

\* updateReflectionProbes, then collectRetiredLightingGenerations.
UpdateLighting ==
  LET probes == {g \in world : kept'[g]}
      old == IF probes = lighting.probes THEN {} ELSE {Retired(lighting)}
  IN /\ lighting' = [lighting EXCEPT !.probes = probes]
     /\ retiredLighting' = Uncompleted(retiredLighting \cup old)

\* beginFrame waits for a fence.
WaitForFence ==
  /\ main = "frame"
  /\ Observe
  /\ UNCHANGED <<recordVars, tableVars, queueVars, builder, worker, main, cancelling,
                 holderVars, drawVars>>

\* What is collected when the frame has begun; there is nothing to draw if the
\* swapchain is out of date.
PrepareFrame ==
  /\ main = "frame"
  /\ CollectRetired
  /\ \/ main' = "submit" /\ UpdateLighting
     \/ main' = "input" /\ UNCHANGED drawVars
  /\ UNCHANGED <<clockVars, lastUse, generations, queueVars, builder, worker, cancelling,
                 scenes>>

\* The frame draws with the current lighting generation.
EndFrame ==
  /\ main = "submit"
  /\ main' = "input"
  /\ \/ /\ Submit
        /\ lastUse' = [g \in Generations |->
                         IF g \in Drawn(lighting) THEN submitted' ELSE lastUse[g]]
     \/ /\ submitted = MaxSubmissions
        /\ UNCHANGED <<clockVars, lastUse>>
  /\ UNCHANGED <<state, cancellation, kept, retireAfter, tableVars, queueVars,
                 builder, worker, cancelling, holderVars, drawVars>>

----------------------------------------------------------------------------
(* workerLoop.                                                             *)

workerFrame == <<clockVars, cancellation, kept, retireAfter, lastUse, tableVars,
                 builder, main, cancelling, holderVars, drawVars>>

Working(at) == worker.at = at
Move(at) == worker' = IF at = "waiting" THEN IdleWorker ELSE [worker EXCEPT !.at = at]
Store(s) == state' = [state EXCEPT ![worker.gen] = s]

\* A record is taken and looked at; its state is stored in a later step.
WorkerTakes ==
  /\ Working("waiting")
  /\ main # "stopping"
  /\ cpuQueue # <<>>
  /\ LET g == Head(cpuQueue)
     IN worker' = [gen |-> g,
                   at |-> IF cancellation[g] \/ ~Leased(g) THEN "skip" ELSE "prepare"]
  /\ cpuQueue' = Tail(cpuQueue)
  /\ UNCHANGED <<workerFrame, state, gpuQueue>>

WorkerSkips ==
  /\ Working("skip")
  /\ Store("Cancelled")
  /\ Move("waiting")
  /\ UNCHANGED <<workerFrame, cpuQueue, gpuQueue>>

WorkerStarts ==
  /\ Working("prepare")
  /\ Store("PreparingCpu")
  /\ Move("load")
  /\ UNCHANGED <<workerFrame, cpuQueue, gpuQueue>>

\* The cache was read, or an exception was caught; then the flag is read.
WorkerLoads ==
  /\ Working("load")
  /\ IF cancellation[worker.gen] THEN Move("waiting") /\ Store("Cancelled")
     ELSE \/ Move("ready") /\ UNCHANGED state
          \/ Move("waiting") /\ Store("Failed")
  /\ UNCHANGED <<workerFrame, cpuQueue, gpuQueue>>

\* Mutant: the record is not queued for its upload.
Dropped_WorkerIsReady ==
  /\ Working("ready")
  /\ Store("ReadyForUpload")
  /\ Move("waiting")
  /\ UNCHANGED <<workerFrame, cpuQueue, gpuQueue>>

WorkerIsReady ==
  /\ Working("ready")
  /\ Store("ReadyForUpload")
  /\ gpuQueue' = Append(gpuQueue, worker.gen)
  /\ Move("waiting")
  /\ UNCHANGED <<workerFrame, cpuQueue>>

WorkerExits ==
  /\ Working("waiting")
  /\ main = "stopping"
  /\ Move("exited")
  /\ UNCHANGED <<workerFrame, state, cpuQueue, gpuQueue>>

Worker ==
  \/ WorkerTakes \/ WorkerSkips \/ WorkerStarts \/ WorkerLoads \/ WorkerIsReady
  \/ WorkerExits

----------------------------------------------------------------------------
(* The exit: the coordinator's shutdown, the wait for the device, and the  *)
(* destruction of worlds and renderer.                                     *)

ShutdownBegin ==
  /\ AtInput
  /\ main' = "stopping"
  /\ pending' = None /\ shown' = None
  /\ cancellation' = [g \in Generations |-> cancellation[g] \/ g \in Held]
  /\ UNCHANGED <<clockVars, state, kept, retireAfter, lastUse, tableVars, queueVars,
                 builder, worker, cancelling, scene, scenes, asking, world, retiredWorlds,
                 drawVars>>

\* The worker is joined; the tables go, with the assets nobody leases.
ShutdownFinish ==
  /\ main = "stopping"
  /\ Working("exited")
  /\ main' = "stopped"
  /\ builder' = NoBuilder
  /\ active' = [e \in Environments |-> None]
  /\ inactive' = {}
  /\ kept' = [g \in Generations |-> kept[g] /\ Leased(g)]
  /\ UNCHANGED <<clockVars, state, cancellation, retireAfter, lastUse, generations,
                 queueVars, worker, cancelling, holderVars, drawVars>>

\* Mutant: the frames in flight are not waited for.
Unwaited_DeviceWaitIdle ==
  /\ main = "stopped"
  /\ main' = "idle"
  /\ UNCHANGED <<clockVars, recordVars, tableVars, queueVars, builder, worker,
                 cancelling, holderVars, drawVars>>

DeviceWaitIdle ==
  /\ main = "stopped"
  /\ finished = submitted
  /\ completed' = submitted
  /\ main' = "idle"
  /\ UNCHANGED <<submitted, finished, recordVars, tableVars, queueVars, builder,
                 worker, cancelling, holderVars, drawVars>>

DestroyWorlds ==
  /\ main = "idle"
  /\ main' = "exited"
  /\ scene' = NoScene /\ world' = {} /\ retiredWorlds' = {}
  /\ lighting' = Dark /\ retiredLighting' = {}
  /\ kept' = [g \in Generations |-> FALSE]
  /\ UNCHANGED <<clockVars, state, cancellation, retireAfter, lastUse, tableVars,
                 queueVars, builder, worker, cancelling, pending, shown, scenes, asking>>

Exited ==
  /\ main = "exited"
  /\ UNCHANGED vars

----------------------------------------------------------------------------
GpuFinish ==
  /\ Finish
  /\ UNCHANGED <<recordVars, tableVars, queueVars, builder, worker, main, cancelling,
                 holderVars, drawVars>>

\* The graphics queue runs the builder's batches.
UploadRuns ==
  /\ builder.batch = "running"
  /\ builder' = [builder EXCEPT !.batch = "none"]
  /\ UNCHANGED <<clockVars, recordVars, tableVars, queueVars, worker, main,
                 cancelling, holderVars, drawVars>>

User ==
  \/ \E e \in Environments : Invalidate(e) \/ \E reload \in BOOLEAN : QueueEnvironment(e, reload)
  \/ \E g \in Generations : CancelEnvironmentLoad(g)
  \/ ClearEnvironment \/ CloseWorld
  \/ SupersedeScene \/ CancelSceneLoad
  \/ ShutdownBegin

MainLoop ==
  \/ PumpEnvironments \/ UpdateScene \/ AskForEnvironments
  \/ WaitForFence \/ PrepareFrame \/ EndFrame
  \/ Cancel
  \/ ShutdownFinish \/ DeviceWaitIdle \/ DestroyWorlds

Next == User \/ MainLoop \/ Worker \/ GpuFinish \/ UploadRuns \/ Exited

Spec == Init /\ [][Next]_vars

\* The main loop goes round, and the worker and the GPU's uploads make progress.
FairSpec ==
  /\ Spec
  /\ WF_vars(MainLoop)
  /\ WF_vars(Worker \/ UploadRuns)

----------------------------------------------------------------------------
(* Properties.                                                             *)

\* A record whose cancellation was asked for never becomes Ready, whatever
\* the worker and the builder were doing with it at that time.
CancelledStaysUnpublished ==
  [][\A g \in Generations :
        cancellation[g] /\ state[g] # "Ready" => state'[g] # "Ready"]_vars

\* What frames draw with is what the coordinator believes is published, over
\* loads that end late, scenes without an environment, clears and closed
\* worlds.
DrawnIsActive ==
  main \notin {"stopping", "stopped", "idle"} => lighting.env = shown

\* A lease keeps the GPU resources of a Ready record: the coordinator never
\* finds a pending environment that is Ready and has none.
LeasedReadyIsKept ==
  \A g \in Generations : Leased(g) /\ state[g] = "Ready" => kept[g]

Loaded(g) == state[g] \in {"Ready", "Retiring"}

\* Nobody but the builder, the last stage, makes a record Ready; before that a
\* record is in one queue, with the worker or with the builder, once.
Unpublished(g) ==
  \/ g \in Range(cpuQueue) \/ g \in Range(gpuQueue)
  \/ g = worker.gen \/ g = builder.gen

PlacesDistinct ==
  /\ IsInjective(cpuQueue) /\ IsInjective(gpuQueue)
  /\ \A g \in Generations :
       /\ g \in Range(cpuQueue) => g \notin Range(gpuQueue)
       /\ g = worker.gen => g \notin Range(cpuQueue) \cup Range(gpuQueue)
       /\ g = builder.gen => g \notin Range(cpuQueue) \cup Range(gpuQueue) \cup {worker.gen}

StagesAgree ==
  /\ \A g \in Generations : Unpublished(g) => ~Loaded(g) /\ g <= generations
  /\ \A g \in Generations : g > generations => state[g] = "Unloaded"
  /\ builder.gen = None => builder = NoBuilder
  /\ worker.at \in {"waiting", "exited"} => worker.gen = None
  /\ worker.at \in {"skip", "prepare", "load", "ready"} => worker.gen # None

\* A record that cancel() has read is still loading, or has ended without an asset.
CancelsAreRead ==
  main = "cancel" =>
    /\ cancelling.calls # <<>>
    /\ Head(cancelling.calls) <= generations
    /\ ~Loaded(Head(cancelling.calls))

\* While the program runs only records that never become Ready are flagged.
FlaggedIsUnpublished ==
  main \notin Exiting => \A g \in Generations : cancellation[g] => ~Loaded(g)

\* A record that a holder or a table has keeps its asset; a leased one does not retire.
AssetsAreKept ==
  \A g \in Generations :
    /\ Loaded(g) /\ (Leased(g) \/ g \in Held) => kept[g]
    /\ Leased(g) => state[g] # "Retiring"

\* What is drawn, has been drawn or belongs to a world was published.
DrawnIsLoaded ==
  \A g \in Generations :
    (\/ g \in Drawn(lighting) \cup world
     \/ \E l \in retiredLighting : g \in Drawn(l)) => Loaded(g)

\* Until the frames that drew with an environment have finished, the current lighting
\* or a retired one with a serial late enough has it.
UsesRemembered ==
  \A g \in Generations :
    /\ lastUse[g] <= submitted
    /\ \/ lastUse[g] <= completed
       \/ g \in Drawn(lighting)
       \/ \E l \in retiredLighting : g \in Drawn(l) /\ lastUse[g] <= l.after

\* A scene's choice is among what it has requested.
SceneIsBound ==
  /\ scene.global = None \/ scene.global \in Range(scene.bound)
  /\ scene.probes \subseteq Range(scene.bound)

\* Of the exit: nothing is asked for any more, the tables are empty once the worker
\* is joined, and no frame is in flight after the wait for the device.
ExitOrder ==
  /\ main \in Exiting => pending = None /\ shown = None
  /\ main \in {"stopped", "idle", "exited"} => Held = {}
  /\ main \in {"idle", "exited"} => completed = submitted
  /\ main = "exited" => lighting = Dark

\* The types, the agreement of renderer and coordinator on what is drawn, the
\* resources behind the leases, and what these rest on.
EnvironmentInvariant ==
  /\ TypeOK
  /\ ClockOrder
  /\ DrawnIsActive
  /\ LeasedReadyIsKept
  /\ PlacesDistinct
  /\ StagesAgree
  /\ CancelsAreRead
  /\ FlaggedIsUnpublished
  /\ AssetsAreKept
  /\ DrawnIsLoaded
  /\ UsesRemembered
  /\ SceneIsBound
  /\ ExitOrder

\* What was asked for is published or given up: when users stop asking, of which
\* the bound on the records takes care, the coordinator waits for nothing.
PendingSettles == []<>(pending = None)

\* Environments are destroyed after the last frame that drew with them has
\* finished, at exit too.
Deferred == INSTANCE DeferredRelease
              WITH Resources <- Generations,
                   status <- [g \in Generations |->
                                IF state[g] \notin {"Ready", "Retiring"} THEN "None"
                                ELSE IF Exists(g) THEN "Live" ELSE "Released"],
                   closing <- FALSE

ImplementsDeferredRelease == Deferred!ReleaseSpec

=============================================================================
