# Formal model of VulkanLab

VulkanLab is a Vulkan renderer with an editor and an asset pipeline.  Most of its
lines are GPU set-up, user interface, JSON and numerical work; what is hard to get
right and hard to test is the bookkeeping in between: which frame the GPU has
finished, which asset may be destroyed, which of several loads, threads and late
results wins, what a save or a cache mutation may overwrite.  This directory models
that bookkeeping in TLA+, model-checks it with TLC on small instances, and proves
the central facts with TLAPS for every value of the constants.

Source paths are relative to `src/` of the repository unless they start with
`doc/` or `tools/`.

## The system

### Threads and processes

| thread | code | shares |
|---|---|---|
| main | `Application::mainLoop` (`app/Application.cpp`) | everything |
| model worker | `AssetRepository::Impl::workerLoop` | records' atomics, CPU and GPU queues |
| scene worker | `SceneLoadManager::workerLoop` | the tasks' atomics, `pendingNative_` |
| environment worker | `EnvironmentAssetRepository::Impl::workerLoop` | records and their tasks |
| import supervisor | `AssetImportManager` (and two pipe readers per child) | tasks, active task |
| model copy | the future of `SceneWorkflowController::modelImport_` | its result |
| capture encoder | `CaptureService::Impl::workerLoop` | jobs and results |
| control pipe | `NamedPipeServerWin32` | command queue |
| GPU queue | `vkQueueSubmit`, fences | frame slots, upload batches |
| asset tool processes | `tools/vulkan_lab_asset_tool` | the derived-asset cache and its index |
| other programs | whoever writes a scene file | the files |

One iteration of the main loop drains the command queue, `pump`s the scene runtime
(repositories, environment selection, scene load), calls `FrameSync::beginFrame`,
observes completed serials, `collectRetired`s, lets the frame graph prepare, records
and submits the frame, and recreates the swapchain if it is out of date.
`Application::shutdown` stops the managers and joins their threads, waits for the
device, marks every submission completed, collects what is left and destroys the
rest in order.

### Components, their state, their promise

| component | state | operations | what makes it correct | module |
|---|---|---|---|---|
| FrameSync + SubmissionSerialTracker | fences, slot serials, next and completed serial, swapchain flags | begin/end frame, wait for all, recreate | a reported serial is finished; slots are free when reused; no wait without a signal | `FrameSync` |
| AssetRepository | records per (model, profile), generations, leases, queues, worker, builder | request, reload, invalidate, pump, releaseUnused, shutdown | an asset outlives its last lease and last frame; none is lost; a load ends | `AssetRepository` |
| ModelGpuBuilder, IncrementalUploadQueue | phase, indexes, slots with staging, commands and fences | pump, cancel, destroy; acquire, stage, submit, poll | what is published was uploaded; recorded commands refer to live resources | `ModelUpload`, `UploadQueue` |
| EnvironmentAssetRepository, lighting generations | records with a task each, queues, builder; the coordinator's choice; what frames draw | request, cancel, invalidate, pump, publish, clear, collect | renderer and coordinator agree; environments outlive their frames; waits end | `EnvironmentAssets` |
| SceneLoadManager, SceneRuntimeCoordinator | tasks, history, latest task, current and retired worlds | request, cancel, refresh, update, publish, close, collect | the newest request wins; a load publishes or leaves the world alone; worlds outlive their frames | `SceneLoad` |
| CaptureService, CaptureTaskQueue | tasks, buffers in flight, encode jobs | enqueue, cancel, copy, submit, read back, encode, publish | a completed task has its file; every task ends | `CaptureService` |
| AssetImportManager | tasks, history, supervisor thread, child process | request, cancel, take, events, shutdown | a task is somewhere until it ends; a cancel frees the worker | `AssetImport` |
| AssetLoadCoordinator, SceneWorkflowController | entries, statuses, consumers of a task | choose, import, cancel, pump, rebuild, close | only the latest choice is loaded; shutdown ends | `SceneWorkflow` |
| RenderGraph, RenderResourcePool | passes, barriers, tracked states, residency, descriptor sets | prepare, execute, resize, toggle features | accesses are ordered; sets are written when used; memory in flight is kept | `RenderGraph`, `GraphCompiler` |
| SceneEditorSession, RuntimeWorld, SceneDocument | undo stack, saved state, continuous edit, bindings, scene file | execute, drag, undo, redo, save, Save As, reload | not dirty means saved; undo restores; no foreign version is overwritten | `SceneEditor` |
| probe capture (EditorController) | phase, backup, source file, Catalog entry | begin, faces, bake, load, roll back | saved scenes refer to existing environments; a capture ends | `ProbeCapture` |
| ArtifactIndex, CacheMutationLock, pruner, bake | manifests, blobs, index, a named mutex | bake, prune, rebuild, load, save | manifests are whole; records are honest; merges lose nothing | `ArtifactCache` |
| RuntimeCommandDispatcher, NamedPipeServer | command queue, pipe | push, drain, answer, stop | a command is executed at most once | not modelled |
| MaterialSystem, ResourcePool, DescriptorAllocator | bindless slots, handles with generation | acquire, release, collect | a slot in flight is not rewritten | not modelled |
| SceneCatalogStore, ModelImportService | files, stamps | update, import | no update is lost | not modelled |

Renderer, passes, pipelines, shaders, visibility, glTF preparation, editor panels,
Vulkan wrappers, window, logging and the command-line tools' own logic are
sequential, numerical or platform code without a protocol of their own;
`PROJECT.json` lists them with the reason each is left out.

### How they interact

* `FrameSync` hands out one number, the submission serial.  Model assets,
  environments, worlds, graph resources and captures all follow the pattern
  "remember the last submitted serial when the thing is given up, destroy it when the
  completed serial reaches it".  `SubmissionClock` is that number and
  `DeferredRelease` that pattern.
* `SceneLoadTask`s lease `ModelAsset` and `EnvironmentAsset` records; worlds lease
  them after publication; a lease is an atomic counter in the record that worker
  and pump read without a lock.
* Workers publish results by storing atomics of shared records; the main thread
  polls them once per frame.
* The controller starts an asset tool per import; tool processes and the editor meet
  in the cache directory, where only the tools take the mutex.
* A scene file has two writers, the editor and anybody else; each compares a stamp
  before it replaces the file.

### What is hard

Late stores of a worker after a cancellation; a request that joins work which
another thread is abandoning; revival of something that is waiting to be destroyed;
deferred destruction under failed acquires, resizes and a shutdown in the middle of
everything; loads that supersede each other; a tool that hangs or is killed between
two file operations; a file written between a stamp and a read; state dropped for
all images because one changed.  `PROJECT.json` lists each hazard at the line where
it bites, with the property that watches it or the reason why none does.

## Modules

| module | what it is | extends or instantiates |
|---|---|---|
| `SubmissionClock` | the three serials (submitted, finished by the GPU, reported completed) and the steps that move them | |
| `DeferredRelease` | abstract: resources drawn by frames, released only after their last frame finished | `SubmissionClock` |
| `FrameSync` | the frame loop and the tracker | implements `SubmissionClock` |
| `AssetRepository` | model records from request to release | `SubmissionClock`; implements `DeferredRelease` |
| `SceneLoad` | scene loads and worlds | `SubmissionClock`; implements `DeferredRelease` |
| `CaptureService` | captures from request to file | `SubmissionClock` |
| `UploadQueue`, `ModelUpload` | the upload ring as operators; one build over it | `ModelUpload` extends `UploadQueue` |
| `AssetImport`, `SceneWorkflow` | the import queue; the controller over it | `SceneWorkflow` extends `AssetImport` |
| `EnvironmentAssets` | environments, the coordinator's choice and the lighting generations | `SubmissionClock`; implements `DeferredRelease` |
| `GraphCompiler`, `RenderGraph` | `RenderGraphCompiler::compile` as operators; frames over the compiled graph | `RenderGraph` extends both `GraphCompiler` and `SubmissionClock` |
| `SceneEditor`, `ProbeCapture` | the editing session, its file and world; a probe capture inside it | `ProbeCapture` extends `SceneEditor` |
| `ArtifactCache` | the cache shared by tools and editor | |
| `MC*` | instances for TLC | |
| `FrameSyncProofs`, `AssetRepositoryProofs`, `EnvironmentAssetsProofs`, `SceneLoadProofs`, `CaptureServiceProofs`, `SceneEditorProofs`, `GpuWorkProofs`, `AssetToolProofs` | theorems | the module of their name; `SceneEditorProofs` extends `ProbeCapture`, and so speaks of both; `GpuWorkProofs` speaks of `ModelUpload` and `RenderGraph`, `AssetToolProofs` of `ArtifactCache`, `AssetImport` and `SceneWorkflow` |

`PROJECT.json` ("map") names the source lines of every definition.  An action is one
call, handler or locked section of the code; where the code reads shared state,
releases it and acts later, the action is cut there and nowhere else.
Operators marked "Mutant" are altered forms of the definition below them, a bug
that the code might have had; no specification uses them.  With each of them in the
place of the original, the property named for it in `PROJECT.json` is violated.

### FrameSync

State: `fence[f]` and `frameSlotSerials[f]` per slot, `currentFrame`, the tracker's
`nextSerial` and `completedSerial`, the two flags of the swapchain and the window,
`phase` (where the main loop is).  A fence is modelled by the serial whose completion
signals it, or `Unsignalled` between reset and submission; the GPU is `gpuSubmitted`
and `gpuDone`, because one queue finishes submissions in order.  Actions: `BeginFrame`
(wait, complete the slot, acquire, reset), `BeginFrameOutOfDate` (the acquire fails
after the wait and before the reset), `EndFrame` (submit, record the serial, present,
next slot), `RecreateSwapChain` (wait for the device, complete all), `NextIteration`
and `WindowResized`.  Images, semaphores and command buffers are data.

### AssetRepository

State per record (a generation of a key): `state`, `cancellation`,
`retireAfterSerial`, and `asset` (None, Live, Released).  Per repository: `active_`,
`inactive_`, the CPU and GPU queues, the worker, the builder.  `lease[h]` is what a
holder leases, so the consumer counter is the number of holders of a record; it is
exact because handles are copied and dropped by the main thread.  The worker's
decision to skip a record and its store of the result are separate steps, as in the
code, so that requests interleave with them.  `ReleaseUnused` is the whole pass over
both tables.  The builder is seen from outside; `ModelUpload` is its inside.

### SceneLoad

State per task: kind, the atomics `state` and `phase`, the cancellation flag, and what
its leases say together (`none`, `loading`, `ready`, `failed`).  A world is named by the
task that published it.  The worker's stores to a task are kept in a small queue and
performed one at a time, because the code performs them without the manager's mutex;
for the same reason the main thread's update of a native task is cut into
`RefreshNative`, `NativeEnds` or `NativeGoesOn`, and `AdvanceNative`, one for each time
it reads the atomics again.  A failed construction of the world and blocked
publication (unsaved edits) are nondeterministic.  Two variables are history: `failed`, the
tasks that an exception of the update ended, and `overtaken`, the cancelled tasks that a
store of the worker made active between the refresh of an update and its look at the state.

### CaptureService

State per task: `state`, `cancelled` (the flag that the task's job shares) and `output`,
the path it writes to; of the queue, `known` and `queue`; of the service, `runtimes`,
`active` (the task whose copy is in a frame, and that frame's serial), `jobs`,
`results`, the worker and the files.  A step of the main thread is one call:
`Request`, `Cancel`, `PrepareFrame`, `FrameSubmitted`, `Update`, `UpdateAfterAllFrames`,
`ShutdownBegin`, `ShutdownFinish`.  Between `PrepareFrame` and `FrameSubmitted` the
frame is recorded, and only an exception, which shuts the service down, gets in
between.  The worker takes a job, looks at the flag, publishes, looks again, and
reports, each in a step of its own.  Any of encoding, writing and publishing may fail.

### UploadQueue and ModelUpload

A slot is its staging offset, its capacity, the resources its commands refer to, and
whether its batch is in flight and its fence signalled.  `UploadQueue` gives `acquire`,
`stage`, `submit` and `poll` as operators on a queue; `ModelUpload` is the builder's
pump: textures, meshes, the wait for the GPU, materials.  `step` says where a pump is; it takes a
step for each resource it records and each time it looks at the fences, because the GPU runs
meanwhile, and may end after each of them, which stands for any budget.  A constructor
may fail before anything is staged or as late as possible, which is where what it
destroys and what is recorded differ.  Cancellation drains the batches in flight.

### AssetImport and SceneWorkflow

`AssetImport` is the queue with its history and coalescing by key, the supervisor that
stores a task's state without the mutex, `cancel` cut between its read and its stores,
and the tool, which reports a manifest, exits with or without success, or hangs.
`SceneWorkflow` adds what the user does (choose, import, cancel, change the limit,
reload the catalog, add a model), the consumers that wait for a task with the
generation of their operation, the pump that looks at ended tasks, and the shutdown.
`processAssetTasks` goes through the whole history in one call; it is stated by the sets of
the tasks it finds ended (`Ended`), of the imports among them, whose entries it inspects and
whose consumers it drops (`EndedImports`, `Processed`), and of those it loads from
(`Loading`).  It goes from the newest task to the oldest and a later load supersedes, so
the load that is left is that of the oldest task.  `wanted`, `moved` and `load` are history that
the properties speak about.

### EnvironmentAssets

The main thread is `main`, the stage of its loop; the worker and `cancel` are cut where
they read and then store without a lock.  `pending` and `shown` are the coordinator's
choice, `scene` the native load that may select an environment, `world` the current
world's probes, `lighting` and `retiredLighting` what the renderer draws or has drawn.
An environment's GPU resources exist as long as its record or a lighting generation has
them, so two counters at two places release them.  A native scene asks for its environments
one after the other (stage "ask", `asking`): the worker may take one while the main thread
asks for the next, and an environment that the Catalog lacks fails the scene, whose bindings are
dropped.  The builder is seen from outside; a batch it submits may have run when it polls.
`EnvironmentLoadManager` is never instantiated by the program and not modelled.

### GraphCompiler and RenderGraph

`GraphCompiler` translates the compiler: active nodes, edges by RAW, WAW and WAR,
explicit edges, order.  `RenderGraph` runs frames: `PrepareResources` (compile, residency, the
passes' callbacks that free and write descriptor sets), `Execute` (transitions with the
tracked states; every access is recorded with what it waits for and what it sees),
`Resize`, feature switches.  `CompiledGraph` is what the compiler gives for a set of features, and
`Compiled` the cache of them.  `races` collects what went wrong in an execution.  The instance
has ten passes of the renderer which share images in the ways that matter.  `PassAssumption`
says what passes owe to the pool (see Proofs); the ten satisfy it.

### SceneEditor and ProbeCapture

A document maps entities to contents that the properties tell apart; `session` is open or
not and has the saved document, its stamp and the document an open continuous edit began
with, `stack` the commands, the cursor and the state ids, `disk` the file with its stamp,
`call` the file access a save or reload has come to, `load` a scene loading meanwhile.

`ui.held` is what the user holds, `ui.editing` the flags of the Inspector, one for each
component.  A widget opens the edit at its first change and raises the flag.  Letting it go commits
and lowers the flag only if it is the last of its group (`LastOfGroup`), because
`endContinuousIfNeeded` asks ImGui about the last item drawn; letting go of another one
(`GroupedRelease`: "inner cone" stands for those), or losing the widget (`WidgetLost`), leaves edit and flag as they are.
Until something ends that edit, commands are refused, components are set in place (`SetInPlace`), and undo, redo,
save, reload and Save As go on.  A flag that is up without an edit (a session was attached meanwhile) keeps the next
drag from opening one: `setTransform` then changes the world alone, the other setters make a command of each change.

`ghost` is history: the version of the file the session knows (`base`), a write between two file
accesses of one call (`raced`), a world that left the history behind (`adrift`: undo or redo while an edit
was open, or a transform dragged under a stale flag), a save or reload in the midst of an edit
(`midway`).  `ProbeCapture` adds a capture with the phases of `updateReflectionProbeCapture`, each of which may fail
and roll back.

### ArtifactCache

A manifest is a version, which stands for its file stamp, and its blobs.  A tool process
has a job (bake, prune, rebuild), waits for the mutex, and steps through its file
operations; it may die after each, or while it waits.  The editor's `ArtifactIndex` loads, queries
(stamp, then read, in two steps), records telemetry and saves; `SavedIndex` is the merge under the
index's own mutex, and one step for that reason.

## Runs

| run | instance | what it shows |
|---|---|---|
| `frame_sync` | 3 slots, 6 submissions | the inductive invariant (serials, slots and fences are consistent, no wait hangs); `SubmissionClock` is implemented; an out-of-date swapchain is recreated unless the window is minimized |
| `asset_repository` | 2 keys, 2 holders, 2 records, 1 submission | the inductive invariant (release after last use, leases keep assets, queues are consistent); unused assets go; loads end; `DeferredRelease` is implemented |
| `scene_load` | 2 loads, history of 2, 1 submission | worlds and leases are accounted for; superseded loads hold nothing unless an exception ended them; previews end; cancellations end as Cancelled or Failed for good, but in one window; `DeferredRelease` is implemented |
| `capture` | 3 captures, 2 active, history of 1, 2 paths, 4 submissions | captures are where their state says; transitions are legal; buffers outlive the copy; every capture ends |
| `asset_workflow` | 2 models, 1 to add, 1 scene, 2 limits, 2 imports, history of 1, 2 loads, 1 change | nobody waits for an import nobody runs; a load is the one chosen last; a cancel frees the worker; shutdown ends |
| `gpu_upload` | 2 slots of 4 bytes, alignment 2, 17 models | published models are uploaded, reservations hold, commands refer to live resources, builds end |
| `environment` | 1 environment, 2 records, 1 native scene, 1 retired lighting, 1 submission | renderer and coordinator agree; cancelled records stay unpublished; `DeferredRelease` is implemented; waits end |
| `render` | 10 passes, 3 features, 2 frames in flight, 1 resize, 4 submissions | sets are neither missing nor freed in use; accesses are ordered; memory in flight is kept |
| `render_content` | the same | counterexample, see findings |
| `scene_editor` | 1 entity, 3 widgets (two of one group), 3 commands, stack of 2, 3 file versions | the history restores, also after edits left open; clean means saved; foreign versions survive; bindings are requested |
| `probe_capture` | 1 probe, a widget that leaves its edit open, 2 commands, stack of 1, 2 file versions | sources and references exist; a capture ends |
| `artifact_cache` | 2 assets, 2 blobs, 2 tools, 2 manifests, 1 telemetry write, 1 loss of the index | whole manifests, honest records, merges that lose nothing |

### Bounds

The code has `MAX_FRAMES_IN_FLIGHT` = 2; three slots show that nothing depends on two,
and six submissions let every slot be reused twice, with a recreation between any two
frames.  Two records are one and its replacement, which is all that reload and
invalidation relate; two keys let one load wait behind the other in each queue; two
holders are one that joins and one that leaves.  A resource's fate depends only on
whether its last use is before or after the completed serial; one submission separates
the two.  The invariants and refinements are proved for every bound in all modules, but for
`AccessesAreOrdered`; elsewhere the run's size matters only for liveness and for finding what
does not hold.  Two loads are the one shown or
superseded and the newest (three exceed what TLC finishes with liveness).  Three captures
are one that is encoded, one in a frame and one that waits or was cancelled; two places
and a history of one fill both; the fourth submission is a frame without a capture.  Two
imports are one that runs and one that waits or was superseded; two models and a scene
let the removal of the first move the second.  With slots of 4 bytes one resource fits,
two may fit, one is larger than a slot, and models have more batches than slots.  For
the environments a reload gives the second record; the scene may want the same one,
with a probe or without.  Four submissions let an image shared by two frames be used,
given up, retired and used again after a resize.  A stack of two with three commands
overflows; three file versions are the first, one of the editor and one of another
program.  Of the three widgets two share a group and a flag, the third has its own; a widget is lost only before
the first command (`MaxLostAfter` = 1), while one of a group is let go at any time.  A load in flight, a world that left
the history behind and a file written between two accesses are followed until the last command is made (the
constraint `Explored`; the run has no liveness).  Beside a capture the gizmo is left alone (`MaxGrabAfter` = 0): the widget
that leaves its edit open already does to it what an open edit can do.  Two tools, two assets and two blobs, shared or not, are one that bakes while
the other prunes; two manifests are of two assets or one and its re-bake.  Symmetry
is used only in `artifact_cache`, whose properties speak of single steps.  Serials are
64-bit in the code and not wrapped.

Deadlock counts as an error in every run but the two of `MCRenderGraph`, where frames
stop at the bound of submissions.  Elsewhere programs stop only in the state that stands for
the exit, by an explicit stuttering step.

### Fairness

The main loop goes round without waiting for anything but a fence, so its steps are
weakly fair (`MainLoop`, `Pump`, `ReleaseUnused`, `ObserveCompletion`, `Update`,
`PrepareFrame`, `FrameSubmitted`); in `SceneLoad` an update under way disables observation
and collection for a moment, and in `ProbeCapture` a file operation disables the frame's
update, so these are strongly fair: every iteration performs them.  A worker whose
condition holds is scheduled (`Worker`), the GPU finishes what it is given (`GpuFinish`,
`GpuRuns`, `UploadRuns`), a repository seen from outside settles (`Settle`), a copy of finitely
many files ends, and a shutdown that began goes on.  Nothing is assumed of the user, of the
asset tool (which may hang: `CancelFreesWorker` and `ShutdownEnds` hold all the same), of other
programs, or of how often tools die; `ArtifactCache` states no liveness, since Windows promises no
order among the waiters of a mutex.

### What the properties exempt

Each exemption is a behaviour the code really has, so it is named here.  `IInv` and
`ImplementsDeferredRelease` of `AssetRepository` and `SceneLoad` speak of the time before the exit's
final destruction (`closing`).  `LoadsTheChosenEntry` exempts imports during which the catalog
was rebuilt, because consumers keep an index.  `RecordedIsAlive` exempts devices with
ray queries and the exit.  `SupersededHoldsNothing` exempts native loads that an exception of the update ended
(`failed`), not cancelled ones: `finalizeLoad` releases only what succeeds, so these keep their leases while the history knows them.
`CancelledStaysSettled` counts as settled Cancelled and Failed, and Completed in one case only
(`overtaken`); it lets go of tasks that are superseded and of the shutdown.  `HistoryChain` and `CleanMeansSaved` are given up after undo or
redo while an edit is open, and after a transform dragged under a stale flag (`adrift`), `CleanMeansSaved` also after a save or
reload in the midst of an edit (`midway`), each until the history starts afresh or, for the latter, the next save.  An edit that a grouped or
vanished widget leaves open is not exempt.  `BindingsRequested` exempts Save As, and an environment picked in place while an edit
is open.  `ForeignWritesKept` exempts a file written between two file accesses of one
call, `RecordsKept` the editor's rebuild of the index, `CaptureSettles` captures that wait in vain.
`UsedIsBound` speaks of passes that write an image.  The section after the next says what happens in
these cases.

## Findings

`ContentIsKept` (run `render_content`, `render/graph/RenderGraph.cpp:1560`).  Whenever any image of
the graph is created or destroyed, `imageStates_` is cleared for all; the next transition
of the DDGI atlas starts from its initial layout, which is UNDEFINED, so the barrier may discard
the accumulated probes.  The comment at `render/graph/RenderResourcePool.cpp:1184` says that
the atlases accumulate across executions.

## Other divergences met while modelling

Behaviours of the code that its documents or comments do not describe so, or that a reader may
not expect.  The models contain them; no run states them as a property.

* `scene/AssetRepository.cpp:231`: a request joins a loading record also when worker or pump
  has decided to abandon it, and then gets a cancelled load.
* `scene/AssetRepository.cpp:499`: at exit unleased assets are destroyed before the device is idle
  (`doc/architecture/resource_loading.md:58` says that releases are deferred).
* `scene/SceneLoadManager.cpp:288`: the worker's stores overwrite a cancellation, and a cancelled native
  load is published although `doc/architecture/resource_loading.md:169` says 被取消或过期的任务不能覆盖当前 World.  This has two
  windows.  If the last store falls between the refresh of an update, which has found the load cancelled, and its look
  at the state, and what the scene needs is ready, the load ends as Completed (`overtaken`; without that exemption TLC finds
  `CancelledStaysSettled` violated).  If an update comes between the stores of lines 287 and 288, a load that was
  finalized as Cancelled goes on by its phase; its state stays or becomes Cancelled again, but its world may be shown.  At line 289 a late `ReadyForUpload` can overwrite `Failed`, and the load is never reported.
* `diagnostics/CaptureService.cpp:565`: a capture cancelled after the worker's last look leaves its
  file (`doc/guides/runtime_control.md:159`).  `CaptureTaskQueue.cpp:124`: the history may forget
  the task that has just ended, so a polling client never sees it terminal (line 146 there).
* `assets/AssetImportManager.cpp:210`: `cancel` may store `Cancelling` over a terminal state; the task stays
  so for ever, and later requests with its key join it.
* `render/geometry/Mesh.cpp:92`: with ray queries, a `Mesh` whose acceleration structure fails
  destroys buffers that recorded copies refer to.
* `render/graph/RenderGraph.cpp:1519`: after a resize only the active passes rewrite their sets; one
  without an image of its own that is switched on later runs without.
* `render/graph/RenderGraph.cpp`: the Transparent pass reads a depth image after a barrier to
  SAMPLED_READ only (`races` has "not visible"); barriers after the tracker was emptied lose WAR
  conflicts ("lost").
* `editor/panels/InspectorPanel.cpp:46`: `endContinuousIfNeeded` asks about the last item drawn, so letting go of an
  earlier widget of a group (Inner Cone at 429-442, FOV and Near at 761-776, Ambient Color at 798-805,
  Environment Intensity at 839-851) commits nothing and leaves the edit open, with nothing held, until a last widget is
  released or the gizmo ends it (`doc/architecture/scene_documents.md:137` says that a drag commits one command on release);
  so does a widget that vanishes during its edit.  Meanwhile every edit that is a command is refused without a word; an
  environment picked for a probe is set in place and its binding never requested; the gizmo, grabbed and let go without a change or
  cancelled, throws the edit away.  The guards of undo and redo (`editor/EditorController.cpp:2082-2087`, 2199-2203), save and reload
  do not look at an open edit: undo then leaves the command the edit will make with a `before` that is no longer what came
  before it; after a save the session may be clean with another document than the file's.  When a world is attached
  meanwhile, the flag stays up without an edit, and then a dragged transform makes no command at all, a dragged light one per frame.
* `scene_data/SceneDocument.cpp:719`: a stamp taken after parsing may be that of a newer version;
  `saveAtomic` has windows between its stamp, its check and its replacement (1138, 1141, 1155).
* `editor/EditorController.cpp:581`: the answer of `execute` is ignored, and the capture then waits for a
  binding that nothing will bring.  A failed load's rollback may remove the Catalog entry while an
  unsaved document refers to it; a recapture keeps the old environment asset.  Save As (1229)
  drops Loading bindings without running the callback.  `app/Application.cpp:376` looks only at
  `dirty()`, not at an open edit.
* `assets/ArtifactIndex.cpp`: the editor's `loadOrRebuild` takes no cache mutex and may replace an importer's newer
  record (`resource_loading.md:116`); `bindSceneValidation` queries without the lock; a reader with
  an older manifest may lose aged blobs to a prune after a re-bake; the editor's record
  stays stale when a tool dies between the manifest and the index.

## Proofs

`FrameSyncProofs`, assuming only that there is a slot and that the bound on submissions is
a natural number.  `InvariantHolds` is `Spec => []IInv` with
`IInv == TypeOK /\ FrameInvariant`; `CompletedAreFinished`, `SlotsReusable`, `LagIsBounded` and
`WaitsTerminate` follow from it.  That completed serials are finished is not inductive by itself:
`BeginFrame` reports the serial of its slot, and that this serial is finished follows from what the slot's
fence waits for.  The bound on the lag needs the age of a slot (`Age`): counted from the slot after
it, a slot's serial is as old as its distance from the current one.  `CompletedMonotone` is an action
property from the same invariant, and `FrameSyncImplementsClock` maps every step to a step of
`SubmissionClock` or to a stutter.

`AssetRepositoryProofs`, for any sets of keys and holders and any bounds.  `InvariantHolds` is
`Spec => []IInv` with `IInv == TypeOK /\ PlacesInvariant /\ AssetInvariant`: where a record is (queue,
worker, builder) decides its state, without duplicates; an asset that was released is out of
everybody's reach, and a retiring one has not been drawn since the serial it waits for.
`ReleaseIsSafe` needs the last clause: between retirement and release a request may revive the
record, and only the fact that the serial is taken again when it retires again makes the comparison
sound.  `LeaseKeepsAsset` needs the link between states and assets.
`RepositoryImplementsDeferredRelease` maps every step to a step of `DeferredRelease`.

`AssetToolProofs`, for any assets, blobs and tools, any bounds, and any interleaving of deaths; the assumptions
are that the bounds are natural numbers and that `NoOne` is no tool.  `CacheInvariantHolds` is
`Spec => []CacheInvariant`: that a manifest's blobs exist (`ManifestsStayWhole`) is not inductive, because a
prune deletes by a scan it made before, and a bake publishes by a plan it made before.  `JobSound` says
why neither is stale: only the holder of the mutex is past waiting, the blobs a prune has left to
delete are in no manifest, those a bake needs exist or are still to be made.  A dead owner's
mutex passes on, and what it left half done satisfies the invariant, which is what the case of `Die`
proves.  `RecordsStayHonest` needs that stamps grow (`RecordsInvariant` in the proof module): a record's stamp is at most the
manifest's, so a stale record never carries the current one, although the editor reads after it stamps.

`SavesLoseNothing` (`RecordsKept`) is a property of steps: a merging save keeps what the file has, and a
tool's rebuild, which replaces it, is current when it is written (`RebuiltCurrent`), because only the
holder of the mutex publishes.

The same module goes on with the import workflow, for any finite catalog that has a model, any profiles and any
bounds; the assumptions are that the new model and the scene are none of the catalog's models, and that
`NoTask` is none of these.  `WorkflowHolds` is `WorkflowSpec => []WorkflowInvariant`.  That
somebody runs every task that has not ended (`NoTaskForgotten`) needs where tasks are
(`QueueSound`, `WorkerSound`), and that `cancel` acts on what it read before the task moved on.  That an entry
shown as importing has an import which the pump has still to see (`ImportingIsCurrent`) is not inductive: a
pump inspects the entries again only of imports for the present limit, so statuses have to be those of the present
entries and limit (`StatusIsShown`), and a task that was seen must not become live again (`ProcessedIsDone`).
`ChosenEntryIsLoaded` is the step property `LoadsTheChosenEntry`.  It needs that a consumer of
the newest generation waits for the entry chosen last (`ConsumersOfTheChoice`) and that indexes
mean the same entries until the catalog is rebuilt (`EntriesStayInPlace`); and, where a copy ends and a pump
follows in one step, that the import it has just joined has not ended, so nothing is loaded from it yet.

`SceneLoadProofs`, for any number of loads and any length of the history.  `LoadsStayConsistent` is
`Spec => []LoadInvariant`.  Its parts need each other: that a world has one owner and is published once
(`WorldsAccounted`, `EndsOnce`) needs that the main thread acts on the latest task only (`LatestOnly`) and that the
worker has performed all its stores before a task reaches the phases of the main thread (`WorkerFirst`);
that a phase which waits for leases has them (`LoadingHoldsLeases`) needs `WorkerFirst` too.  An ended task holds leases only if an exception of the update ended it, whatever the worker stores afterwards (`EndsOnce`);
`SupersededReleases` follows from that and from what a request releases of its predecessor.  A late store of the
worker is harmless to worlds because nothing but the main thread's steps, on the latest task, publishes.
The retired worlds leave their queue from its front; `PrefixSize` and the lemmas after it say what is left.
`WorldsImplementDeferredRelease` maps every step to a step of `DeferredRelease`.

`CaptureServiceProofs`, for any number of captures, paths and limits.  `CapturesAccounted` is
`Spec => []CaptureInvariant`: a capture is in exactly one of queue, frame, buffers, encoder and results (`TasksAccounted`),
in the order of the pipeline (`PipelineOrdered`: in the order of their requests, each of them
once), and its state is that of its place (`StagesAgree`), but for the
cancellation.  From these, step by step, `TransitionsNeverThrow` and `BuffersOutliveCopies`.

`SceneEditorProofs`, for any entities and depth of the stack.  `HistoryRestoresDocuments` is
`EditorSpec => []EditorInvariant`.  That a session which is not dirty shows the saved document
(`CleanSessionIsSaved`) is not inductive: `dirty()` compares state ids, so the invariant orders the ids along the
stack (`IdsOrdered`), says which document each id names (`DocumentsNamed`) and that each command leads from one
document to the next (`HistoryChain`).  All of it speaks of the document an open edit began with, so that it
holds while edits are left open, whoever ends them (`EditsAreHeld` says that somebody can).  `SavesKeepForeignWrites` needs which versions of the file the session can
know (`VersionsKnown`); `EveryBindingIsRequested` is a property of steps.

The same module goes on with `ProbeCapture`.  `CapturesKeepTheSession` shows that a capture, its rollbacks and the removal of
probes keep the invariant of the session beside which it runs.  That saved scenes refer to existing
environments (`SavedScenesStayLoadable`) needs that a save which is under way writes a document that will be
loadable (`PendingSaveLoadable`) and that the capture keeps the source it may have to roll back to (`CaptureHasSource`).

`EnvironmentAssetsProofs`, for any environments, records, scenes and retired lightings.
`EnvironmentsAgree` is `Spec => []EnvironmentInvariant`.  What is drawn is what the coordinator believes
(`DrawnIsActive`) follows the stages of the main loop.  That a leased Ready record has its resources
(`LeasedReadyIsKept`) needs the tables, and that a record is in one place (`PlacesDistinct`) with the stage of that place
(`StagesAgree`).  The flag of a cancelled record is never lowered, and `cancel()` stores it after it has read the
state; that the state it read is still one before publication when it stores (`CancelsAreRead`,
`FlaggedIsUnpublished`) is what `CancelledStayUnpublished` rests on.
For the refinement, `UsesRemembered` says that the lighting generations remember every use that may still run.
`EnvironmentsImplementDeferredRelease` maps a pump that publishes to `Create`, a frame to its uses, and what
collects to a release of what is given up.

`GpuWorkProofs`, for any models, number of slots, capacity and alignment.  `UploadsAreWhole` is
`Spec => []UploadInvariant`.  That a published model was uploaded is not inductive.  `RingSound` says of every slot what its
fence, its batch and its commands have to do with each other, so that an idle queue has run everything;
`BuildSound` says that what the builder counts as made exists and was uploaded or is referred to by commands
that have not run, and that `pump` is where the phase says; `GoneIsIdle` that a builder which has ended left nothing in
flight.  `ReservationHolds` is arithmetic: `AlignUp` adds less than the alignment, the slot that `acquire` returns
has room for the reservation (`AcquiredIs`), and a mesh's padding covers the gap between its two
copies.  `CommandsReferToWhatExists` needs that cancelled and failed builders wait for their batches
before they drop what they made.

The same module goes on with the frame graph, for any passes, images, features, frame slots and bounds that satisfy
`PassAssumption`.  The assumption has three parts: images marked persistent are images of the graph; a pass which keeps
descriptor sets uses all its images whenever it runs; and one that writes an image has an image of its own, which renews its
sets when it is created and which no graph without the pass wants.  The code states this nowhere.  It is what `prepareResources`
relies on, which tells only the users of the images it has created now to write their sets: a pass that shared all its images
would be switched on again without sets, and one that used an image only sometimes would miss its replacement.  A pass
that does not write an image need have none of its own (and may run without sets: see the divergences); a pass whose
uses depend on a feature, as those of DeferredLighting do, is outside the assumption and not among the ten.

`GraphSetsHold` is `GraphSpec => []SetsInvariant`.  That a running pass has its sets (`UsedIsBound`) needs that, as long as
its own image exists, the other images do and its sets hold the present view of each (`SetsFollowOwnImage`).  That no set in
flight is freed (`FreedIsIdle`) holds because sets are freed when an image is created: one that was not there is used by no
frame in flight (`RetiredAfterUse`), so neither is a pass that runs only with all its images (`RunUsesImages`).  A resize frees all
sets, and only the passes that are active make theirs anew; an inactive pass's own image goes at once in the same
`prepareResources`, because nothing is in flight (`RefreshIsQuiet`).  `ImagesOutliveTheirUse` is the
step property `DestroyedAfterUse`, from the same invariant.

The assumptions of all these are the named ones of the modules: bounds are natural numbers, and the values that
stand for "nothing" are none of the things they are compared with.

Every invariant and every step property of the passing runs is stated by one of these theorems but one.
Only model-checked are:

* every liveness property, because liveness under fairness is out of the prover's reach;
* `AccessesAreOrdered` of `RenderGraph`.  It is not true of arbitrary passes, and an execution is a fold over the compiled
  sequence of nodes and their uses, whose induction the prover cannot do; TLC checks it for the ten passes with all
  sets of features.

## Not modelled, and why

* `RuntimeCommandDispatcher`, `NamedPipeServerWin32`, `RuntimeControlAdapter`: a queue with a timeout between
  two threads, and JSON in front of other components' calls.  Next in line.
* `MaterialSystem`, `ResourcePool`, `DescriptorAllocator`: tables of one thread whose retirement is that of
  `AssetRepository`.
* `SceneCatalogStore`, `ModelImportService`: compare a stamp, replace a file, as `SceneDocument` does; the same
  window between check and replacement (`assets/SceneCatalogStore.cpp:181`), and a crash during an import
  leaves an unregistered directory.
* Derived caches and manifests as file formats, content hashes, validation reports, runtime packages,
  `--force`, dependency stamps: sequential parsing and checking.
* In the modelled components: JSON, wording, statistics, budgets in milliseconds, pixel formats; of the
  graph, buffers, swapchain and imported images, passes that manage transitions themselves, attachment checks, GPU
  profiling and the DDGI reset by volume; of the editor, selection, transform values, the entity tree and
  dialogs; of `UploadContext`, its blocking submission.
* Renderer, features, pipelines, shaders, visibility, geometry, glTF preparation, panels, theme, Vulkan
  wrappers, window, logging and tools: numerical, platform or user-interface code.

The modelled lines are a small part of the repository's C++ (about 83 000 lines), because most of it is of the
last kind; the part that decides who owns what, and when, is what is modelled.

## Plan

1. `CommandPipe`: the dispatcher's queue, its timeout and its stop.
2. `ModelUpload` as the inside of `AssetRepository`'s builder, by refinement.
