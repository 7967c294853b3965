----------------------------- MODULE SceneLoad -----------------------------
(***************************************************************************)
(* Scene loads and the worlds they publish: scene/SceneLoadManager.cpp and *)
(* the scene half of scene/SceneRuntimeCoordinator.cpp.                    *)
(*                                                                         *)
(* The main thread requests, cancels and, in every iteration, refreshes    *)
(* and advances the latest task; the manager's worker parses the document  *)
(* of a native scene.  Both write the atomic state and phase of a task,    *)
(* the worker without the manager's mutex, so the worker's stores are      *)
(* single steps and the main thread's update of a native task is cut where *)
(* it reads them again.                                                    *)
(***************************************************************************)
EXTENDS SubmissionClock, Sequences, FiniteSets

CONSTANTS
  MaxTasks,     \* bound on the loads a behaviour requests
  MaxHistory    \* kMaxHistory

ASSUME TaskBound == MaxTasks \in Nat /\ MaxHistory \in Nat

Tasks == 1 .. MaxTasks
NoTask == 0

Terminal == {"Completed", "Cancelled", "Failed"}

\* The loading states that no property tells apart are one: Uploading also
\* stands for what a preview shows of a model that is queued or prepared.
States == {"Queued", "PreparingCpu", "ReadyForUpload", "Uploading",
           "WaitingForGpu", "ReadyToPublish"} \cup Terminal

Phases == {"Queued", "ParsingDocument", "ResolvingModels", "LoadingModels",
           "LoadingEnvironment", "PublishingWorld", "Complete"}

\* What the leases of a task say together of what they lease.
Assets == {"none", "loading", "ready", "failed"}

VARIABLES
  \* of each task
  kind,          \* kind
  state,         \* state
  phase,         \* phase
  cancellation,  \* *cancellation
  models,        \* modelAsset or nativeModels
  environments,  \* nativeEnvironments
  \* what happened to the tasks, for the properties
  failed,        \* those that an exception of the update ended
  overtaken,     \* those that became active between an update's refresh, which
                 \* found them cancelled, and its look at the state
  \* of the manager
  tasks,         \* nextTaskId_ - 1
  history,       \* historyOrder_ and the keys of tasks_
  pendingNative, \* pendingNative_
  worker,        \* the worker thread
  \* of the coordinator
  latest,        \* latestSceneLoadTask_ and the manager's latest_
  lastFinalized, \* lastFinalizedTaskId_
  update,        \* where the main thread is in updateSceneLoading
  world,         \* of each task: the world it published
  lastUse,       \* the last submission that drew that world
  current,       \* currentWorld_, by the task that published it
  retired,       \* retiredWorlds_
  stage          \* running, stopping, stopped, idle, exited

taskVars == <<kind, state, phase, cancellation, models, environments, failed, overtaken>>
managerVars == <<tasks, history, pendingNative>>
worldVars == <<world, lastUse, current, retired>>
vars == <<clockVars, taskVars, managerVars, worker, latest, lastFinalized,
          update, worldVars, stage>>

Store(f, v) == [field |-> f, value |-> v]
WorkerStores == [field : {"state"}, value : States] \cup [field : {"phase"}, value : Phases]

IdleWorker == [task |-> NoTask, step |-> "waiting", stores |-> <<>>]

TypeOK ==
  /\ ClockTypeOK
  /\ kind \in [Tasks -> {"preview", "native"}]
  /\ state \in [Tasks -> States]
  /\ phase \in [Tasks -> Phases]
  /\ cancellation \in [Tasks -> BOOLEAN]
  /\ models \in [Tasks -> Assets]
  /\ environments \in [Tasks -> Assets]
  /\ failed \subseteq Tasks
  /\ overtaken \subseteq Tasks
  /\ tasks \in 0 .. MaxTasks
  /\ history \in Seq(Tasks)
  /\ pendingNative \in Tasks \cup {NoTask}
  /\ worker \in [task : Tasks \cup {NoTask}, step : {"waiting", "parsing", "exited"},
                 stores : Seq(WorkerStores)]
  /\ latest \in Tasks \cup {NoTask}
  /\ lastFinalized \in Tasks \cup {NoTask}
  /\ update \in {"done", "refreshed", "checked"}
  /\ world \in [Tasks -> {"None", "Live", "Released"}]
  /\ lastUse \in [Tasks -> Serials]
  /\ current \in Tasks \cup {NoTask}
  /\ retired \in Seq([task : Tasks, serial : Serials])
  /\ stage \in {"running", "stopping", "stopped", "idle", "exited"}

Init ==
  /\ ClockInit
  /\ kind = [t \in Tasks |-> "preview"]
  /\ state = [t \in Tasks |-> "Queued"]
  /\ phase = [t \in Tasks |-> "Queued"]
  /\ cancellation = [t \in Tasks |-> FALSE]
  /\ models = [t \in Tasks |-> "none"]
  /\ environments = [t \in Tasks |-> "none"]
  /\ failed = {}
  /\ overtaken = {}
  /\ tasks = 0
  /\ history = <<>>
  /\ pendingNative = NoTask
  /\ worker = IdleWorker
  /\ latest = NoTask
  /\ lastFinalized = NoTask
  /\ update = "done"
  /\ world = [t \in Tasks |-> "None"]
  /\ lastUse = [t \in Tasks |-> 0]
  /\ current = NoTask
  /\ retired = <<>>
  /\ stage = "running"

\* The main thread is between two calls.
MainIdle == stage = "running" /\ update = "done"

-----------------------------------------------------------------------------
(* SceneLoadManager: requests and cancellation.                            *)

Live(T) == {t \in T \ {NoTask} : state[t] \notin Terminal}

\* Mutant: a cancelled task keeps its leases.
WithoutLeases_Kept(T, held) == held

\* cancelTask on the tasks T: their leases, flags, states and phases.
WithoutLeases(T, held) == [t \in Tasks |-> IF t \in Live(T) THEN "none" ELSE held[t]]
Flagged(T) == [t \in Tasks |-> cancellation[t] \/ t \in Live(T)]
CancelledStates(T) == [t \in Tasks |-> IF t \in Live(T) THEN "Cancelled" ELSE state[t]]
CompletePhases(T) == [t \in Tasks |-> IF t \in Live(T) THEN "Complete" ELSE phase[t]]

CancelTasks(T) ==
  /\ cancellation' = Flagged(T)
  /\ models' = WithoutLeases(T, models)
  /\ environments' = WithoutLeases(T, environments)
  /\ state' = CancelledStates(T)
  /\ phase' = CompletePhases(T)
  /\ UNCHANGED <<kind, failed, overtaken>>

Known(h) == {h[i] : i \in DOMAIN h}

\* pruneHistoryLocked: the oldest tasks go, up to the first that is alive.
Prune(h) ==
  LET popped == {n \in 1 .. Len(h) :
                   /\ n + MaxHistory <= Len(h)
                   /\ \A i \in 1 .. n : state'[h[i]] \in Terminal}
  IN SubSeq(h, Cardinality(popped) + 1, Len(h))

\* What the tasks of the new history hold.
OfKnown(held) == [t \in Tasks |-> IF t \in Known(history') THEN held[t] ELSE "none"]

\* What request and requestNative share: the new task cancels those it
\* supersedes, becomes the latest and holds a lease on its model or none; a task
\* that leaves the history is destroyed with the leases it still had (the worker
\* may hold it a store longer).
NewTask(k, superseded, model, newState, newPhase) ==
  LET new == tasks + 1 IN
  /\ new <= MaxTasks
  /\ tasks' = new
  /\ latest' = new
  /\ kind' = [kind EXCEPT ![new] = k]
  /\ cancellation' = Flagged(superseded)
  /\ state' = [CancelledStates(superseded) EXCEPT ![new] = newState]
  /\ phase' = [CompletePhases(superseded) EXCEPT ![new] = newPhase]
  /\ history' = Prune(Append(history, new))
  /\ models' = [OfKnown(WithoutLeases(superseded, models)) EXCEPT ![new] = model]
  /\ environments' = OfKnown(WithoutLeases(superseded, environments))
  /\ UNCHANGED <<clockVars, failed, overtaken, worker, lastFinalized, update, worldVars,
                 stage>>

\* A preview's model may be ready already; request refreshes the task at once.
RequestPreview ==
  /\ MainIdle
  /\ \/ NewTask("preview", {latest}, "loading", "Uploading", "Queued")
     \/ NewTask("preview", {latest}, "ready", "ReadyToPublish", "PublishingWorld")
  /\ UNCHANGED pendingNative

RequestNative ==
  /\ MainIdle
  /\ NewTask("native", {latest, pendingNative}, "none", "Queued", "Queued")
  /\ pendingNative' = tasks'

Cancel(t) ==
  /\ MainIdle
  /\ t \in Known(history)
  /\ state[t] \notin Terminal
  /\ CancelTasks({t})
  /\ UNCHANGED <<clockVars, managerVars, worker, latest, lastFinalized, update,
                 worldVars, stage>>

-----------------------------------------------------------------------------
(* SceneRuntimeCoordinator: worlds.                                        *)

\* Mutant: there is room for one retired world.
WithRetired_Single(w) ==
  IF w = NoTask THEN retired ELSE <<[task |-> w, serial |-> submitted]>>

\* Mutant: a world retires after the last completed submission.
WithRetired_Completed(w) ==
  IF w = NoTask THEN retired ELSE Append(retired, [task |-> w, serial |-> completed])

\* retireCurrentWorld: the world w is kept until the last submission is done.
WithRetired(w) ==
  IF w = NoTask THEN retired ELSE Append(retired, [task |-> w, serial |-> submitted])

\* The world of task t replaces the current one.
PublishWorld(t) ==
  /\ retired' = WithRetired(current)
  /\ current' = t
  /\ world' = [world EXCEPT ![t] = "Live"]
  /\ UNCHANGED lastUse

\* finalizeLoad, which does nothing the second time.
FinalizedState(t, result, otherwise) == IF t = lastFinalized THEN otherwise ELSE result
FinalizedPhase(t, otherwise) == IF t = lastFinalized THEN otherwise ELSE "Complete"

FailureState(t) == IF cancellation[t] THEN "Cancelled" ELSE "Failed"

CloseWorld ==
  /\ MainIdle
  /\ CancelTasks({latest})
  /\ retired' = WithRetired(current)
  /\ current' = NoTask
  /\ UNCHANGED <<clockVars, managerVars, worker, latest, lastFinalized, update,
                 world, lastUse, stage>>

\* The retired worlds at the front whose submissions have completed.
Overdue ==
  {i \in DOMAIN retired : \A j \in 1 .. i : retired[j].serial <= completed}

CollectRetired ==
  /\ MainIdle
  /\ Overdue # {}
  /\ retired' = SubSeq(retired, Cardinality(Overdue) + 1, Len(retired))
  /\ world' = [t \in Tasks |->
                 IF \E i \in Overdue : retired[i].task = t THEN "Released" ELSE world[t]]
  /\ UNCHANGED <<clockVars, taskVars, managerVars, worker, latest, lastFinalized,
                 update, lastUse, current, stage>>

RenderFrame ==
  /\ MainIdle
  /\ Submit
  /\ lastUse' = [t \in Tasks |-> IF t = current THEN submitted' ELSE lastUse[t]]
  /\ UNCHANGED <<taskVars, managerVars, worker, latest, lastFinalized, update,
                 world, current, retired, stage>>

-----------------------------------------------------------------------------
(* updateSceneLoading of a preview.                                        *)

updateFrame == <<clockVars, kind, cancellation, overtaken, managerVars, worker, latest,
                 stage>>

\* Mutant: a model that fails does not end the load.
PreviewEnds_NotFailed(t) ==
  /\ t # lastFinalized
  /\ \/ state[t] \in {"Failed", "Cancelled"}
     \/ state[t] \notin Terminal /\ models[t] = "ready"
  /\ state' = [state EXCEPT ![t] = FailureState(t)]
  /\ phase' = [phase EXCEPT ![t] = "Complete"]
  /\ lastFinalized' = t
  /\ models' = [models EXCEPT ![t] = "none"]
  /\ UNCHANGED worldVars

\* The load ends without a world: its model failed or was cancelled, the task
\* was cancelled, or unsaved edits block the publication.
PreviewEnds(t) ==
  /\ t # lastFinalized
  /\ \/ state[t] \in {"Failed", "Cancelled"}
     \/ state[t] \notin Terminal /\ models[t] \in {"failed", "ready"}
  /\ state' = [state EXCEPT ![t] = FailureState(t)]
  /\ phase' = [phase EXCEPT ![t] = "Complete"]
  /\ lastFinalized' = t
  /\ models' = [models EXCEPT ![t] = "none"]
  /\ UNCHANGED worldVars

PreviewPublishes(t) ==
  /\ state[t] \notin Terminal
  /\ models[t] = "ready"
  /\ PublishWorld(t)
  /\ state' = [state EXCEPT ![t] = "Completed"]
  /\ phase' = [phase EXCEPT ![t] = "Complete"]
  /\ lastFinalized' = t
  /\ models' = [models EXCEPT ![t] = "none"]

\* The task that updateSceneLoading looks at.
Updated == latest

UpdatePreview ==
  /\ MainIdle
  /\ Updated # NoTask
  /\ kind[Updated] = "preview"
  /\ PreviewEnds(Updated) \/ PreviewPublishes(Updated)
  /\ UNCHANGED <<updateFrame, environments, failed, update>>

-----------------------------------------------------------------------------
(* updateSceneLoading of a native scene: refresh, the look at the state,   *)
(* and the phase the task is in.                                           *)

\* Mutant: a cancelled task is not settled again.
Unsettled_Never(t) == FALSE

\* refresh finds a task whose state was overwritten after its cancellation.
Unsettled(t) == state[t] \notin Terminal /\ cancellation[t]

RefreshNative ==
  /\ MainIdle
  /\ Updated # NoTask
  /\ kind[Updated] = "native"
  /\ update' = "refreshed"
  /\ IF Unsettled(Updated)
     THEN /\ state' = [state EXCEPT ![Updated] = "Cancelled"]
          /\ phase' = [phase EXCEPT ![Updated] = "Complete"]
          /\ models' = [models EXCEPT ![Updated] = "none"]
          /\ environments' = [environments EXCEPT ![Updated] = "none"]
     ELSE UNCHANGED <<state, phase, models, environments>>
  /\ UNCHANGED <<updateFrame, failed, lastFinalized, worldVars>>

\* A failed or cancelled task is finalized once; a failed one still holds
\* the leases on its models.
NativeEnds ==
  /\ update = "refreshed"
  /\ state[Updated] \in {"Failed", "Cancelled"}
  /\ Updated # lastFinalized
  /\ environments' = [environments EXCEPT ![Updated] = "none"]
  /\ state' = [state EXCEPT ![Updated] = FailureState(Updated)]
  /\ phase' = [phase EXCEPT ![Updated] = "Complete"]
  /\ lastFinalized' = Updated
  /\ update' = "done"
  /\ UNCHANGED <<updateFrame, models, failed, worldVars>>

NativeGoesOn ==
  /\ update = "refreshed"
  /\ state[Updated] \in {"Failed", "Cancelled"} => Updated = lastFinalized
  /\ update' = "checked"
  /\ UNCHANGED <<updateFrame, state, phase, models, environments, failed, lastFinalized,
                 worldVars>>

\* An exception ends the transaction.
Fails(t, m, e) ==
  /\ failed' = failed \cup {t}
  /\ state' = [state EXCEPT ![t] = "Failed"]
  /\ phase' = [phase EXCEPT ![t] = "Complete"]
  /\ models' = [models EXCEPT ![t] = m]
  /\ environments' = [environments EXCEPT ![t] = e]
  /\ UNCHANGED <<lastFinalized, worldVars>>

Waits(t, m, e, newState, newPhase) ==
  /\ state' = [state EXCEPT ![t] = newState]
  /\ phase' = [phase EXCEPT ![t] = newPhase]
  /\ models' = [models EXCEPT ![t] = m]
  /\ environments' = [environments EXCEPT ![t] = e]
  /\ UNCHANGED <<failed, lastFinalized, worldVars>>

\* publishNativeScene and finalizeLoad.
NativePublishes(t) ==
  /\ PublishWorld(t)
  /\ state' = [state EXCEPT ![t] = FinalizedState(t, "Completed", "ReadyToPublish")]
  /\ phase' = [phase EXCEPT ![t] = FinalizedPhase(t, "PublishingWorld")]
  /\ models' = [models EXCEPT ![t] = "none"]
  /\ environments' = [environments EXCEPT ![t] = "none"]
  /\ lastFinalized' = t
  /\ UNCHANGED failed

\* The world is built and published, unless unsaved edits block it or the
\* construction throws.
Publishes(t, m, e) == Fails(t, m, e) \/ NativePublishes(t)

LoadsModels(t, m, e) ==
  \/ m = "failed" /\ Fails(t, m, e)
  \/ m = "loading" /\ Waits(t, m, e, "Uploading", "LoadingModels")
  \/ m = "ready" /\ e # "none" /\ Waits(t, m, e, "WaitingForGpu", "LoadingEnvironment")
  \/ m = "ready" /\ e = "none" /\ Publishes(t, m, e)

\* resolveNativeSceneAssets requests the models and environments, which may
\* be ready already, and goes on with them at once, or throws.
Resolves(t) ==
  \/ Fails(t, models[t], environments[t])
  \/ \E m \in {"loading", "ready"}, e \in {"none", "loading", "ready"} :
       LoadsModels(t, m, e)

LoadsEnvironments(t, m, e) ==
  \/ e = "failed" /\ Fails(t, m, e)
  \/ e = "loading" /\ Waits(t, m, e, "WaitingForGpu", "LoadingEnvironment")
  \/ e = "ready" /\ Publishes(t, m, e)

\* updateNativeSceneLoading after its look at the state.  No update begins in
\* PublishingWorld: a task left there is cancelled, and refresh completes it.
AdvanceNative ==
  /\ update = "checked"
  /\ update' = "done"
  /\ \/ phase[Updated] = "ResolvingModels" /\ Resolves(Updated)
     \/ /\ phase[Updated] = "LoadingModels"
        /\ LoadsModels(Updated, models[Updated], environments[Updated])
     \/ /\ phase[Updated] = "LoadingEnvironment"
        /\ LoadsEnvironments(Updated, models[Updated], environments[Updated])
     \/ /\ phase[Updated] \in {"Queued", "ParsingDocument", "Complete"}
        /\ UNCHANGED <<state, phase, models, environments, failed, lastFinalized, worldVars>>
  /\ UNCHANGED updateFrame

-----------------------------------------------------------------------------
(* SceneLoadManager::workerLoop.                                           *)

workerFrame == <<clockVars, kind, cancellation, models, environments, failed, tasks,
                 history, latest, lastFinalized, update, worldVars, stage>>

\* The native request is taken, and left at once if it was cancelled.
WorkerTake ==
  /\ stage = "running"
  /\ worker = IdleWorker
  /\ pendingNative # NoTask
  /\ pendingNative' = NoTask
  /\ worker' = IF cancellation[pendingNative]
               THEN worker
               ELSE [task |-> pendingNative, step |-> "parsing",
                     stores |-> <<Store("state", "PreparingCpu"),
                                  Store("phase", "ParsingDocument")>>]
  /\ UNCHANGED <<workerFrame, state, phase, overtaken>>

\* This store makes a cancelled task active that the update under way has
\* refreshed and not looked at.
Overtakes(t) ==
  /\ update = "refreshed"
  /\ t = latest /\ cancellation[t] /\ state[t] \in Terminal /\ state'[t] \notin Terminal

\* One store to the task's atomics.
WorkerStore ==
  /\ worker.stores # <<>>
  /\ LET store == Head(worker.stores) IN
       IF store.field = "state"
       THEN state' = [state EXCEPT ![worker.task] = store.value] /\ UNCHANGED phase
       ELSE phase' = [phase EXCEPT ![worker.task] = store.value] /\ UNCHANGED state
  /\ overtaken' = IF Overtakes(worker.task) THEN overtaken \cup {worker.task} ELSE overtaken
  /\ worker' = IF worker.step = "waiting" /\ Len(worker.stores) = 1
               THEN IdleWorker
               ELSE [worker EXCEPT !.stores = Tail(worker.stores)]
  /\ UNCHANGED <<workerFrame, pendingNative>>

\* The document was parsed, the task found cancelled, or an exception thrown.
WorkerParsed ==
  /\ worker.step = "parsing"
  /\ worker.stores = <<>>
  /\ \E stores \in
       {<<Store("state", "Failed"), Store("phase", "Complete")>>,
        IF cancellation[worker.task]
        THEN <<Store("state", "Cancelled"), Store("phase", "Complete")>>
        ELSE <<Store("phase", "ResolvingModels"), Store("state", "ReadyForUpload")>>} :
       worker' = [worker EXCEPT !.step = "waiting", !.stores = stores]
  /\ UNCHANGED <<workerFrame, state, phase, overtaken, pendingNative>>

WorkerExit ==
  /\ stage = "stopping"
  /\ worker = IdleWorker
  /\ worker' = [worker EXCEPT !.step = "exited"]
  /\ UNCHANGED <<workerFrame, state, phase, overtaken, pendingNative>>

-----------------------------------------------------------------------------
(* Shutdown, and what Application::shutdown does after it.                 *)

ShutdownBegin ==
  /\ MainIdle
  /\ stage' = "stopping"
  /\ cancellation' = Flagged(Known(history))
  /\ state' = CancelledStates(Known(history))
  /\ phase' = CompletePhases(Known(history))
  /\ models' = [t \in Tasks |-> "none"]
  /\ environments' = [t \in Tasks |-> "none"]
  /\ pendingNative' = NoTask
  /\ UNCHANGED <<clockVars, kind, failed, overtaken, tasks, history, worker, latest,
                 lastFinalized, update, worldVars>>

shutdownFrame == <<taskVars, managerVars, worker, latest, lastFinalized, update, lastUse>>

\* The worker is joined.
ShutdownFinish ==
  /\ stage = "stopping"
  /\ worker.step = "exited"
  /\ stage' = "stopped"
  /\ UNCHANGED <<shutdownFrame, clockVars, world, current, retired>>

\* vkDeviceWaitIdle and markAllSubmissionsCompleted.
DeviceWaitIdle ==
  /\ stage = "stopped"
  /\ finished = submitted
  /\ completed' = submitted
  /\ stage' = "idle"
  /\ UNCHANGED <<shutdownFrame, submitted, finished, world, current, retired>>

\* collectRetired, now that every submission is completed, and the coordinator
\* goes with its current world.
DestroyWorlds ==
  /\ stage = "idle"
  /\ stage' = "exited"
  /\ world' = [t \in Tasks |-> IF world[t] = "Live" THEN "Released" ELSE world[t]]
  /\ current' = NoTask
  /\ retired' = <<>>
  /\ UNCHANGED <<shutdownFrame, clockVars>>

Exited ==
  /\ stage = "exited"
  /\ UNCHANGED vars

-----------------------------------------------------------------------------
(* What the repositories, the GPU and the frame loop do meanwhile.         *)

othersFrame == <<kind, state, phase, cancellation, failed, overtaken, managerVars,
                 worker, latest, lastFinalized, update, worldVars, stage>>

\* What a task leases ends loading.
ModelsSettle(t) ==
  /\ models[t] = "loading"
  /\ \E result \in {"ready", "failed"} : models' = [models EXCEPT ![t] = result]
  /\ UNCHANGED <<othersFrame, clockVars, environments>>

EnvironmentsSettle(t) ==
  /\ environments[t] = "loading"
  /\ \E result \in {"ready", "failed"} :
       environments' = [environments EXCEPT ![t] = result]
  /\ UNCHANGED <<othersFrame, clockVars, models>>

GpuFinish ==
  /\ Finish
  /\ UNCHANGED <<othersFrame, models, environments>>

ObserveCompletion ==
  /\ MainIdle
  /\ Observe
  /\ UNCHANGED <<othersFrame, models, environments>>

Update == UpdatePreview \/ RefreshNative \/ NativeEnds \/ NativeGoesOn \/ AdvanceNative

Worker == WorkerTake \/ WorkerStore \/ WorkerParsed \/ WorkerExit

Settle == \E t \in Tasks : ModelsSettle(t) \/ EnvironmentsSettle(t)

Shutdown == ShutdownFinish \/ DeviceWaitIdle \/ DestroyWorlds

Next ==
  \/ RequestPreview
  \/ RequestNative
  \/ \E t \in Tasks : Cancel(t)
  \/ CloseWorld
  \/ Update
  \/ CollectRetired
  \/ RenderFrame
  \/ Worker
  \/ Settle
  \/ ShutdownBegin
  \/ Shutdown
  \/ Exited
  \/ GpuFinish
  \/ ObserveCompletion

Spec == Init /\ [][Next]_vars

\* The main loop updates, observes completed frames and collects in every
\* iteration (strongly fair: an update in progress disables the other two for
\* a moment), the worker runs, what is leased settles, the GPU finishes and a
\* shutdown that began goes on.
FairSpec ==
  /\ Spec
  /\ WF_vars(Update)
  /\ SF_vars(CollectRetired)
  /\ SF_vars(ObserveCompletion)
  /\ WF_vars(Worker)
  /\ WF_vars(Settle)
  /\ WF_vars(GpuFinish)
  /\ WF_vars(Shutdown)

-----------------------------------------------------------------------------
(* Properties.                                                             *)

IsRetired(t) == \E i \in DOMAIN retired : retired[i].task = t

\* No world is lost and none destroyed twice: the live ones are the shown one
\* and the retired ones.  Each of these is there once, the retired ones in the
\* order of their serials and of their requests, and the shown one is newer: a
\* late load never replaces the world of a newer request.
WorldsAccounted ==
  /\ \A t \in Tasks : world[t] = "Live" <=> (t = current \/ IsRetired(t))
  /\ \A i, j \in DOMAIN retired :
       i < j => /\ retired[i].serial <= retired[j].serial
                /\ retired[i].task < retired[j].task
  /\ \A i \in DOMAIN retired : current # NoTask => retired[i].task < current

\* A world retires after the last submission that drew it.
UsesRecorded ==
  /\ \A t \in Tasks : lastUse[t] <= submitted
  /\ \A i \in DOMAIN retired : /\ retired[i].serial <= submitted
                               /\ lastUse[retired[i].task] <= retired[i].serial

Holds(t) == models[t] # "none" \/ environments[t] # "none"

\* A superseded load releases what it holds, cancelled or not, so that the
\* repositories can retire it.  Only a native one that an exception of the update
\* ended keeps its leases, until it leaves the history; its state does not tell
\* (the worker may still store one, and one that was cancelled before it failed is
\* finalized as Cancelled).
SupersededHoldsNothing ==
  \A t \in Tasks :
    t # latest /\ Holds(t) =>
      /\ kind[t] = "native" /\ t \in failed
      /\ phase[t] = "Complete"
      /\ t \in Known(history)

\* A load that is publishing holds ready assets: main thread and worker never
\* bring a task without leases into the phases that wait for them.
LoadingHoldsLeases ==
  \A t \in Tasks :
    phase[t] \in {"LoadingModels", "LoadingEnvironment"} =>
      /\ models[t] # "none"
      /\ phase[t] = "LoadingEnvironment" =>
           models[t] = "ready" /\ environments[t] # "none"

\* The main thread works on the newest task alone.
LatestOnly ==
  /\ latest = tasks
  /\ latest # NoTask => latest \in Known(history)
  /\ update # "done" => latest # NoTask /\ kind[latest] = "native"
  /\ \A t \in Tasks : t > tasks => world[t] = "None" /\ ~Holds(t)
  /\ \A t \in Tasks :
       phase[t] \in {"LoadingModels", "LoadingEnvironment"} =>
         t = latest /\ state[t] \notin Terminal

\* What the worker is still going to store, before and after it parses.
ParsingStores ==
  {<<Store("state", "PreparingCpu"), Store("phase", "ParsingDocument")>>,
   <<Store("phase", "ParsingDocument")>>, <<>>}
LastStore == <<Store("state", "ReadyForUpload")>>
ParsedStores ==
  {<<Store("state", "Failed"), Store("phase", "Complete")>>,
   <<Store("state", "Cancelled"), Store("phase", "Complete")>>,
   <<Store("phase", "Complete")>>,
   <<Store("phase", "ResolvingModels"), Store("state", "ReadyForUpload")>>, LastStore}

\* The worker may still store a phase of task t.
Starting(t) == t = pendingNative \/ (t = worker.task /\ worker.stores # LastStore)

\* Until the worker's last phase is stored the main thread does nothing with a
\* native task but cancel it.
WorkerFirst ==
  /\ IF worker.task = NoTask
     THEN worker.step # "parsing" /\ worker.stores = <<>>
     ELSE \/ worker.step = "parsing" /\ worker.stores \in ParsingStores
          \/ worker.step = "waiting" /\ worker.stores \in ParsedStores
  /\ pendingNative # NoTask => pendingNative # worker.task
  /\ \A t \in Tasks :
       /\ t \in {pendingNative, worker.task} => t <= tasks /\ kind[t] = "native"
       /\ Starting(t) => /\ phase[t] \in {"Queued", "ParsingDocument", "Complete"}
                         /\ world[t] = "None" /\ ~Holds(t)

\* A task publishes one world, and one that ended holds leases only if it is
\* native and an exception of the update ended it.
EndsOnce ==
  \A t \in Tasks :
    /\ world[t] # "None" =>
         IF kind[t] = "preview" THEN state[t] = "Completed"
         ELSE phase[t] \in {"PublishingWorld", "Complete"}
    /\ kind[t] = "preview" => environments[t] = "none"
    /\ state[t] \in Terminal /\ Holds(t) =>
         kind[t] = "native" /\ t \in failed /\ phase[t] = "Complete"

\* The types, the worlds and the leases, over every interleaving of the worker's
\* unlocked stores, and why: the inductive invariant.
LoadInvariant ==
  /\ TypeOK /\ ClockOrder
  /\ WorldsAccounted /\ UsesRecorded
  /\ LoadingHoldsLeases /\ LatestOnly /\ WorkerFirst /\ EndsOnce

\* Worlds are resources under deferred release.
Deferred == INSTANCE DeferredRelease
              WITH Resources <- Tasks, status <- world, closing <- stage # "running"

ImplementsDeferredRelease == Deferred!ReleaseSpec

\* The latest preview is eventually finalized, or superseded.
PreviewSettles ==
  \A t \in Tasks :
    (latest = t /\ kind[t] = "preview")
      ~> (lastFinalized = t \/ latest # t \/ stage # "running")

\* A cancelled load ends for good, as Cancelled or Failed: what the worker stores
\* after the cancellation is undone while the task is the latest and the loop
\* runs.  It may be Completed all the same in one case alone: the worker's last
\* store fell between the refresh of an update, which had found it cancelled, and
\* the look at its state, and all it needs was ready, so that this update published
\* it.  This is about the state alone: a load that is finalized as Cancelled can
\* still publish a world, when an update comes between the worker's last two stores.
CancelledStaysSettled ==
  \A t \in Tasks :
    cancellation[t]
      ~> [](\/ state[t] \in {"Cancelled", "Failed"}
            \/ state[t] = "Completed" /\ t \in overtaken
            \/ latest # t \/ stage # "running")

=============================================================================
