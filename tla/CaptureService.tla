--------------------------- MODULE CaptureService ---------------------------
(***************************************************************************)
(* Captures of frames from the request to the file:                        *)
(* diagnostics/CaptureService.cpp and diagnostics/CaptureTaskQueue.cpp.    *)
(*                                                                         *)
(* A task is queued, recorded into a frame, waits for the GPU, is encoded  *)
(* by the worker thread and published.  The main thread owns the tasks; it *)
(* shares with the worker the queues of jobs and results, under a mutex,   *)
(* and the cancellation flag of each job, without one.                     *)
(***************************************************************************)
EXTENDS SubmissionClock, Sequences, FiniteSets

CONSTANTS
  Outputs,      \* the paths that captures are written to
  MaxTasks,     \* bound on the captures a behaviour requests
  MaxActive,    \* maximumActiveTasks_
  MaxTerminal   \* terminalHistoryLimit_

ASSUME TaskBounds ==
  /\ MaxTasks \in Nat
  /\ MaxActive \in Nat \ {0}
  /\ MaxTerminal \in Nat \ {0}

Tasks == 1 .. MaxTasks
NoTask == 0

Terminal == {"Completed", "Failed", "Cancelled"}

\* None is a task that was not requested yet.
States == {"None", "Queued", "Recording", "WaitingForGpu", "Encoding", "Cancelling"}
          \cup Terminal

VARIABLES
  \* CaptureTaskQueue
  state,       \* of each task
  known,       \* the keys of tasks_; taskOrder_ is their order
  queue,       \* queuedTaskIds_
  \* CaptureService::Impl
  output,      \* of each task: result.outputPath
  runtimes,    \* the keys of runtimes_
  cancelled,   \* of each task: *cancelled, shared with its job
  active,      \* active_: the task and its submission serial
  jobs,        \* encodeJobs_
  results,     \* encodeResults_
  worker,      \* the worker thread
  file,        \* of each path: the task whose image it holds
  stage        \* running, joining, ended

queueVars == <<state, known, queue>>
vars == <<clockVars, queueVars, output, runtimes, cancelled, active, jobs, results,
          worker, file, stage>>

NoCapture == [task |-> NoTask, serial |-> 0]
IdleWorker == [task |-> NoTask, step |-> "waiting"]

Results == [task : Tasks, outcome : {"success", "failed", "cancelled"}]

TypeOK ==
  /\ ClockTypeOK
  /\ state \in [Tasks -> States]
  /\ known \in SUBSET Tasks
  /\ queue \in Seq(Tasks)
  /\ output \in [Tasks -> Outputs]
  /\ runtimes \in SUBSET Tasks
  /\ cancelled \in [Tasks -> BOOLEAN]
  /\ active \in [task : Tasks \cup {NoTask}, serial : Serials]
  /\ jobs \in Seq(Tasks)
  /\ results \in Seq(Results)
  /\ worker \in [task : Tasks \cup {NoTask},
                 step : {"waiting", "encoding", "publishing", "published", "exited"}]
  /\ file \in [Outputs -> Tasks \cup {NoTask}]
  /\ stage \in {"running", "joining", "ended"}

Init ==
  /\ ClockInit
  /\ state = [t \in Tasks |-> "None"]
  /\ known = {}
  /\ queue = <<>>
  /\ output \in [Tasks -> Outputs]
  /\ runtimes = {}
  /\ cancelled = [t \in Tasks |-> FALSE]
  /\ active = NoCapture
  /\ jobs = <<>>
  /\ results = <<>>
  /\ worker = IdleWorker
  /\ file = [o \in Outputs |-> NoTask]
  /\ stage = "running"

\* Between prepareFrame and frameSubmitted.
Recording == active.task # NoTask /\ active.serial = 0

\* The main thread is between two calls of the service.
MainIdle == stage = "running" /\ ~Recording

-----------------------------------------------------------------------------
(* CaptureTaskQueue.                                                       *)

Ended(T, st) == {t \in T : st[t] \in Terminal}

\* trimTerminalHistory: of the ended tasks the newest stay.
Trimmed(T, st) ==
  T \ {t \in Ended(T, st) : Cardinality({u \in Ended(T, st) : u > t}) >= MaxTerminal}

Active == known \ Ended(known, state)

\* isValidCaptureTaskTransition.
ValidTransitions ==
  {<<"None", "Queued">>,
   <<"Queued", "Recording">>, <<"Queued", "Failed">>, <<"Queued", "Cancelled">>,
   <<"Recording", "WaitingForGpu">>, <<"Recording", "Cancelling">>,
   <<"Recording", "Failed">>,
   <<"WaitingForGpu", "Encoding">>, <<"WaitingForGpu", "Cancelling">>,
   <<"WaitingForGpu", "Failed">>,
   <<"Encoding", "Completed">>, <<"Encoding", "Cancelling">>, <<"Encoding", "Failed">>,
   <<"Cancelling", "Cancelled">>, <<"Cancelling", "Failed">>}

-----------------------------------------------------------------------------
(* Requests and cancellation.                                              *)

\* request and requestHdr; a full queue throws.
Request ==
  /\ MainIdle
  /\ Cardinality(Active) < MaxActive
  /\ \E t \in Tasks :
       /\ state[t] = "None"
       /\ \A u \in Tasks : u < t => state[u] # "None"
       /\ state' = [state EXCEPT ![t] = "Queued"]
       /\ queue' = Append(queue, t)
       /\ known' = Trimmed(known \cup {t}, state')
       /\ runtimes' = runtimes \cup {t}
  /\ UNCHANGED <<clockVars, output, cancelled, active, jobs, results, worker, file, stage>>

\* The states once the queued tasks of T up to t are cancelled.
CancelledUpTo(T, t) ==
  [u \in Tasks |-> IF u \in T /\ u <= t THEN "Cancelled" ELSE state[u]]

\* The runtimes that are left then: one goes unless the history forgot its task
\* in the same step.
RuntimesLeft(T) ==
  runtimes \ {t \in T : t \in Trimmed(known, CancelledUpTo(T, t))}

\* std::remove of a task that is in the queue, once.
Without(s, t) ==
  LET i == CHOOSE i \in DOMAIN s : s[i] = t
  IN SubSeq(s, 1, i - 1) \o SubSeq(s, i + 1, Len(s))

\* Mutant: the flag alone is set.
Cancel_FlagOnly(t) ==
  /\ MainIdle
  /\ t \in Active
  /\ state[t] # "Queued"
  /\ cancelled' = [cancelled EXCEPT ![t] = TRUE]
  /\ UNCHANGED <<clockVars, queueVars, output, runtimes, active, jobs, results, worker,
                 file, stage>>

\* A queued task ends at once, another one when its place in the pipeline is
\* reached.
Cancel(t) ==
  /\ MainIdle
  /\ t \in Active
  /\ cancelled' = [cancelled EXCEPT ![t] = TRUE]
  /\ IF state[t] = "Queued"
     THEN /\ state' = CancelledUpTo({t}, t)
          /\ queue' = Without(queue, t)
          /\ known' = Trimmed(known, state')
          /\ runtimes' = RuntimesLeft({t})
     ELSE /\ state' = [state EXCEPT ![t] = "Cancelling"]
          /\ UNCHANGED <<known, queue, runtimes>>
  /\ UNCHANGED <<clockVars, output, active, jobs, results, worker, file, stage>>

-----------------------------------------------------------------------------
(* The frame.                                                              *)

\* beginNext: the first task of the queue that is still queued.
FirstQueued == CHOOSE i \in DOMAIN queue :
           /\ state[queue[i]] = "Queued"
           /\ \A j \in DOMAIN queue : j < i => state[queue[j]] # "Queued"

Startable == \E i \in DOMAIN queue : state[queue[i]] = "Queued"

\* failTask.
Fail(t) ==
  /\ state' = [state EXCEPT ![t] = "Failed"]
  /\ known' = Trimmed(known, state')
  /\ runtimes' = runtimes \ {t}

\* The source may be unsupported or the buffer too large.
PrepareFrame ==
  /\ MainIdle
  /\ submitted < MaxSubmissions
  /\ active = NoCapture
  /\ Startable
  /\ LET t == queue[FirstQueued] IN
       \/ /\ state' = [state EXCEPT ![t] = "Recording"]
          /\ active' = [task |-> t, serial |-> 0]
          /\ UNCHANGED <<known, runtimes>>
       \/ Fail(t) /\ UNCHANGED active
  /\ queue' = SubSeq(queue, FirstQueued + 1, Len(queue))
  /\ UNCHANGED <<clockVars, output, cancelled, jobs, results, worker, file, stage>>

\* What endFrame returns for this frame.
SubmittedSerial == submitted + 1

\* The frame graph may have left out the copy.
FrameSubmitted ==
  /\ stage = "running"
  /\ Recording
  /\ Submit
  /\ \/ /\ state' = [state EXCEPT ![active.task] = "WaitingForGpu"]
        /\ active' = [active EXCEPT !.serial = SubmittedSerial]
        /\ UNCHANGED <<known, runtimes>>
     \/ Fail(active.task) /\ active' = NoCapture
  /\ UNCHANGED <<queue, output, cancelled, jobs, results, worker, file, stage>>

\* The captures that still need a frame.
Unrecorded == {t \in Tasks : state[t] \in {"None", "Queued"}}

\* A frame without a capture; the bound leaves one for every capture to come.
RenderFrame ==
  /\ MainIdle
  /\ submitted + Cardinality(Unrecorded) < MaxSubmissions
  /\ Submit
  /\ UNCHANGED <<queueVars, output, runtimes, cancelled, active, jobs, results, worker,
                 file, stage>>

-----------------------------------------------------------------------------
(* update.                                                                 *)

\* The tasks with a result that processWorkerResults does not skip.
Reported ==
  {t \in known \cap runtimes : \E i \in DOMAIN results : results[i].task = t}

\* processWorkerResults for one of them.
Outcome(t) ==
  LET r == CHOOSE i \in DOMAIN results : results[i].task = t
  IN IF results[r].outcome = "cancelled" \/ state[t] = "Cancelling" THEN "Cancelled"
     ELSE IF results[r].outcome = "success" THEN "Completed"
     ELSE "Failed"

Processed(st) == [t \in Tasks |-> IF t \in Reported THEN Outcome(t) ELSE st[t]]

\* Mutant: the buffer is read when its frame was submitted.
Finished_Submitted(serial) == active.serial # 0 /\ active.serial <= submitted

\* The frame of the active capture is complete.
Finished(serial) == active.serial # 0 /\ active.serial <= serial

\* What becomes of the active capture: it ends cancelled, or its pixels are
\* copied, which may throw.
ReadBack(t) ==
  IF state[t] = "Cancelling" \/ cancelled[t] THEN {"Cancelled"} ELSE {"Encoding", "Failed"}

\* update with the tasks in st and the runtimes rt.
UpdateAt(serial, st, rt) ==
  /\ results' = <<>>
  /\ IF Finished(serial)
     THEN \E next \in ReadBack(active.task) :
            /\ state' = [Processed(st) EXCEPT ![active.task] = next]
            /\ runtimes' = rt \ (Reported \cup {t \in {active.task} : next # "Encoding"})
            /\ jobs' = jobs \o IF next = "Encoding" THEN <<active.task>> ELSE <<>>
            /\ active' = NoCapture
     ELSE /\ state' = Processed(st)
          /\ runtimes' = rt \ Reported
          /\ UNCHANGED <<jobs, active>>
  /\ known' = Trimmed(known, state')

Update ==
  /\ MainIdle
  /\ results # <<>> \/ Finished(completed)
  /\ UpdateAt(completed, state, runtimes)
  /\ UNCHANGED <<clockVars, queue, output, cancelled, worker, file, stage>>

\* handleSwapChainRecreate waits for every frame and updates; the capture that
\* onSwapChainRecreated would fail is gone by then.
UpdateAfterAllFrames ==
  /\ MainIdle
  /\ finished = submitted
  /\ completed < submitted
  /\ completed' = submitted
  /\ UpdateAt(submitted, state, runtimes)
  /\ UNCHANGED <<submitted, finished, queue, output, cancelled, worker, file, stage>>

-----------------------------------------------------------------------------
(* The worker: workerLoop and encodeCapture.                               *)

workerFrame == <<clockVars, queueVars, output, runtimes, cancelled, active, stage>>

Report(outcome) ==
  /\ results' = Append(results, [task |-> worker.task, outcome |-> outcome])
  /\ worker' = IdleWorker

WorkerTake ==
  /\ worker = IdleWorker
  /\ jobs # <<>>
  /\ worker' = [task |-> Head(jobs), step |-> "encoding"]
  /\ jobs' = Tail(jobs)
  /\ UNCHANGED <<workerFrame, results, file>>

\* Mutant: a job that fails reports nothing.
WorkerEncode_Silent ==
  /\ worker.step = "encoding"
  /\ worker' = IdleWorker
  /\ UNCHANGED <<workerFrame, jobs, results, file>>

\* Encoding and the temporary file, up to the last look at the flag before the
\* publication; the looks before it can only end the same way earlier.
WorkerEncode ==
  /\ worker.step = "encoding"
  /\ \/ cancelled[worker.task] /\ Report("cancelled")
     \/ Report("failed")
     \/ /\ ~cancelled[worker.task]
        /\ worker' = [worker EXCEPT !.step = "publishing"]
        /\ UNCHANGED results
  /\ UNCHANGED <<workerFrame, jobs, file>>

\* atomicPublish.
WorkerPublish ==
  /\ worker.step = "publishing"
  /\ \/ /\ file' = [file EXCEPT ![output[worker.task]] = worker.task]
        /\ worker' = [worker EXCEPT !.step = "published"]
        /\ UNCHANGED results
     \/ Report("failed") /\ UNCHANGED file
  /\ UNCHANGED <<workerFrame, jobs>>

\* A capture that was cancelled meanwhile takes its file back.
WorkerCheck ==
  /\ worker.step = "published"
  /\ IF cancelled[worker.task]
     THEN Report("cancelled") /\ file' = [file EXCEPT ![output[worker.task]] = NoTask]
     ELSE Report("success") /\ UNCHANGED file
  /\ UNCHANGED <<workerFrame, jobs>>

WorkerExit ==
  /\ stage = "joining"
  /\ worker = IdleWorker
  /\ jobs = <<>>
  /\ worker' = [worker EXCEPT !.step = "exited"]
  /\ UNCHANGED <<workerFrame, jobs, results, file>>

-----------------------------------------------------------------------------
(* Shutdown, after vkDeviceWaitIdle; an exception may end the loop inside  *)
(* a frame.                                                                *)

Queued == {t \in known : state[t] = "Queued"}

\* Mutant: the capture whose frame was submitted is not read back.
ShutdownBegin_NoUpdate ==
  /\ stage = "running"
  /\ finished = submitted
  /\ stage' = "joining"
  /\ completed' = submitted
  /\ state' = CancelledUpTo(Queued, MaxTasks)
  /\ cancelled' = [t \in Tasks |-> cancelled[t] \/ t \in Queued]
  /\ queue' = <<>>
  /\ known' = Trimmed(known, state')
  /\ runtimes' = RuntimesLeft(Queued)
  /\ UNCHANGED <<submitted, finished, output, active, jobs, results, worker, file>>

\* shutdown up to stopWorker.
ShutdownBegin ==
  /\ stage = "running"
  /\ finished = submitted
  /\ stage' = "joining"
  /\ completed' = submitted
  /\ cancelled' = [t \in Tasks |-> cancelled[t] \/ t \in Queued]
  /\ queue' = <<>>
  /\ LET cancelledTasks == CancelledUpTo(Queued, MaxTasks)
         runtimesLeft == RuntimesLeft(Queued)
     IN IF Recording
        THEN /\ state' = [cancelledTasks EXCEPT ![active.task] = "Failed"]
             /\ known' = Trimmed(known, state')
             /\ runtimes' = runtimesLeft \ {active.task}
             /\ active' = NoCapture
             /\ UNCHANGED <<jobs, results>>
        ELSE UpdateAt(submitted, cancelledTasks, runtimesLeft)
  /\ UNCHANGED <<submitted, finished, output, worker, file>>

\* The rest of shutdown, once the worker is joined: what is not terminal by
\* now is ended.
ShutdownFinish ==
  /\ stage = "joining"
  /\ worker.step = "exited"
  /\ results' = <<>>
  /\ LET left == Active \ Reported
     IN /\ state' = [t \in Tasks |-> IF t \notin left THEN Processed(state)[t]
                                     ELSE IF state[t] = "Cancelling" THEN "Cancelled"
                                     ELSE "Failed"]
        /\ runtimes' = runtimes \ (Reported \cup left)
  /\ known' = Trimmed(known, state')
  /\ stage' = "ended"
  /\ UNCHANGED <<clockVars, queue, output, cancelled, active, jobs, worker, file>>

Exited == stage = "ended" /\ UNCHANGED vars

-----------------------------------------------------------------------------
(* The graphics queue and the fences that the loop waits for.              *)

clockFrame == <<queueVars, output, runtimes, cancelled, active, jobs, results, worker,
                file, stage>>

GpuFinish == Finish /\ UNCHANGED clockFrame

ObserveCompletion == MainIdle /\ Observe /\ UNCHANGED clockFrame

Next ==
  \/ Request
  \/ \E t \in Tasks : Cancel(t)
  \/ PrepareFrame
  \/ FrameSubmitted
  \/ RenderFrame
  \/ Update
  \/ UpdateAfterAllFrames
  \/ WorkerTake
  \/ WorkerEncode
  \/ WorkerPublish
  \/ WorkerCheck
  \/ WorkerExit
  \/ ShutdownBegin
  \/ ShutdownFinish
  \/ Exited
  \/ GpuFinish
  \/ ObserveCompletion

Spec == Init /\ [][Next]_vars

\* The loop renders frames, waits for the fence of a frame slot before it uses
\* the slot again and updates the service in every iteration; the worker and
\* the GPU run on.
FairSpec ==
  /\ Spec
  /\ WF_vars(PrepareFrame)
  /\ WF_vars(FrameSubmitted)
  /\ WF_vars(GpuFinish)
  /\ WF_vars(ObserveCompletion)
  /\ WF_vars(Update)
  /\ WF_vars(WorkerTake)
  /\ WF_vars(WorkerEncode)
  /\ WF_vars(WorkerPublish)
  /\ WF_vars(WorkerCheck)
  /\ WF_vars(WorkerExit)
  /\ WF_vars(ShutdownFinish)

-----------------------------------------------------------------------------
(* Properties.                                                             *)

In(s, t) == \E i \in DOMAIN s : s[i] = t
Increasing(s) == \A i, j \in DOMAIN s : i < j => s[i] < s[j]

InQueue(t) == In(queue, t)
InJobs(t) == In(jobs, t)
InResults(t) == \E i \in DOMAIN results : results[i].task = t

\* The encoder holds the task.
Held(t) == InJobs(t) \/ InResults(t) \/ worker.task = t

Copying(t) == active.task = t /\ active.serial # 0

\* Every capture that has not ended is remembered, can be cancelled and is in
\* the one place of the pipeline its state names, so that something will end
\* it; the encoder never holds a capture that has ended, whose flag and result
\* nobody would look at.  (CaptureTaskQueue, active_, encodeJobs_ and
\* encodeResults_ are updated by different functions of CaptureService.cpp.)
Accounted(t) ==
  /\ state[t] \notin Terminal \cup {"None"} => t \in known \cap runtimes
  /\ t \in known => state[t] # "None"
  /\ (state[t] = "Queued") <=> InQueue(t)
  /\ (state[t] = "Recording") <=> (active.task = t /\ active.serial = 0)
  /\ state[t] = "WaitingForGpu" => Copying(t)
  /\ Copying(t) => state[t] \in {"WaitingForGpu", "Cancelling"}
  /\ state[t] = "Encoding" => Held(t)
  /\ state[t] = "Cancelling" => (Copying(t) <=> ~Held(t))
  /\ Held(t) => state[t] \in {"Encoding", "Cancelling"}

TasksAccounted == \A t \in Tasks : Accounted(t)

\* The encoder is done with the task.
Encoded(t) == InResults(t) \/ state[t] = "Completed"

\* The places t and u are in say that t was requested before u: results come
\* before the worker, the worker before the jobs, the jobs before the frame, the
\* frame before the queue, and the queue before what is still to be requested.
InOrder(t, u) ==
  /\ Encoded(t) /\ worker.task = u => t < u
  /\ (Encoded(t) \/ worker.task = t) /\ InJobs(u) => t < u
  /\ (Encoded(t) \/ Held(t)) /\ active.task = u => t < u
  /\ (Encoded(t) \/ Held(t) \/ active.task = t) /\ InQueue(u) => t < u
  /\ state[t] # "None" /\ state[u] = "None" => t < u

\* Captures go through the pipeline in the order of their requests, each of
\* them once.
PipelineOrdered ==
  /\ Increasing(queue) /\ Increasing(jobs)
  /\ \A i, j \in DOMAIN results : i < j => results[i].task < results[j].task
  /\ \A t, u \in Tasks : InOrder(t, u)

\* A flag stays with a capture that is being cancelled or has ended; the worker
\* has a task while it works, the frame while it waits for the GPU; and nothing
\* enters the pipeline once the service shuts down.
StagesAgree ==
  /\ \A t \in Tasks : cancelled[t] => state[t] \in {"Cancelling"} \cup Terminal
  /\ worker.task = NoTask <=> worker.step \in {"waiting", "exited"}
  /\ active.serial # 0 => active.task # NoTask
  /\ active.serial <= submitted
  /\ stage # "running" => queue = <<>> /\ active = NoCapture
  /\ worker.step = "exited" => stage # "running" /\ jobs = <<>>

\* isValidCaptureTaskTransition allows every step a task takes, so that
\* transition() never throws out of the main loop; a cancelled result takes an
\* Encoding task through Cancelling.  update() is the place at risk: it cancels
\* on the flag as well as on the state.
TransitionsValid ==
  [][\A t \in Tasks :
       state'[t] # state[t] =>
         <<state[t], state'[t]>> \in ValidTransitions \cup {<<"Encoding", "Cancelled">>}]_vars

\* The readback buffer of a submitted capture is neither read nor released
\* before the GPU has finished the copy (update, onSwapChainRecreated and
\* shutdown each compare serials).
BufferOutlivesCopy ==
  [][active.serial # 0 /\ active' # active => active.serial <= finished]_vars

\* The image of t is in its file, unless a later capture was written to the
\* same path, which may also have removed it again.
FileKept(t) ==
  \/ file[output[t]] = t
  \/ \E u \in Tasks :
       /\ u > t /\ output[u] = output[t]
       /\ state[u] \notin {"None", "Queued", "Recording", "WaitingForGpu"}

\* The image of a completed capture is kept (encodeCapture reports success
\* after the last look at the flag), as is one whose success is on its way.
CompletedHasFile ==
  /\ \A t \in Tasks : state[t] = "Completed" => FileKept(t)
  /\ \A i \in DOMAIN results : results[i].outcome = "success" => FileKept(results[i].task)
  /\ worker.step = "published" => file[output[worker.task]] = worker.task

\* The inductive invariant: types, clock, where each capture is, in which
\* order, and what is on disk.
CaptureInvariant ==
  /\ TypeOK /\ ClockOrder
  /\ TasksAccounted /\ PipelineOrdered /\ StagesAgree
  /\ CompletedHasFile

\* Every capture that was requested ends.
CaptureEnds ==
  \A t \in Tasks : state[t] = "Queued" ~> state[t] \in Terminal

=============================================================================
