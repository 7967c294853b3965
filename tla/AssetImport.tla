---------------------------- MODULE AssetImport ----------------------------
(***************************************************************************)
(* The queue of asset tool runs: assets/AssetImportManager.cpp.            *)
(*                                                                         *)
(* The main thread requests, cancels and shuts down under mutex_; one      *)
(* worker takes a task, runs the tool in a child process and stores what   *)
(* it reports in the task's atomic state WITHOUT the mutex.  cancel()      *)
(* therefore loads and stores that state in two steps, between which the   *)
(* worker's stores may fall.  The child is code of this repository too,    *)
(* but nothing bounds how long it runs.                                    *)
(***************************************************************************)
EXTENDS Naturals, Sequences, SequencesExt, FiniteSets

CONSTANTS
  Keys,         \* kind, asset, profile and source of a request
  MaxTasks,     \* bound on the tasks a behaviour requests
  MaxHistory    \* kMaxHistory

ASSUME ImportAssumption == MaxTasks \in Nat \ {0} /\ MaxHistory \in Nat \ {0}

Tasks == 1 .. MaxTasks
NoTask == 0
NoKey == <<"none">>

Terminal == {"Completed", "Failed", "Cancelled"}
\* Importing also stands for Scanning.
States == {"Queued", "Importing", "Publishing", "Cancelling"} \cup Terminal

VARIABLES
  key,        \* of each task: what it was requested for
  state,      \* of each task: state
  cancelled,  \* of each task: *cancellation
  report,     \* of each task: completedEventReceived, with its manifestPath
  issued,     \* nextTaskId_ - 1
  pending,    \* pending_
  active,     \* active_
  history,    \* historyIds_ and the keys of tasks_
  stopping,   \* stopping_
  canceller,  \* the task cancel() has checked and not yet stored, under mutex_
  worker      \* the worker thread

taskVars == <<key, state, cancelled, report>>
queueVars == <<pending, active, history>>
importVars == <<taskVars, issued, queueVars, stopping, canceller, worker>>

\* What the tool has said of the run, in the order it says it.
Progress == {"started", "published", "completed"}

IdleWorker == [step |-> "waiting", task |-> NoTask, progress |-> "started",
               exit |-> "none", verdict |-> "none"]

Steps == {"waiting", "running", "judging", "storing", "finishing", "stopped"}

ImportTypeOK ==
  /\ key \in [Tasks -> Keys \cup {NoKey}]
  /\ state \in [Tasks -> States]
  /\ cancelled \in [Tasks -> BOOLEAN]
  /\ report \in [Tasks -> BOOLEAN]
  /\ issued \in 0 .. MaxTasks
  /\ pending \in Seq(Tasks)
  /\ active \in Tasks \cup {NoTask}
  /\ history \in Seq(Tasks)
  /\ stopping \in BOOLEAN
  /\ canceller \in Tasks \cup {NoTask}
  /\ worker \in [step : Steps, task : Tasks \cup {NoTask}, progress : Progress,
                 exit : {"none", "good", "bad"},
                 verdict : Terminal \cup {"none"}]

ImportInit ==
  /\ key = [t \in Tasks |-> NoKey]
  /\ state = [t \in Tasks |-> "Queued"]
  /\ cancelled = [t \in Tasks |-> FALSE]
  /\ report = [t \in Tasks |-> FALSE]
  /\ issued = 0
  /\ pending = <<>>
  /\ active = NoTask
  /\ history = <<>>
  /\ stopping = FALSE
  /\ canceller = NoTask
  /\ worker = IdleWorker

\* The kind of a task; a validation has nothing to publish.
Validates(t) == key[t][1] = "validation"

Done(t) == state[t] \in Terminal
MutexFree == canceller = NoTask

----------------------------------------------------------------------------
(* Called from the main thread.                                            *)

\* pruneHistoryLocked: the oldest tasks leave, up to the first that is not
\* terminal.
Pruned(h, s) ==
  LET droppable == {n \in 0 .. Len(h) : /\ Len(h) - n >= MaxHistory
                                        /\ \A i \in 1 .. n : s[h[i]] \in Terminal}
  IN IF Len(h) <= MaxHistory THEN h ELSE SubSeq(h, Max(droppable) + 1, Len(h))

\* The tasks request() merges a request for k with: it walks tasks_, whose
\* order is not specified, and there is at most one.
Mergeable(k) == {t \in ToSet(history) : key[t] = k /\ ~Done(t)}

\* request(): the task it returns is TaskFor(k).
TaskFor(k) ==
  IF Mergeable(k) # {} THEN CHOOSE t \in Mergeable(k) : TRUE ELSE issued + 1

CanRequest(k) ==
  /\ MutexFree
  /\ ~stopping
  /\ Mergeable(k) # {} \/ issued < MaxTasks

Request(k) ==
  /\ CanRequest(k)
  /\ IF Mergeable(k) # {}
       THEN UNCHANGED <<key, issued, pending, history>>
       ELSE /\ issued' = issued + 1
            /\ key' = [key EXCEPT ![issued + 1] = k]
            /\ pending' = Append(pending, issued + 1)
            /\ history' = Pruned(Append(history, issued + 1), state)
  /\ UNCHANGED <<state, cancelled, report, active, stopping, canceller, worker>>

\* cancel(), up to the store of the flag; the mutex stays locked.
CancelBegin(t) ==
  /\ MutexFree
  /\ t \in ToSet(history)
  /\ ~Done(t)
  /\ cancelled' = [cancelled EXCEPT ![t] = TRUE]
  /\ canceller' = t
  /\ UNCHANGED <<key, state, report, issued, queueVars, stopping, worker>>

\* The rest of cancel(): the state it stores depends on the state it loaded
\* in CancelBegin, whatever the worker has stored since.
CancelEnd ==
  /\ canceller # NoTask
  /\ state' = [state EXCEPT ![canceller] =
                 IF canceller = active THEN "Cancelling" ELSE "Cancelled"]
  /\ canceller' = NoTask
  /\ UNCHANGED <<key, cancelled, report, issued, queueVars, stopping, worker>>

\* Mutant: shutdown only sets stopping_, and leaves the running tool alone.
NoFlags_StopImports ==
  /\ MutexFree
  /\ ~stopping
  /\ stopping' = TRUE
  /\ UNCHANGED <<taskVars, issued, queueVars, canceller, worker>>

\* shutdown(), up to the join.
StopImports ==
  /\ MutexFree
  /\ ~stopping
  /\ stopping' = TRUE
  /\ cancelled' = [t \in Tasks |->
                     cancelled[t] \/ (t \in ToSet(history) /\ ~Done(t))]
  /\ UNCHANGED <<key, state, report, issued, queueVars, canceller, worker>>

----------------------------------------------------------------------------
(* workerLoop.                                                             *)

Take ==
  /\ worker.step = "waiting"
  /\ MutexFree
  /\ pending # <<>>
  /\ LET t == Head(pending)
     IN IF cancelled[t]
          THEN UNCHANGED <<state, active, worker>>
          ELSE /\ active' = t
               /\ state' = [state EXCEPT ![t] = "Importing"]
               /\ worker' = [IdleWorker EXCEPT !.step = "running", !.task = t]
  /\ pending' = Tail(pending)
  /\ UNCHANGED <<key, cancelled, report, issued, history, stopping, canceller>>

Stop ==
  /\ worker.step = "waiting"
  /\ MutexFree
  /\ stopping
  /\ pending = <<>>
  /\ worker' = [worker EXCEPT !.step = "stopped"]
  /\ UNCHANGED <<taskVars, issued, queueVars, stopping, canceller>>

Running == worker.step = "running"

\* applyEvent in the reader thread: the tool's lines, in the order of its
\* output.  That it has started changes nothing the properties tell apart.
\* The tool says it publishes, and does.
ToolPublishes ==
  /\ Running
  /\ worker.progress = "started"
  /\ ~Validates(worker.task)
  /\ worker' = [worker EXCEPT !.progress = "published"]
  /\ state' = [state EXCEPT ![worker.task] = "Publishing"]
  /\ UNCHANGED <<key, cancelled, report, issued, queueVars, stopping, canceller>>

ToolCompletes ==
  /\ Running
  /\ worker.progress =
       IF Validates(worker.task) THEN "started" ELSE "published"
  /\ worker' = [worker EXCEPT !.progress = "completed"]
  /\ report' = [report EXCEPT ![worker.task] = TRUE]
  /\ UNCHANGED <<key, state, cancelled, issued, queueVars, stopping, canceller>>

\* runAssetImportProcess returns: the process ended by itself, well or badly
\* (a crash, a nonzero exit, a line the reader rejects, a tool that does not
\* start).  A good exit without the completed event is judged like a bad one.
ToolExits(exit) ==
  /\ Running
  /\ exit = "good" => worker.progress = "completed"
  /\ worker' = [worker EXCEPT !.step = "judging", !.exit = exit]
  /\ UNCHANGED <<taskVars, issued, queueVars, stopping, canceller>>

\* Mutant: the flag is polled only until the tool prints its first line.
UntilOutput_CancelPoll ==
  /\ Running
  /\ worker.progress = "started"
  /\ cancelled[worker.task]
  /\ worker' = [worker EXCEPT !.step = "judging", !.exit = "bad"]
  /\ UNCHANGED <<taskVars, issued, queueVars, stopping, canceller>>

\* Or the poll of the flag, which is never lowered, terminated it.
CancelPoll ==
  /\ Running
  /\ cancelled[worker.task]
  /\ worker' = [worker EXCEPT !.step = "judging", !.exit = "bad"]
  /\ UNCHANGED <<taskVars, issued, queueVars, stopping, canceller>>

Verdict ==
  IF cancelled[worker.task] THEN "Cancelled"
  ELSE IF worker.exit = "good" THEN "Completed"
  ELSE "Failed"

\* Mutant: a failed run goes on to finish without storing its state.
SkipsFailed_Judge ==
  /\ worker.step = "judging"
  /\ worker' = [IdleWorker EXCEPT !.task = worker.task,
                   !.verdict = IF Verdict = "Failed" THEN "none" ELSE Verdict,
                   !.step = IF Verdict = "Failed" THEN "finishing" ELSE "storing"]
  /\ UNCHANGED <<taskVars, issued, queueVars, stopping, canceller>>

\* The cancellation flag is read here and the state stored in the next step.
Judge ==
  /\ worker.step = "judging"
  /\ worker' = [IdleWorker EXCEPT !.step = "storing", !.task = worker.task,
                                  !.verdict = Verdict]
  /\ UNCHANGED <<taskVars, issued, queueVars, stopping, canceller>>

StoreVerdict ==
  /\ worker.step = "storing"
  /\ state' = [state EXCEPT ![worker.task] = worker.verdict]
  /\ worker' = [worker EXCEPT !.step = "finishing", !.verdict = "none"]
  /\ UNCHANGED <<key, cancelled, report, issued, queueVars, stopping, canceller>>

Finish ==
  /\ worker.step = "finishing"
  /\ MutexFree
  /\ active' = NoTask
  /\ history' = Pruned(history, state)
  /\ worker' = IdleWorker
  /\ UNCHANGED <<taskVars, issued, pending, stopping, canceller>>

\* What the worker does by itself, without the tool.
WorkerStep == Take \/ Stop \/ CancelPoll \/ Judge \/ StoreVerdict \/ Finish

ToolSays ==
  ToolPublishes \/ ToolCompletes
    \/ \E exit \in {"good", "bad"} : ToolExits(exit)

----------------------------------------------------------------------------
(* What the queue and the worker keep.                                     *)

\* Only requested tasks are in the queue, each once and none that runs; those
\* that wait have not ended, but for cancelled ones.
QueueSound ==
  /\ ToSet(pending) \cup ToSet(history) \subseteq 1 .. issued
  /\ IsInjective(pending)
  /\ {active, canceller} \subseteq (1 .. issued) \cup {NoTask}
  /\ active \notin ToSet(pending)
  /\ \A t \in 1 .. issued : key[t] \in Keys
  /\ \A t \in Tasks : t > issued => ~Done(t)
  /\ \A t \in ToSet(pending) : cancelled[t] \/ ~Done(t)

\* The worker runs the active task, which ends by the worker's store or never.
WorkerSound ==
  /\ active = NoTask <=> worker.step \in {"waiting", "stopped"}
  /\ active # NoTask => worker.task = active
  /\ worker.step \in {"running", "judging", "storing"} => ~Done(active)
  /\ worker.step = "storing" => worker.verdict \in Terminal
  /\ worker.step = "finishing" => Done(active) \/ cancelled[active]
  /\ canceller # NoTask => cancelled[canceller]

=============================================================================
