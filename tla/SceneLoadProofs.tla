-------------------------- MODULE SceneLoadProofs --------------------------
(***************************************************************************)
(* Proofs about SceneLoad for any number of loads and submissions and any  *)
(* length of the history: no world is lost, destroyed twice or shown after *)
(* a newer one, superseded loads hold no leases, and worlds are released   *)
(* as DeferredRelease says.                                                *)
(***************************************************************************)
EXTENDS SceneLoad, SequenceTheorems, FiniteSetTheorems, TLAPS

-----------------------------------------------------------------------------
(* Sequences that lose a prefix.                                           *)

\* A prefix of 1 .. n is known by its size.
LEMMA PrefixSize ==
  ASSUME NEW n \in Nat, NEW D \in SUBSET (1 .. n), \A i \in D : \A j \in 1 .. i : j \in D
  PROVE  Cardinality(D) \in 0 .. n /\ D = 1 .. Cardinality(D)
<1>1. IsFiniteSet(1 .. n) /\ Cardinality(1 .. n) = n
  BY FS_Interval
<1>2. IsFiniteSet(D) /\ Cardinality(D) <= n
  BY <1>1, FS_Subset, ZenonT(30)
<1>3. Cardinality(D) \in Nat
  BY <1>2, FS_CardinalityType
<1>. DEFINE k == Cardinality(D)
<1>. HIDE DEF k
<1>4. k \in Nat /\ k <= n
  BY <1>2, <1>3 DEF k
<1>5. k + 1 \notin D
  <2>. SUFFICES ASSUME k + 1 \in D PROVE FALSE
    OBVIOUS
  <2>1. 1 .. k + 1 \in SUBSET D
    OBVIOUS
  <2>2. Cardinality(1 .. k + 1) = k + 1
    BY <1>4, FS_Interval
  <2>3. Cardinality(1 .. k + 1) <= Cardinality(D)
    BY <1>2, <2>1, FS_Subset
  <2>. QED BY <1>4, <2>2, <2>3 DEF k
<1>6. D \in SUBSET (1 .. k)
  <2>. SUFFICES ASSUME NEW i \in D, ~(i <= k) PROVE FALSE
    BY <1>4
  <2>1. i \in 1 .. n /\ k + 1 \in 1 .. i
    BY <1>4
  <2>. QED BY <1>5, <2>1
<1>7. IsFiniteSet(1 .. k) /\ Cardinality(1 .. k) = k
  BY <1>4, FS_Interval
<1>8. 1 .. k = D
  BY <1>6, <1>7, FS_Subset DEF k
<1>. QED BY <1>4, <1>8 DEF k

\* What is left of a sequence without its first k elements.
LEMMA SuffixOf ==
  ASSUME NEW S, NEW s \in Seq(S), NEW k \in 0 .. Len(s)
  PROVE  /\ SubSeq(s, k + 1, Len(s)) \in Seq(S)
         /\ DOMAIN SubSeq(s, k + 1, Len(s)) = 1 .. Len(s) - k
         /\ \A i \in 1 .. Len(s) - k : SubSeq(s, k + 1, Len(s))[i] = s[k + i]
<1>0. Len(s) \in Nat /\ DOMAIN s = 1 .. Len(s)
  BY LenProperties
<1>. DEFINE q == SubSeq(s, k + 1, Len(s))
<1>1. /\ q \in Seq(S) /\ Len(q) = IF k + 1 <= Len(s) THEN Len(s) - (k + 1) + 1 ELSE 0
      /\ \A i \in 1 .. Len(s) - (k + 1) + 1 : q[i] = s[(k + 1) + i - 1]
  <2>1. \A i \in (k + 1) .. Len(s) : s[i] \in S
    BY <1>0
  <2>. QED BY <1>0, <2>1, SubSeqProperties
<1>. HIDE DEF q
<1>2. Len(s) - (k + 1) + 1 = Len(s) - k
  BY <1>0
<1>3. Len(q) = Len(s) - k
  <2>1. CASE k + 1 <= Len(s)
    BY <1>1, <1>2, <2>1, Zenon
  <2>2. CASE ~(k + 1 <= Len(s))
    <3>1. \A n \in Nat : \A m \in 0 .. n : ~(m + 1 <= n) => n - m = 0
      OBVIOUS
    <3>2. Len(s) - k = 0
      BY <1>0, <2>2, <3>1
    <3>. QED BY <1>1, <2>2, <3>2, Zenon
  <2>. QED BY <2>1, <2>2
<1>4. ASSUME NEW i \in 1 .. Len(s) - k PROVE q[i] = s[k + i]
  <2>1. (k + 1) + i - 1 = k + i /\ i \in 1 .. Len(s) - (k + 1) + 1
    BY <1>0
  <2>2. q[i] = s[(k + 1) + i - 1]
    BY <1>1, <2>1, Zenon
  <2>. QED BY <2>1, <2>2, Zenon
<1>5. DOMAIN q = 1 .. Len(s) - k
  BY <1>1, <1>3, LenProperties
<1>. QED BY <1>1, <1>4, <1>5 DEF q

\* The history keeps the newest task: it has not ended.
LEMMA PruneKeepsNewest ==
  ASSUME NEW h \in Seq(Tasks), Len(h) # 0, state'[h[Len(h)]] \notin Terminal
  PROVE  Prune(h) \in Seq(Tasks) /\ h[Len(h)] \in Known(Prune(h))
<1>0. Len(h) \in Nat \ {0} /\ DOMAIN h = 1 .. Len(h)
  BY LenProperties
<1>. DEFINE popped == {n \in 1 .. Len(h) :
                   /\ n + MaxHistory <= Len(h)
                   /\ \A i \in 1 .. n : state'[h[i]] \in Terminal}
            k == Cardinality(popped)
<1>1. \A i \in popped : \A j \in 1 .. i : j \in popped
  BY <1>0, TaskBound
<1>2. k \in 0 .. Len(h) /\ popped = 1 .. k
  <2>1. popped \in SUBSET (1 .. Len(h))
    OBVIOUS
  <2>. HIDE DEF popped
  <2>. QED BY <1>0, <1>1, <2>1, PrefixSize
<1>3. Len(h) \notin popped
  BY <1>0
<1>4. Prune(h) = SubSeq(h, k + 1, Len(h))
  BY DEF Prune
<1>. HIDE DEF popped, k
<1>5. k < Len(h)
  BY <1>0, <1>2, <1>3
<1>6. /\ Prune(h) \in Seq(Tasks) /\ DOMAIN Prune(h) = 1 .. Len(h) - k
      /\ \A i \in 1 .. Len(h) - k : Prune(h)[i] = h[k + i]
  BY <1>2, <1>4, SuffixOf
<1>7. Len(h) - k \in 1 .. Len(h) - k /\ k + (Len(h) - k) = Len(h)
  BY <1>0, <1>2, <1>5
<1>8. Prune(h)[Len(h) - k] = h[Len(h)]
  BY <1>6, <1>7
<1>. QED BY <1>6, <1>7, <1>8 DEF Known

-----------------------------------------------------------------------------
(* What the invariants say of one task, and of the threads.                *)

Loading == {"LoadingModels", "LoadingEnvironment"}

TaskOK(t) ==
  /\ phase[t] \in Loading => t = latest /\ state[t] \notin Terminal /\ models[t] # "none"
  /\ phase[t] = "LoadingEnvironment" => models[t] = "ready" /\ environments[t] # "none"
  /\ t > tasks => world[t] = "None" /\ ~Holds(t)
  /\ t \in {pendingNative, worker.task} => t <= tasks /\ kind[t] = "native"
  /\ Starting(t) => /\ phase[t] \in {"Queued", "ParsingDocument", "Complete"}
                    /\ world[t] = "None" /\ ~Holds(t)
  /\ world[t] # "None" =>
         IF kind[t] = "preview" THEN state[t] = "Completed"
         ELSE phase[t] \in {"PublishingWorld", "Complete"}
  /\ kind[t] = "preview" => environments[t] = "none"
  /\ state[t] \in Terminal /\ Holds(t) =>
       kind[t] = "native" /\ t \in failed /\ phase[t] = "Complete"
  /\ t # latest /\ Holds(t) =>
       kind[t] = "native" /\ t \in failed /\ phase[t] = "Complete" /\ t \in Known(history)

MainOK ==
  /\ latest = tasks
  /\ latest # NoTask => latest \in Known(history)
  /\ update # "done" => latest # NoTask /\ kind[latest] = "native"

WorkerOK ==
  /\ IF worker.task = NoTask
     THEN worker.step # "parsing" /\ worker.stores = <<>>
     ELSE \/ worker.step = "parsing" /\ worker.stores \in ParsingStores
          \/ worker.step = "waiting" /\ worker.stores \in ParsedStores
  /\ pendingNative # NoTask => pendingNative # worker.task

TasksOK == MainOK /\ WorkerOK /\ \A t \in Tasks : TaskOK(t)

WorldsOK == ClockOrder /\ WorldsAccounted /\ UsesRecorded

Inv == TypeOK /\ WorldsOK /\ TasksOK

LEMMA InvIs == Inv <=> LoadInvariant /\ SupersededHoldsNothing
<1>1. ASSUME TypeOK
      PROVE  (\A t \in Tasks : TaskOK(t)) /\ MainOK /\ WorkerOK
               <=> /\ LoadingHoldsLeases /\ LatestOnly /\ WorkerFirst /\ EndsOnce
                   /\ SupersededHoldsNothing
  BY DEF TaskOK, MainOK, WorkerOK, LoadingHoldsLeases, LatestOnly, WorkerFirst, EndsOnce,
         SupersededHoldsNothing, Loading
<1>. QED BY <1>1 DEF Inv, LoadInvariant, TasksOK, WorldsOK

\* The environment of a task in a step: everything but the task itself.
AroundSame == UNCHANGED <<latest, tasks, history, pendingNative, worker>>

TaskSame(t) == /\ kind'[t] = kind[t] /\ state'[t] = state[t] /\ phase'[t] = phase[t]
               /\ models'[t] = models[t] /\ environments'[t] = environments[t]
               /\ world'[t] = world[t] /\ (t \in failed => t \in failed')

LEMMA SameOK ==
  ASSUME NEW t \in Tasks, TaskOK(t), AroundSame, TaskSame(t)
  PROVE  TaskOK(t)'
BY DEF TaskOK, AroundSame, TaskSame, Holds, Starting, Known

\* A task that is cancelled.
TaskCancelled(t) ==
  /\ kind'[t] = kind[t] /\ world'[t] = world[t]
  /\ state[t] \notin Terminal /\ state'[t] = "Cancelled" /\ phase'[t] = "Complete"
  /\ models'[t] = "none" /\ environments'[t] = "none"

LEMMA CancelledOK ==
  ASSUME NEW t \in Tasks, TaskOK(t), AroundSame, TaskCancelled(t)
  PROVE  TaskOK(t)'
BY DEF TaskOK, AroundSame, TaskCancelled, Holds, Starting, Known, Loading, Terminal

LEMMA CancelTasksEffect ==
  ASSUME NEW T, TypeOK, CancelTasks(T), UNCHANGED world
  PROVE  /\ \A t \in Tasks : TaskSame(t) \/ (TaskCancelled(t) /\ t \in T)
         /\ \A t \in Tasks : t \in T /\ state[t] \notin Terminal => TaskCancelled(t)
         /\ state' \in [Tasks -> States] /\ phase' \in [Tasks -> Phases]
         /\ cancellation' \in [Tasks -> BOOLEAN]
         /\ models' \in [Tasks -> Assets] /\ environments' \in [Tasks -> Assets]
         /\ UNCHANGED <<kind, failed, overtaken>>
<1>1. \A t \in Tasks : t # NoTask
  BY DEF Tasks, NoTask
<1>2. \A t \in Tasks : t \in Live(T) <=> t \in T /\ state[t] \notin Terminal
  BY <1>1 DEF Live
<1>3. /\ state' \in [Tasks -> States] /\ phase' \in [Tasks -> Phases]
      /\ \A t \in Tasks : state'[t] = IF t \in Live(T) THEN "Cancelled" ELSE state[t]
      /\ \A t \in Tasks : phase'[t] = IF t \in Live(T) THEN "Complete" ELSE phase[t]
  BY DEF CancelTasks, CancelledStates, CompletePhases, TypeOK, States, Terminal, Phases
<1>4. /\ models' \in [Tasks -> Assets] /\ environments' \in [Tasks -> Assets]
      /\ \A t \in Tasks : models'[t] = IF t \in Live(T) THEN "none" ELSE models[t]
      /\ \A t \in Tasks : environments'[t] = IF t \in Live(T) THEN "none" ELSE environments[t]
  BY DEF CancelTasks, WithoutLeases, TypeOK, Assets
<1>5. cancellation' \in [Tasks -> BOOLEAN]
  <2>1. \A t \in Tasks : (cancellation[t] \/ t \in Live(T)) \in BOOLEAN
    BY Zenon
  <2>. QED BY <2>1, Zenon DEF CancelTasks, Flagged
<1>6. UNCHANGED <<kind, failed, overtaken>>
  BY DEF CancelTasks
<1>. QED BY <1>2, <1>3, <1>4, <1>5, <1>6 DEF TaskSame, TaskCancelled

-----------------------------------------------------------------------------
(* Worlds that do not move.                                                *)

LEMMA WorldsSame ==
  ASSUME TypeOK, WorldsOK, UNCHANGED <<clockVars, worldVars>>
  PROVE  WorldsOK'
BY DEF WorldsOK, WorldsAccounted, UsesRecorded, ClockOrder, clockVars, worldVars, IsRetired

\* The clock goes on, as it does while the worlds stay.
LEMMA ClockGoesOn ==
  ASSUME TypeOK, WorldsOK, UNCHANGED worldVars, Finish \/ Observe
  PROVE  ClockTypeOK' /\ WorldsOK'
<1>1. submitted \in Nat /\ finished \in Nat /\ completed \in Nat
  BY SubmissionBound DEF TypeOK, ClockTypeOK, Serials
<1>2. submitted' = submitted
  BY DEF Finish, Observe
<1>3. ClockTypeOK' /\ ClockOrder'
  <2>1. completed <= finished /\ finished <= submitted /\ submitted <= MaxSubmissions
        /\ MaxSubmissions \in Nat
    BY SubmissionBound DEF TypeOK, WorldsOK, ClockTypeOK, ClockOrder, Serials
  <2>2. CASE Finish
    BY <1>1, <2>1, <2>2 DEF Finish, ClockTypeOK, ClockOrder, Serials
  <2>3. CASE Observe
    BY <1>1, <2>1, <2>3 DEF Observe, ClockTypeOK, ClockOrder, Serials
  <2>. QED BY <2>2, <2>3
<1>4. WorldsAccounted' /\ UsesRecorded'
  BY <1>2 DEF WorldsOK, WorldsAccounted, UsesRecorded, worldVars, IsRetired
<1>. QED BY <1>3, <1>4 DEF WorldsOK

-----------------------------------------------------------------------------
(* Requests and cancellation.                                              *)

\* A step of TypeOK that leaves the manager, the worker and the worlds alone.
LEMMA CancelKeeps ==
  ASSUME Inv, NEW t \in Tasks, Cancel(t)
  PROVE  Inv'
<1>. USE DEF Inv
<1>1. /\ CancelTasks({t}) /\ AroundSame
      /\ UNCHANGED <<clockVars, worldVars, lastFinalized, update, stage, world, kind, failed,
                     overtaken>>
  BY DEF Cancel, AroundSame, managerVars, worldVars, CancelTasks
<1>2. /\ \A u \in Tasks : TaskSame(u) \/ TaskCancelled(u)
      /\ state' \in [Tasks -> States] /\ phase' \in [Tasks -> Phases]
      /\ cancellation' \in [Tasks -> BOOLEAN]
      /\ models' \in [Tasks -> Assets] /\ environments' \in [Tasks -> Assets]
  BY <1>1, CancelTasksEffect
<1>3. TypeOK'
  BY <1>1, <1>2 DEF TypeOK, AroundSame, ClockTypeOK, clockVars, worldVars
<1>4. WorldsOK'
  BY <1>1, WorldsSame
<1>5. \A u \in Tasks : TaskOK(u)'
  BY <1>1, <1>2, SameOK, CancelledOK DEF TasksOK
<1>6. MainOK' /\ WorkerOK'
  BY <1>1 DEF TasksOK, MainOK, WorkerOK, AroundSame, Known
<1>. QED BY <1>3, <1>4, <1>5, <1>6 DEF TasksOK

\* Whatever a new task supersedes: it is the newest, and nobody else loads.
LEMMA NewTaskKeeps ==
  ASSUME Inv, update = "done", NEW k \in {"preview", "native"}, NEW superseded, latest \in superseded,
         NEW model \in Assets, NEW newState \in States \ Terminal,
         NEW newPhase \in {"Queued", "PublishingWorld"},
         k = "native" => newPhase = "Queued" /\ model = "none",
         NewTask(k, superseded, model, newState, newPhase),
         pendingNative' = IF k = "native" THEN tasks' ELSE pendingNative
  PROVE  Inv'
<1>. USE DEF Inv
<1>1. /\ UNCHANGED <<clockVars, worldVars, world, worker, lastFinalized, update, stage>>
      /\ UNCHANGED <<failed, overtaken>>
      /\ tasks + 1 <= MaxTasks /\ tasks' = tasks + 1 /\ latest' = tasks + 1
      /\ cancellation' = Flagged(superseded)
      /\ kind' = [kind EXCEPT ![tasks + 1] = k]
      /\ state' = [CancelledStates(superseded) EXCEPT ![tasks + 1] = newState]
      /\ phase' = [CompletePhases(superseded) EXCEPT ![tasks + 1] = newPhase]
      /\ history' = Prune(Append(history, tasks + 1))
      /\ models' = [OfKnown(WithoutLeases(superseded, models)) EXCEPT ![tasks + 1] = model]
      /\ environments' = OfKnown(WithoutLeases(superseded, environments))
  BY DEF NewTask, worldVars
<1>2. PICK new \in Tasks : new = tasks + 1
  BY <1>1, TaskBound DEF TypeOK, Tasks
<1>3. latest = tasks /\ tasks \in Nat /\ new > tasks /\ new # NoTask
      /\ \A t \in Tasks : t # NoTask /\ t \in Nat
  BY <1>2, TaskBound DEF TypeOK, TasksOK, MainOK, Tasks, NoTask
<1>4. \A t \in Tasks : t \in Live(superseded) <=> t \in superseded /\ state[t] \notin Terminal
  BY <1>3 DEF Live
<1>5. /\ state' \in [Tasks -> States] /\ phase' \in [Tasks -> Phases]
      /\ kind' \in [Tasks -> {"preview", "native"}]
      /\ state'[new] = newState /\ phase'[new] = newPhase /\ kind'[new] = k
      /\ \A t \in Tasks : t # new =>
           /\ kind'[t] = kind[t]
           /\ state'[t] = IF t \in Live(superseded) THEN "Cancelled" ELSE state[t]
           /\ phase'[t] = IF t \in Live(superseded) THEN "Complete" ELSE phase[t]
  BY <1>1, <1>2 DEF CancelledStates, CompletePhases, TypeOK, States, Terminal, Phases
<1>6. /\ models' \in [Tasks -> Assets] /\ environments' \in [Tasks -> Assets]
      /\ models'[new] = model
      /\ \A t \in Tasks : t # new =>
           models'[t] = IF t \in Live(superseded) \/ t \notin Known(history') THEN "none" ELSE models[t]
      /\ \A t \in Tasks :
           environments'[t] =
             IF t \in Live(superseded) \/ t \notin Known(history') THEN "none" ELSE environments[t]
  BY <1>1, <1>2 DEF OfKnown, WithoutLeases, TypeOK, Assets
<1>7. cancellation' \in [Tasks -> BOOLEAN]
  <2>1. \A t \in Tasks : (cancellation[t] \/ t \in Live(superseded)) \in BOOLEAN
    BY Zenon
  <2>. QED BY <1>1, <2>1, Zenon DEF Flagged
<1>8. history' \in Seq(Tasks) /\ new \in Known(history')
  <2>. DEFINE h == Append(history, new)
  <2>1. h \in Seq(Tasks) /\ Len(h) = Len(history) + 1 /\ h[Len(h)] = new /\ Len(history) \in Nat
    BY AppendProperties, LenProperties DEF TypeOK
  <2>2. state'[new] \notin Terminal
    BY <1>5
  <2>3. history' = Prune(h)
    BY <1>1, <1>2
  <2>. HIDE DEF h
  <2>4. Len(h) # 0
    BY <2>1
  <2>. QED BY <2>1, <2>2, <2>3, <2>4, PruneKeepsNewest
<1>9. TypeOK'
  BY <1>1, <1>2, <1>5, <1>6, <1>7, <1>8, TaskBound DEF TypeOK, ClockTypeOK, clockVars, worldVars, Tasks
<1>10. WorldsOK'
  BY <1>1, WorldsSame
<1>11. MainOK'
  BY <1>1, <1>2, <1>8 DEF MainOK
<1>12. WorkerOK'
  <2>1. worker.task # new
    BY <1>2, <1>3 DEF TasksOK, TaskOK
  <2>2. pendingNative' # NoTask => pendingNative' # worker'.task
    BY <1>1, <1>2, <2>1 DEF TasksOK, WorkerOK
  <2>. QED BY <1>1, <2>2 DEF TasksOK, WorkerOK
<1>13. TaskOK(new)'
  <2>1. TaskOK(new) /\ ~Holds(new) /\ world[new] = "None" /\ worker.task # new /\ pendingNative # new
    BY <1>2, <1>3 DEF TasksOK, TaskOK
  <2>2. environments'[new] = "none" /\ world'[new] = "None" /\ worker'.task # new
    BY <1>1, <1>6, <2>1 DEF Holds
  <2>3. pendingNative' = new <=> k = "native"
    BY <1>1, <1>2, <2>1
  <2>4. new = latest' /\ new <= tasks' /\ ~(new > tasks')
    BY <1>1, <1>2, <1>3
  <2>5. state'[new] \notin Terminal /\ kind'[new] = k /\ phase'[new] = newPhase
        /\ models'[new] = model
    BY <1>5, <1>6
  <2>6. CASE k = "native"
    BY <2>2, <2>4, <2>5, <2>6 DEF TaskOK, Holds, Loading
  <2>7. CASE k = "preview"
    <3>1. ~Starting(new)' /\ pendingNative' # new
      BY <2>2, <2>3, <2>7 DEF Starting
    <3>. QED BY <2>2, <2>4, <2>5, <2>7, <3>1 DEF TaskOK, Holds, Loading
  <2>. QED BY <2>6, <2>7
<1>14. ASSUME NEW t \in Tasks, t # new PROVE TaskOK(t)'
  <2>1. TaskOK(t) /\ t # latest' /\ world'[t] = world[t] /\ worker' = worker
        /\ (pendingNative' = t => pendingNative = t)
        /\ (t > tasks' => t > tasks) /\ (t <= tasks => t <= tasks')
    BY <1>1, <1>2, <1>3, <1>14 DEF TasksOK
  <2>2. t = latest => t \in Live(superseded) \/ state[t] \in Terminal
    BY <1>4
  <2>3. CASE t \in Live(superseded)
    <3>1. state[t] \notin Terminal
      BY <1>4, <2>3
    <3>2. state'[t] = "Cancelled" /\ phase'[t] = "Complete" /\ ~Holds(t)'
          /\ kind'[t] = kind[t] /\ environments'[t] = "none"
      BY <1>5, <1>6, <1>14, <2>3 DEF Holds
    <3>. QED BY <2>1, <3>1, <3>2 DEF TaskOK, Loading, Starting, Terminal
  <2>4. CASE t \notin Live(superseded)
    <3>1. state'[t] = state[t] /\ phase'[t] = phase[t] /\ kind'[t] = kind[t]
      BY <1>5, <1>14, <2>4
    <3>2. phase[t] \notin Loading
      BY <2>1, <2>2, <2>4 DEF TaskOK
    <3>3. Holds(t)' => Holds(t) /\ t \in Known(history')
      BY <1>6, <1>14 DEF Holds
    <3>4. environments[t] = "none" => environments'[t] = "none"
      BY <1>6
    <3>5. t # latest \/ state[t] \in Terminal
      BY <2>2, <2>4
    <3>6. Starting(t)' => Starting(t)
      BY <2>1 DEF Starting
    <3>7. failed' = failed
      BY <1>1
    <3>. QED BY <2>1, <3>1, <3>2, <3>3, <3>4, <3>5, <3>6, <3>7 DEF TaskOK, Loading
  <2>. QED BY <2>3, <2>4
<1>. QED BY <1>9, <1>10, <1>11, <1>12, <1>13, <1>14 DEF TasksOK

LEMMA RequestsKeep ==
  ASSUME Inv, RequestPreview \/ RequestNative
  PROVE  Inv'
<1>1. CASE RequestNative
  <2>1. "Queued" \in States \ Terminal /\ "none" \in Assets
    BY DEF States, Terminal, Assets
  <2>. QED BY <1>1, <2>1, NewTaskKeeps DEF RequestNative, MainIdle
<1>2. CASE RequestPreview
  <2>1. /\ {"Uploading", "ReadyToPublish"} \subseteq States \ Terminal
        /\ {"loading", "ready"} \subseteq Assets
    BY DEF States, Terminal, Assets
  <2>2. \/ NewTask("preview", {latest}, "loading", "Uploading", "Queued")
        \/ NewTask("preview", {latest}, "ready", "ReadyToPublish", "PublishingWorld")
    BY <1>2 DEF RequestPreview
  <2>3. update = "done" /\ pendingNative' = pendingNative
    BY <1>2 DEF RequestPreview, MainIdle
  <2>4. CASE NewTask("preview", {latest}, "loading", "Uploading", "Queued")
    BY <2>1, <2>3, <2>4, NewTaskKeeps
  <2>5. CASE NewTask("preview", {latest}, "ready", "ReadyToPublish", "PublishingWorld")
    BY <2>1, <2>3, <2>5, NewTaskKeeps
  <2>. QED BY <2>2, <2>4, <2>5
<1>. QED BY <1>1, <1>2

-----------------------------------------------------------------------------
(* Worlds that are retired and published.                                  *)

RetiredWorlds == [task : Tasks, serial : Serials]

LEMMA RetiredFields ==
  ASSUME TypeOK
  PROVE  /\ retired \in Seq(RetiredWorlds) /\ DOMAIN retired = 1 .. Len(retired)
         /\ Len(retired) \in Nat
         /\ \A i \in DOMAIN retired :
              retired[i] \in RetiredWorlds /\ retired[i].task \in Tasks
              /\ retired[i].serial \in Serials
<1>1. retired \in Seq(RetiredWorlds) /\ DOMAIN retired = 1 .. Len(retired) /\ Len(retired) \in Nat
  BY LenProperties DEF TypeOK, RetiredWorlds
<1>2. \A i \in 1 .. Len(retired) : retired[i] \in RetiredWorlds
  BY <1>1
<1>. QED BY <1>1, <1>2 DEF RetiredWorlds

LEMMA RetireKeeps ==
  ASSUME TypeOK, WorldsOK, retired' = WithRetired(current)
  PROVE  /\ retired' \in Seq(RetiredWorlds)
         /\ \A u \in Tasks : IsRetired(u)' <=> IsRetired(u) \/ u = current
         /\ \A i, j \in DOMAIN retired' :
              i < j => /\ retired'[i].serial <= retired'[j].serial
                       /\ retired'[i].task < retired'[j].task
         /\ \A i \in DOMAIN retired' : /\ retired'[i].task \in Tasks
                                       /\ retired'[i].serial <= submitted
                                       /\ lastUse[retired'[i].task] <= retired'[i].serial
<1>1. /\ retired \in Seq(RetiredWorlds) /\ DOMAIN retired = 1 .. Len(retired)
      /\ Len(retired) \in Nat
      /\ \A i \in DOMAIN retired : retired[i] \in RetiredWorlds /\ retired[i].task \in Tasks
                                   /\ retired[i].serial \in Serials
  BY RetiredFields
<1>2. \A u \in Tasks : u # NoTask
  BY DEF Tasks, NoTask
<1>3. CASE current = NoTask
  <2>1. retired' = retired
    BY <1>3 DEF WithRetired
  <2>. QED BY <1>1, <1>2, <1>3, <2>1 DEF IsRetired, WorldsOK, WorldsAccounted, UsesRecorded
<1>4. CASE current # NoTask
  <2>. DEFINE r == [task |-> current, serial |-> submitted]
  <2>1. current \in Tasks /\ submitted \in Serials
    BY <1>4 DEF TypeOK, ClockTypeOK
  <2>2. r \in RetiredWorlds /\ r.task = current /\ r.serial = submitted
    BY <2>1 DEF RetiredWorlds
  <2>3. retired' = Append(retired, r)
    BY <1>4 DEF WithRetired
  <2>. HIDE DEF r
  <2>4. /\ retired' \in Seq(RetiredWorlds) /\ DOMAIN retired' = 1 .. Len(retired) + 1
        /\ \A i \in 1 .. Len(retired) : retired'[i] = retired[i]
        /\ retired'[Len(retired) + 1] = r
    BY <1>1, <2>2, <2>3, AppendProperties, LenProperties
  <2>5. \A i \in 1 .. Len(retired) : retired[i].task < current /\ retired[i].serial <= submitted
    BY <1>1, <1>4 DEF WorldsOK, WorldsAccounted, UsesRecorded
  <2>6. ASSUME NEW u \in Tasks PROVE IsRetired(u)' <=> IsRetired(u) \/ u = current
    <3>1. IsRetired(u)' <=> \E i \in 1 .. Len(retired) + 1 : retired'[i].task = u
      BY <2>4 DEF IsRetired
    <3>2. IsRetired(u) <=> \E i \in 1 .. Len(retired) : retired[i].task = u
      BY <1>1 DEF IsRetired
    <3>. QED BY <1>1, <2>2, <2>4, <3>1, <3>2
  <2>7. ASSUME NEW i \in DOMAIN retired', NEW j \in DOMAIN retired', i < j
        PROVE  retired'[i].serial <= retired'[j].serial /\ retired'[i].task < retired'[j].task
    <3>1. i \in 1 .. Len(retired) /\ (j \in 1 .. Len(retired) \/ j = Len(retired) + 1)
      BY <1>1, <2>4, <2>7
    <3>2. CASE j \in 1 .. Len(retired)
      BY <1>1, <2>4, <2>7, <3>1, <3>2 DEF WorldsOK, WorldsAccounted
    <3>3. CASE j = Len(retired) + 1
      BY <2>2, <2>4, <2>5, <3>1, <3>3
    <3>. QED BY <3>1, <3>2, <3>3
  <2>8. ASSUME NEW i \in DOMAIN retired'
        PROVE  /\ retired'[i].task \in Tasks
               /\ retired'[i].serial <= submitted
               /\ lastUse[retired'[i].task] <= retired'[i].serial
    <3>1. i \in 1 .. Len(retired) \/ i = Len(retired) + 1
      BY <1>1, <2>4
    <3>2. CASE i \in 1 .. Len(retired)
      BY <1>1, <2>4, <3>2 DEF WorldsOK, UsesRecorded
    <3>3. CASE i = Len(retired) + 1
      <4>1. submitted <= submitted
        BY SubmissionBound DEF TypeOK, ClockTypeOK, Serials
      <4>. QED BY <2>1, <2>2, <2>4, <3>3, <4>1 DEF WorldsOK, UsesRecorded
    <3>. QED BY <3>1, <3>2, <3>3
  <2>. QED BY <2>4, <2>6, <2>7, <2>8
<1>. QED BY <1>3, <1>4

\* The latest task publishes its world: it is the first of this task and newer
\* than every other.
LEMMA PublishKeeps ==
  ASSUME Inv, UNCHANGED <<clockVars, tasks, latest>>, latest # NoTask, world[latest] = "None",
         PublishWorld(latest)
  PROVE  /\ WorldsOK' /\ retired' \in Seq(RetiredWorlds) /\ current' = latest /\ latest \in Tasks
         /\ lastUse' = lastUse /\ world' \in [Tasks -> {"None", "Live", "Released"}]
         /\ \A u \in Tasks : world'[u] = IF u = latest THEN "Live" ELSE world[u]
<1>. USE DEF Inv
<1>1. /\ retired' = WithRetired(current) /\ current' = latest /\ lastUse' = lastUse
      /\ world' = [world EXCEPT ![latest] = "Live"] /\ latest \in Tasks
  BY DEF PublishWorld, TypeOK
<1>2. /\ world' \in [Tasks -> {"None", "Live", "Released"}]
      /\ \A u \in Tasks : world'[u] = IF u = latest THEN "Live" ELSE world[u]
  BY <1>1 DEF TypeOK
<1>3. /\ retired' \in Seq(RetiredWorlds)
      /\ \A u \in Tasks : IsRetired(u)' <=> IsRetired(u) \/ u = current
      /\ \A i, j \in DOMAIN retired' :
              i < j => /\ retired'[i].serial <= retired'[j].serial
                       /\ retired'[i].task < retired'[j].task
      /\ \A i \in DOMAIN retired' : /\ retired'[i].task \in Tasks
                                    /\ retired'[i].serial <= submitted
                                    /\ lastUse[retired'[i].task] <= retired'[i].serial
  BY <1>1, RetireKeeps
<1>4. \A u \in Tasks : world[u] = "Live" => u < latest
  <2>1. \A u \in Tasks : u > tasks => world[u] = "None"
    BY DEF TasksOK, TaskOK
  <2>2. latest = tasks /\ tasks \in Nat /\ \A u \in Tasks : u \in Nat
    BY TaskBound DEF TasksOK, MainOK, TypeOK, Tasks
  <2>. QED BY <2>1, <2>2
<1>5. \A u \in Tasks : IsRetired(u)' => u < latest
  BY <1>3, <1>4 DEF WorldsOK, WorldsAccounted
<1>6. \A i \in DOMAIN retired' : retired'[i].task < latest
  BY <1>3, <1>5 DEF IsRetired
<1>7. \A u \in Tasks : world'[u] = "Live" <=> (u = current' \/ IsRetired(u)')
  <2>1. ~(latest < latest)
    BY <1>1 DEF Tasks
  <2>. QED BY <1>1, <1>2, <1>3, <1>5, <2>1 DEF WorldsOK, WorldsAccounted
<1>8. WorldsAccounted'
  BY <1>1, <1>3, <1>6, <1>7 DEF WorldsAccounted
<1>9. UsesRecorded' /\ ClockOrder'
  BY <1>1, <1>3 DEF WorldsOK, UsesRecorded, ClockOrder, clockVars
<1>. QED BY <1>1, <1>2, <1>3, <1>8, <1>9 DEF WorldsOK

-----------------------------------------------------------------------------
(* updateSceneLoading.                                                     *)

\* An update writes to the latest task, and may publish its world.
WorldsTyped ==
  /\ world \in [Tasks -> {"None", "Live", "Released"}] /\ lastUse \in [Tasks -> Serials]
  /\ current \in Tasks \cup {NoTask} /\ retired \in Seq(RetiredWorlds)

LEMMA LatestWritten ==
  ASSUME Inv, NEW t \in Tasks, t = latest, UNCHANGED updateFrame,
         NEW s \in States, NEW p \in Phases, NEW m \in Assets, NEW e \in Assets,
         state' = [state EXCEPT ![t] = s], phase' = [phase EXCEPT ![t] = p],
         models' = [models EXCEPT ![t] = m], environments' = [environments EXCEPT ![t] = e],
         failed' \in {failed, failed \cup {t}},
         lastFinalized' \in Tasks \cup {NoTask}, update' \in {"done", "refreshed", "checked"},
         update' # "done" => kind[t] = "native",
         WorldsOK', WorldsTyped', \A u \in Tasks : u # t => world'[u] = world[u],
         TaskOK(t)'
  PROVE  Inv'
<1>. USE DEF Inv
<1>1. /\ AroundSame /\ UNCHANGED <<submitted, finished, completed, kind, cancellation, stage>>
      /\ overtaken' = overtaken /\ failed \subseteq failed'
  BY DEF updateFrame, AroundSame, managerVars, clockVars
<1>2. /\ state' \in [Tasks -> States] /\ phase' \in [Tasks -> Phases]
      /\ models' \in [Tasks -> Assets] /\ environments' \in [Tasks -> Assets]
      /\ \A u \in Tasks : u # t => /\ state'[u] = state[u] /\ phase'[u] = phase[u]
                                   /\ models'[u] = models[u] /\ environments'[u] = environments[u]
  BY DEF TypeOK
<1>3. TypeOK'
  <2>1. failed' \subseteq Tasks
    BY DEF TypeOK
  <2>. QED BY <1>1, <1>2, <2>1 DEF TypeOK, WorldsTyped, RetiredWorlds, ClockTypeOK, AroundSame
<1>4. ASSUME NEW u \in Tasks, u # t PROVE TaskOK(u)'
  <2>1. TaskSame(u)
    BY <1>1, <1>2, <1>4 DEF TaskSame
  <2>. QED BY <1>1, <2>1, SameOK DEF TasksOK
<1>5. MainOK' /\ WorkerOK'
  <2>1. t # NoTask
    BY DEF Tasks, NoTask
  <2>. QED BY <1>1, <2>1 DEF TasksOK, MainOK, WorkerOK, AroundSame, Known
<1>. QED BY <1>3, <1>4, <1>5 DEF TasksOK

\* What the worker is done with keeps its phase to the main thread.
LEMMA StillSame ==
  ASSUME TypeOK, WorldsOK, UNCHANGED updateFrame, UNCHANGED worldVars
  PROVE  WorldsOK' /\ WorldsTyped' /\ \A u \in Tasks : world'[u] = world[u]
<1>1. UNCHANGED clockVars
  BY DEF updateFrame
<1>2. UNCHANGED <<world, lastUse, current, retired>>
  BY DEF worldVars
<1>. QED BY <1>1, <1>2, WorldsSame DEF TypeOK, WorldsTyped, RetiredWorlds

LEMMA PreviewKeeps ==
  ASSUME Inv, UpdatePreview
  PROVE  Inv'
<1>. USE DEF Inv
<1>1. /\ update = "done" /\ latest # NoTask /\ kind[latest] = "preview"
      /\ PreviewEnds(latest) \/ PreviewPublishes(latest)
      /\ UNCHANGED <<updateFrame, environments, failed, update>>
  BY DEF UpdatePreview, MainIdle, Updated
<1>2. PICK t \in Tasks : t = latest
  BY <1>1 DEF TypeOK
<1>3. TaskOK(t) /\ environments[t] = "none" /\ ~Starting(t) /\ t \notin {pendingNative, worker.task}
  BY <1>1, <1>2 DEF TasksOK, TaskOK, Starting
<1>4. environments' = [environments EXCEPT ![t] = "none"] /\ "none" \in Assets
      /\ "Complete" \in Phases /\ {"Completed", "Cancelled", "Failed"} \subseteq States
  BY <1>1, <1>3 DEF TypeOK, Assets, Phases, States, Terminal
<1>5. AroundSame /\ kind' = kind
  BY <1>1 DEF updateFrame, AroundSame, managerVars
<1>6. ~Starting(t)' /\ t \notin {pendingNative', worker'.task}
  BY <1>3, <1>5 DEF AroundSame, Starting
<1>7. ASSUME NEW s \in Terminal, s = "Completed" \/ world'[t] = "None",
             state'[t] = s, phase'[t] = "Complete", models'[t] = "none", environments'[t] = "none"
      PROVE  TaskOK(t)'
  <2>1. ~Holds(t)'
    BY <1>7 DEF Holds
  <2>2. t > tasks' => world'[t] = "None"
    <3>1. ~(t > tasks)
      BY <1>2, TaskBound DEF TasksOK, MainOK, TypeOK, Tasks
    <3>. QED BY <1>5, <3>1 DEF AroundSame
  <2>. QED BY <1>1, <1>2, <1>3, <1>5, <1>6, <1>7, <2>1, <2>2 DEF TaskOK, Loading
<1>8. CASE PreviewEnds(latest)
  <2>1. PICK s \in {"Cancelled", "Failed"} :
          /\ state' = [state EXCEPT ![t] = s] /\ phase' = [phase EXCEPT ![t] = "Complete"]
          /\ models' = [models EXCEPT ![t] = "none"] /\ lastFinalized' = t
          /\ UNCHANGED worldVars /\ state[t] # "Completed"
    BY <1>2, <1>8 DEF PreviewEnds, FailureState, Terminal
  <2>2. WorldsOK' /\ WorldsTyped' /\ \A u \in Tasks : world'[u] = world[u]
    BY <1>1, <2>1, StillSame
  <2>3. world[t] = "None"
    BY <1>1, <1>2, <1>3, <2>1 DEF TaskOK
  <2>4. state'[t] = s /\ phase'[t] = "Complete" /\ models'[t] = "none" /\ environments'[t] = "none"
    BY <1>4, <2>1 DEF TypeOK
  <2>5. TaskOK(t)'
    BY <1>7, <2>2, <2>3, <2>4 DEF Terminal
  <2>. QED BY <1>1, <1>2, <1>4, <2>1, <2>2, <2>5, LatestWritten
<1>9. CASE PreviewPublishes(latest)
  <2>1. /\ state' = [state EXCEPT ![t] = "Completed"] /\ phase' = [phase EXCEPT ![t] = "Complete"]
        /\ models' = [models EXCEPT ![t] = "none"] /\ lastFinalized' = t
        /\ PublishWorld(latest) /\ state[t] \notin Terminal
    BY <1>2, <1>9 DEF PreviewPublishes
  <2>2. world[t] = "None"
    BY <1>1, <1>2, <1>3, <2>1 DEF TaskOK, Terminal
  <2>3. UNCHANGED <<clockVars, tasks, latest>>
    BY <1>1 DEF updateFrame, managerVars
  <2>4. /\ WorldsOK' /\ WorldsTyped' /\ \A u \in Tasks : u # t => world'[u] = world[u]
    BY <1>1, <1>2, <2>1, <2>2, <2>3, PublishKeeps DEF WorldsTyped, TypeOK
  <2>5. state'[t] = "Completed" /\ phase'[t] = "Complete" /\ models'[t] = "none"
        /\ environments'[t] = "none"
    BY <1>4, <2>1 DEF TypeOK
  <2>6. TaskOK(t)'
    BY <1>7, <2>5 DEF Terminal
  <2>. QED BY <1>1, <1>2, <1>4, <2>1, <2>4, <2>6, LatestWritten
<1>. QED BY <1>1, <1>8, <1>9

\* The first two thirds of a native update.
LEMMA NativeLooksKeep ==
  ASSUME Inv, RefreshNative \/ NativeEnds \/ NativeGoesOn
  PROVE  Inv'
<1>. USE DEF Inv
<1>1. latest # NoTask /\ kind[latest] = "native" /\ UNCHANGED updateFrame /\ UNCHANGED worldVars
  BY DEF RefreshNative, NativeEnds, NativeGoesOn, TasksOK, MainOK, Updated
<1>2. PICK t \in Tasks : t = latest
  BY <1>1 DEF TypeOK
<1>3. TaskOK(t)
  BY DEF TasksOK
<1>4. AroundSame /\ kind' = kind
  BY <1>1 DEF updateFrame, AroundSame, managerVars
<1>5. WorldsOK' /\ WorldsTyped' /\ \A u \in Tasks : world'[u] = world[u]
  BY <1>1, StillSame
<1>6. /\ "none" \in Assets /\ "Complete" \in Phases
      /\ {"Cancelled", "Failed"} \subseteq States /\ state[t] \in States /\ phase[t] \in Phases
      /\ models[t] \in Assets /\ environments[t] \in Assets
  BY DEF TypeOK, Assets, Phases, States, Terminal
<1>7. ASSUME NEW s \in {"Cancelled", "Failed"}, NEW m \in {"none", models[t]},
             state' = [state EXCEPT ![t] = s], phase' = [phase EXCEPT ![t] = "Complete"],
             models' = [models EXCEPT ![t] = m],
             environments' = [environments EXCEPT ![t] = "none"],
             failed' = failed, m = "none" \/ state[t] \in Terminal,
             lastFinalized' \in Tasks \cup {NoTask}, update' \in {"done", "refreshed"}
      PROVE  Inv'
  <2>1. state'[t] = s /\ phase'[t] = "Complete" /\ models'[t] = m /\ environments'[t] = "none"
    BY <1>7 DEF TypeOK
  <2>2. Holds(t)' => Holds(t) /\ t \in failed'
    <3>1. Holds(t)' => m # "none" /\ Holds(t)
      BY <2>1 DEF Holds
    <3>. QED BY <1>3, <1>7, <3>1 DEF TaskOK
  <2>3. /\ Starting(t)' <=> Starting(t)
        /\ t \in {pendingNative', worker'.task} <=> t \in {pendingNative, worker.task}
    BY <1>4 DEF AroundSame, Starting
  <2>4. TaskOK(t)'
    BY <1>1, <1>2, <1>3, <1>4, <1>5, <1>7, <2>1, <2>2, <2>3 DEF TaskOK, Loading, AroundSame
  <2>. QED BY <1>1, <1>2, <1>5, <1>6, <1>7, <2>4, LatestWritten
<1>8. ASSUME UNCHANGED <<state, phase, models, environments, failed, lastFinalized>>,
             update' \in {"refreshed", "checked"}
      PROVE  Inv'
  <2>1. /\ state' = [state EXCEPT ![t] = state[t]] /\ phase' = [phase EXCEPT ![t] = phase[t]]
        /\ models' = [models EXCEPT ![t] = models[t]]
        /\ environments' = [environments EXCEPT ![t] = environments[t]]
    BY <1>8 DEF TypeOK
  <2>2. TaskSame(t)
    BY <1>4, <1>5, <1>8 DEF TaskSame
  <2>3. TaskOK(t)'
    BY <1>3, <1>4, <2>2, SameOK
  <2>4. lastFinalized' \in Tasks \cup {NoTask}
    BY <1>8 DEF TypeOK
  <2>5. /\ state[t] \in States /\ phase[t] \in Phases
        /\ models[t] \in Assets /\ environments[t] \in Assets
        /\ kind[t] = "native" /\ update' \in {"done", "refreshed", "checked"}
    BY <1>1, <1>2, <1>6, <1>8
  <2>6. WorldsOK' /\ WorldsTyped' /\ \A u \in Tasks : u # t => world'[u] = world[u]
    BY <1>5
  <2>7. failed' \in {failed, failed \cup {t}}
    BY <1>8
  <2>. QED BY <1>1, <1>2, <2>1, <2>3, <2>4, <2>5, <2>6, <2>7, LatestWritten
<1>9. CASE RefreshNative
  <2>1. update' = "refreshed" /\ lastFinalized' = lastFinalized /\ failed' = failed
    BY <1>9 DEF RefreshNative
  <2>2. CASE Unsettled(latest)
    <3>1. /\ state' = [state EXCEPT ![t] = "Cancelled"] /\ phase' = [phase EXCEPT ![t] = "Complete"]
          /\ models' = [models EXCEPT ![t] = "none"]
          /\ environments' = [environments EXCEPT ![t] = "none"]
      BY <1>2, <1>9, <2>2 DEF RefreshNative, Updated
    <3>2. lastFinalized' \in Tasks \cup {NoTask}
      BY <2>1 DEF TypeOK
    <3>. QED BY <1>7, <2>1, <3>1, <3>2
  <2>3. CASE ~Unsettled(latest)
    BY <1>8, <1>9, <2>1, <2>3 DEF RefreshNative, Updated
  <2>. QED BY <2>2, <2>3
<1>10. CASE NativeEnds
  <2>1. PICK s \in {"Cancelled", "Failed"} :
          /\ state' = [state EXCEPT ![t] = s] /\ phase' = [phase EXCEPT ![t] = "Complete"]
          /\ models' = models /\ environments' = [environments EXCEPT ![t] = "none"]
          /\ lastFinalized' = t /\ update' = "done" /\ failed' = failed
    BY <1>2, <1>10 DEF NativeEnds, FailureState, Updated
  <2>2. models' = [models EXCEPT ![t] = models[t]]
    BY <2>1 DEF TypeOK
  <2>3. state[t] \in Terminal
    BY <1>2, <1>10 DEF NativeEnds, Updated, Terminal
  <2>. QED BY <1>7, <2>1, <2>2, <2>3
<1>11. CASE NativeGoesOn
  BY <1>8, <1>11 DEF NativeGoesOn
<1>. QED BY <1>9, <1>10, <1>11

\* What the last third does to a task that is past the worker.
Advances(t, m, e) ==
  \/ Fails(t, m, e)
  \/ m # "none" /\ Waits(t, m, e, "Uploading", "LoadingModels")
  \/ m = "ready" /\ e # "none" /\ Waits(t, m, e, "WaitingForGpu", "LoadingEnvironment")
  \/ NativePublishes(t)

LEMMA LoadsAdvance ==
  ASSUME NEW t \in Tasks, NEW m \in Assets, NEW e \in Assets,
         LoadsModels(t, m, e) \/ (LoadsEnvironments(t, m, e) /\ m = "ready" /\ e # "none")
  PROVE  Advances(t, m, e)
BY Zenon DEF LoadsModels, LoadsEnvironments, Publishes, Advances

LEMMA AdvancesKeep ==
  ASSUME Inv, NEW t \in Tasks, t = latest, kind[t] = "native",
         phase[t] \notin {"Queued", "ParsingDocument", "Complete", "PublishingWorld"},
         NEW m \in Assets, NEW e \in Assets, Advances(t, m, e),
         UNCHANGED updateFrame, update' = "done"
  PROVE  Inv'
<1>. USE DEF Inv
<1>1. TaskOK(t) /\ world[t] = "None" /\ ~Starting(t)
  BY DEF TasksOK, TaskOK
<1>2. AroundSame /\ kind' = kind
  BY DEF updateFrame, AroundSame, managerVars
<1>3. /\ ~Starting(t)' /\ t = latest' /\ (t > tasks' <=> t > tasks) /\ kind'[t] = "native"
      /\ t \in {pendingNative', worker'.task} => t <= tasks'
  BY <1>1, <1>2 DEF AroundSame, Starting, TaskOK
<1>4. ~(t > tasks')
  BY <1>2, <1>3, TaskBound DEF TasksOK, MainOK, TypeOK, Tasks
<1>5. /\ "none" \in Assets /\ {"Complete", "PublishingWorld", "LoadingModels", "LoadingEnvironment"} \subseteq Phases
      /\ {"Cancelled", "Failed", "Completed", "ReadyToPublish", "Uploading", "WaitingForGpu"} \subseteq States
  BY DEF Assets, Phases, States, Terminal
<1>6. ASSUME UNCHANGED <<lastFinalized, worldVars>>, NEW s \in States, NEW p \in Phases,
             \/ s = "Failed" /\ p = "Complete" /\ t \in failed'
             \/ s = "Uploading" /\ p = "LoadingModels" /\ m # "none"
             \/ s = "WaitingForGpu" /\ p = "LoadingEnvironment" /\ m = "ready" /\ e # "none",
             state' = [state EXCEPT ![t] = s], phase' = [phase EXCEPT ![t] = p],
             models' = [models EXCEPT ![t] = m], environments' = [environments EXCEPT ![t] = e],
             failed' \in {failed, failed \cup {t}}
      PROVE  Inv'
  <2>1. WorldsOK' /\ WorldsTyped' /\ \A u \in Tasks : world'[u] = world[u]
    BY <1>6, StillSame
  <2>2. state'[t] = s /\ phase'[t] = p /\ models'[t] = m /\ environments'[t] = e
    BY <1>6 DEF TypeOK
  <2>3. TaskOK(t)'
    BY <1>1, <1>3, <1>4, <1>6, <2>1, <2>2 DEF TaskOK, Loading, Terminal
  <2>4. lastFinalized' \in Tasks \cup {NoTask}
    BY <1>6 DEF TypeOK
  <2>. QED BY <1>6, <2>1, <2>3, <2>4, LatestWritten
<1>7. CASE NativePublishes(t)
  <2>1. PICK s \in {"Completed", "ReadyToPublish"}, p \in {"Complete", "PublishingWorld"} :
          /\ state' = [state EXCEPT ![t] = s] /\ phase' = [phase EXCEPT ![t] = p]
          /\ models' = [models EXCEPT ![t] = "none"]
          /\ environments' = [environments EXCEPT ![t] = "none"]
          /\ lastFinalized' = t /\ PublishWorld(t) /\ failed' = failed
    BY <1>7 DEF NativePublishes, FinalizedState, FinalizedPhase
  <2>2. UNCHANGED <<clockVars, tasks, latest>> /\ t # NoTask
    BY DEF updateFrame, managerVars, Tasks, NoTask
  <2>3. WorldsOK' /\ WorldsTyped' /\ \A u \in Tasks : u # t => world'[u] = world[u]
    BY <1>1, <2>1, <2>2, PublishKeeps DEF WorldsTyped, TypeOK
  <2>4. state'[t] = s /\ phase'[t] = p /\ models'[t] = "none" /\ environments'[t] = "none"
    BY <2>1 DEF TypeOK
  <2>5. TaskOK(t)'
    BY <1>3, <1>4, <2>1, <2>4 DEF TaskOK, Loading, Holds
  <2>. QED BY <1>5, <2>1, <2>3, <2>5, LatestWritten
<1>8. CASE Fails(t, m, e)
  BY <1>5, <1>6, <1>8 DEF Fails
<1>9. CASE m # "none" /\ Waits(t, m, e, "Uploading", "LoadingModels")
  BY <1>5, <1>6, <1>9 DEF Waits
<1>10. CASE m = "ready" /\ e # "none" /\ Waits(t, m, e, "WaitingForGpu", "LoadingEnvironment")
  BY <1>5, <1>6, <1>10 DEF Waits
<1>. QED BY <1>7, <1>8, <1>9, <1>10 DEF Advances

LEMMA AdvanceKeeps ==
  ASSUME Inv, AdvanceNative
  PROVE  Inv'
<1>. USE DEF Inv
<1>1. update' = "done" /\ UNCHANGED updateFrame /\ latest # NoTask /\ kind[latest] = "native"
  BY DEF AdvanceNative, TasksOK, MainOK
<1>2. PICK t \in Tasks : t = latest
  BY <1>1 DEF TypeOK
<1>3. TaskOK(t) /\ models[t] \in Assets /\ environments[t] \in Assets
  BY DEF TasksOK, TypeOK
<1>4. CASE phase[t] = "ResolvingModels" /\ Resolves(t)
  <2>1. PICK m \in Assets, e \in Assets : Advances(t, m, e)
    <3>1. CASE Fails(t, models[t], environments[t])
      BY <1>3, <3>1 DEF Advances
    <3>2. ASSUME NEW m \in {"loading", "ready"}, NEW e \in {"none", "loading", "ready"},
                 LoadsModels(t, m, e)
          PROVE  \E m1 \in Assets, e1 \in Assets : Advances(t, m1, e1)
      <4>1. m \in Assets /\ e \in Assets
        BY DEF Assets
      <4>. QED BY <3>2, <4>1, LoadsAdvance
    <3>. QED BY <1>4, <3>1, <3>2 DEF Resolves
  <2>. QED BY <1>1, <1>2, <1>4, <2>1, AdvancesKeep
<1>5. CASE phase[t] = "LoadingModels" /\ LoadsModels(t, models[t], environments[t])
  <2>1. Advances(t, models[t], environments[t])
    BY <1>3, <1>5, LoadsAdvance
  <2>. QED BY <1>1, <1>2, <1>3, <1>5, <2>1, AdvancesKeep
<1>6. CASE phase[t] = "LoadingEnvironment" /\ LoadsEnvironments(t, models[t], environments[t])
  <2>1. models[t] = "ready" /\ environments[t] # "none"
    BY <1>3, <1>6 DEF TaskOK
  <2>2. Advances(t, models[t], environments[t])
    BY <1>3, <1>6, <2>1, LoadsAdvance
  <2>. QED BY <1>1, <1>2, <1>3, <1>6, <2>2, AdvancesKeep
<1>7. CASE UNCHANGED <<state, phase, models, environments, failed, lastFinalized, worldVars>>
  <2>1. WorldsOK' /\ WorldsTyped' /\ \A u \in Tasks : world'[u] = world[u]
    BY <1>1, <1>7, StillSame
  <2>2. AroundSame /\ kind' = kind
    BY <1>1 DEF updateFrame, AroundSame, managerVars
  <2>3. TaskSame(t)
    BY <1>7, <2>1, <2>2 DEF TaskSame
  <2>4. TaskOK(t)'
    BY <1>3, <2>2, <2>3, SameOK
  <2>5. /\ state' = [state EXCEPT ![t] = state[t]] /\ phase' = [phase EXCEPT ![t] = phase[t]]
        /\ models' = [models EXCEPT ![t] = models[t]]
        /\ environments' = [environments EXCEPT ![t] = environments[t]]
        /\ state[t] \in States /\ phase[t] \in Phases
        /\ lastFinalized' \in Tasks \cup {NoTask}
    BY <1>7 DEF TypeOK
  <2>6. failed' \in {failed, failed \cup {t}}
    BY <1>7
  <2>. QED BY <1>1, <1>2, <1>3, <2>1, <2>4, <2>5, <2>6, LatestWritten
<1>. QED BY <1>2, <1>4, <1>5, <1>6, <1>7 DEF AdvanceNative, Updated

-----------------------------------------------------------------------------
(* The worker.                                                             *)

LEMMA ParsingIs ==
  ASSUME NEW s \in ParsingStores, s # << >>
  PROVE  /\ Tail(s) \in ParsingStores /\ s # LastStore
         /\ Head(s) \in {Store("state", "PreparingCpu"), Store("phase", "ParsingDocument")}
<1>1. CASE s = <<Store("state", "PreparingCpu"), Store("phase", "ParsingDocument")>>
  <2>1. Head(s) = Store("state", "PreparingCpu")
        /\ Tail(s) = <<Store("phase", "ParsingDocument")>> /\ Len(s) = 2 /\ Len(LastStore) = 1
    BY <1>1 DEF LastStore
  <2>2. s # LastStore
    BY <2>1
  <2>. QED BY <2>1, <2>2 DEF ParsingStores
<1>2. CASE s = <<Store("phase", "ParsingDocument")>>
  <2>1. Head(s) = Store("phase", "ParsingDocument") /\ Tail(s) = << >>
    BY <1>2
  <2>2. Head(LastStore).field = "state" /\ Head(s).field = "phase"
    BY <2>1 DEF LastStore, Store
  <2>. QED BY <2>1, <2>2 DEF ParsingStores
<1>. QED BY <1>1, <1>2 DEF ParsingStores

\* The stores after the document was parsed, one at a time.
LEMMA ParsedIs ==
  ASSUME NEW s \in ParsedStores
  PROVE  /\ s # << >>
         /\ \/ /\ Head(s) = Store("phase", "ResolvingModels") /\ Len(s) = 2
               /\ Tail(s) = LastStore /\ s # LastStore
            \/ Head(s) = Store("state", "ReadyForUpload") /\ Len(s) = 1 /\ s = LastStore
            \/ /\ Head(s) \in {Store("state", "Failed"), Store("state", "Cancelled")}
               /\ Len(s) = 2 /\ Tail(s) = <<Store("phase", "Complete")>> /\ s # LastStore
            \/ /\ Head(s) = Store("phase", "Complete") /\ Len(s) = 1 /\ s # LastStore
<1>0. Len(LastStore) = 1 /\ Head(LastStore) = Store("state", "ReadyForUpload") /\ Len(<< >>) = 0
  BY DEF LastStore
<1>1. CASE s \in {<<Store("state", "Failed"), Store("phase", "Complete")>>,
                  <<Store("state", "Cancelled"), Store("phase", "Complete")>>}
  <2>1. \A a, b : Head(<<a, b>>) = a /\ Len(<<a, b>>) = 2 /\ Tail(<<a, b>>) = <<b>>
    OBVIOUS
  <2>2. /\ Head(s) \in {Store("state", "Failed"), Store("state", "Cancelled")}
        /\ Len(s) = 2 /\ Tail(s) = <<Store("phase", "Complete")>>
    BY <1>1, <2>1, Zenon
  <2>3. s # LastStore
    BY <1>0, <2>2
  <2>4. s # << >>
    BY <1>0, <2>2
  <2>. QED BY <2>2, <2>3, <2>4, Zenon
<1>2. CASE s = <<Store("phase", "Complete")>>
  <2>1. Head(s) = Store("phase", "Complete") /\ Len(s) = 1
    BY <1>2
  <2>2. Head(s).field = "phase" /\ Head(LastStore).field = "state"
    BY <1>0, <2>1 DEF Store
  <2>3. s # LastStore
    BY <2>2
  <2>. QED BY <1>0, <2>1, <2>3
<1>3. CASE s = <<Store("phase", "ResolvingModels"), Store("state", "ReadyForUpload")>>
  <2>1. Head(s) = Store("phase", "ResolvingModels") /\ Len(s) = 2 /\ Tail(s) = LastStore
    BY <1>3 DEF LastStore
  <2>2. s # LastStore
    BY <1>0, <2>1
  <2>3. s # << >>
    BY <1>0, <2>1
  <2>. QED BY <2>1, <2>2, <2>3, Zenon
<1>4. CASE s = LastStore
  BY <1>0, <1>4
<1>. QED BY <1>1, <1>2, <1>3, <1>4 DEF ParsedStores

\* A store of the worker to its task.
LEMMA WorkerWrote ==
  ASSUME Inv, NEW w \in Tasks, w = worker.task, UNCHANGED workerFrame, pendingNative' = pendingNative,
         overtaken' \subseteq Tasks,
         NEW s \in States, NEW p \in Phases,
         state' = [state EXCEPT ![w] = s], phase' = [phase EXCEPT ![w] = p],
         worker' \in [task : Tasks \cup {NoTask}, step : {"waiting", "parsing", "exited"},
                      stores : Seq(WorkerStores)],
         worker'.task \in {w, NoTask}, WorkerOK',
         Starting(w)' => Starting(w),
         \/ Starting(w) /\ p \in {"Queued", "ParsingDocument", "Complete"}
         \/ Starting(w) /\ p = "ResolvingModels" /\ ~Starting(w)'
         \/ s = "ReadyForUpload" /\ p = phase[w]
  PROVE  Inv'
<1>. USE DEF Inv
<1>1. /\ UNCHANGED <<submitted, finished, completed, kind, cancellation, models, environments>>
      /\ UNCHANGED <<failed, tasks, history, latest, lastFinalized, update, stage>>
      /\ UNCHANGED <<clockVars, worldVars>> /\ UNCHANGED <<world, lastUse, current, retired>>
  BY DEF workerFrame, clockVars, worldVars
<1>2. /\ state' \in [Tasks -> States] /\ phase' \in [Tasks -> Phases]
      /\ state'[w] = s /\ phase'[w] = p
      /\ \A u \in Tasks : u # w => state'[u] = state[u] /\ phase'[u] = phase[u]
  BY DEF TypeOK
<1>3. TypeOK'
  BY <1>1, <1>2 DEF TypeOK, ClockTypeOK
<1>4. WorldsOK'
  BY <1>1, WorldsSame
<1>5. MainOK'
  BY <1>1 DEF TasksOK, MainOK, Known
<1>6. ASSUME NEW u \in Tasks, u # w PROVE TaskOK(u)'
  <2>1. worker'.task # u /\ worker.task # u
    BY <1>6 DEF Tasks, NoTask
  <2>2. Starting(u)' <=> Starting(u)
    BY <2>1 DEF Starting
  <2>3. TaskOK(u) /\ state'[u] = state[u] /\ phase'[u] = phase[u]
    BY <1>2, <1>6 DEF TasksOK
  <2>. QED BY <1>1, <2>1, <2>2, <2>3 DEF TaskOK, Holds, Known
<1>7. TaskOK(w)'
  <2>1. TaskOK(w) /\ w <= tasks /\ kind[w] = "native"
    BY DEF TasksOK, TaskOK
  <2>2. ~(w > tasks)
    BY <2>1, TaskBound DEF TypeOK, Tasks
  <2>3. Holds(w)' <=> Holds(w)
    BY <1>1 DEF Holds
  <2>4. CASE Starting(w) /\ p \in {"Queued", "ParsingDocument", "Complete", "ResolvingModels"}
    BY <1>1, <1>2, <2>1, <2>2, <2>3, <2>4 DEF TaskOK, Loading
  <2>5. CASE s = "ReadyForUpload" /\ p = phase[w]
    BY <1>1, <1>2, <2>1, <2>2, <2>3, <2>5 DEF TaskOK, Loading, Terminal, Known
  <2>. QED BY <2>4, <2>5
<1>. QED BY <1>3, <1>4, <1>5, <1>6, <1>7 DEF TasksOK

LEMMA StoreFields ==
  ASSUME NEW f, NEW v
  PROVE  Store(f, v).field = f /\ Store(f, v).value = v
BY DEF Store

LEMMA WorkerStoreKeeps ==
  ASSUME Inv, WorkerStore
  PROVE  Inv'
<1>. USE DEF Inv
<1>1. worker.stores # <<>> /\ UNCHANGED <<workerFrame, pendingNative>>
  BY DEF WorkerStore
<1>2. PICK w \in Tasks : w = worker.task
  BY <1>1 DEF TasksOK, WorkerOK, TypeOK
<1>3. /\ \/ worker.step = "parsing" /\ worker.stores \in ParsingStores
         \/ worker.step = "waiting" /\ worker.stores \in ParsedStores
      /\ pendingNative # NoTask => pendingNative # w
      /\ w # NoTask /\ worker.stores \in Seq(WorkerStores)
  BY <1>2 DEF TasksOK, WorkerOK, TypeOK, Tasks, NoTask
<1>. DEFINE store == Head(worker.stores)
            next == IF worker.step = "waiting" /\ Len(worker.stores) = 1
                    THEN IdleWorker
                    ELSE [worker EXCEPT !.stores = Tail(worker.stores)]
<1>4. worker' = next
  BY DEF WorkerStore
<1>a. overtaken' \subseteq Tasks
  <2>1. overtaken' = overtaken \/ overtaken' = overtaken \cup {w}
    BY <1>2 DEF WorkerStore
  <2>. QED BY <2>1 DEF TypeOK
<1>5. ASSUME NEW f \in {"state", "phase"}, NEW v, store = Store(f, v),
             f = "state" => v \in States, f = "phase" => v \in Phases
      PROVE  \E s \in States, p \in Phases :
               /\ state' = [state EXCEPT ![w] = s] /\ phase' = [phase EXCEPT ![w] = p]
               /\ f = "state" => s = v /\ p = phase[w]
               /\ f = "phase" => p = v
  <2>1. store.field = f /\ store.value = v
    BY <1>5, StoreFields
  <2>2. /\ state = [state EXCEPT ![w] = state[w]] /\ phase = [phase EXCEPT ![w] = phase[w]]
        /\ state[w] \in States /\ phase[w] \in Phases
    BY DEF TypeOK
  <2>. HIDE DEF store, next
  <2>3. CASE f = "state"
    <3>1. state' = [state EXCEPT ![w] = v] /\ phase' = phase
      BY <1>2, <2>1, <2>3 DEF WorkerStore, store
    <3>. QED BY <1>5, <2>2, <2>3, <3>1
  <2>4. CASE f = "phase"
    <3>1. phase' = [phase EXCEPT ![w] = v] /\ state' = state
      BY <1>2, <2>1, <2>4 DEF WorkerStore, store
    <3>. QED BY <1>5, <2>2, <2>4, <3>1
  <2>. QED BY <2>3, <2>4
<1>6. worker' \in [task : Tasks \cup {NoTask}, step : {"waiting", "parsing", "exited"},
                   stores : Seq(WorkerStores)]
  <2>1. Tail(worker.stores) \in Seq(WorkerStores)
    BY <1>1, <1>3, HeadTailProperties
  <2>2. <<>> \in Seq(WorkerStores)
    OBVIOUS
  <2>. QED BY <1>4, <2>1, <2>2 DEF TypeOK, IdleWorker
<1>7. CASE worker.step = "parsing"
  <2>1. worker.stores \in ParsingStores
    BY <1>3, <1>7
  <2>2. /\ Tail(worker.stores) \in ParsingStores /\ worker.stores # LastStore
        /\ store \in {Store("state", "PreparingCpu"), Store("phase", "ParsingDocument")}
    BY <1>1, <2>1, ParsingIs
  <2>3. Starting(w)
    BY <1>2, <2>2 DEF Starting
  <2>4. worker' = [worker EXCEPT !.stores = Tail(worker.stores)]
    BY <1>4, <1>7
  <2>5. worker'.task = w /\ worker'.step = "parsing" /\ worker'.stores = Tail(worker.stores)
    BY <1>2, <1>7, <2>4 DEF TypeOK
  <2>6. WorkerOK'
    BY <1>1, <1>3, <2>2, <2>5 DEF WorkerOK
  <2>7. PICK s \in States, p \in Phases :
          /\ state' = [state EXCEPT ![w] = s] /\ phase' = [phase EXCEPT ![w] = p]
          /\ p = "ParsingDocument" \/ p = phase[w]
    <3>1. "PreparingCpu" \in States /\ "ParsingDocument" \in Phases
      BY DEF States, Phases
    <3>. HIDE DEF store, next
    <3>2. CASE store = Store("state", "PreparingCpu")
      BY <1>5, <3>1, <3>2
    <3>3. CASE store = Store("phase", "ParsingDocument")
      BY <1>5, <3>1, <3>3
    <3>. QED BY <2>2, <3>2, <3>3
  <2>8. p \in {"Queued", "ParsingDocument", "Complete"}
    BY <2>3, <2>7 DEF TasksOK, TaskOK
  <2>. QED BY <1>1, <1>2, <1>6, <1>a, <2>3, <2>5, <2>6, <2>7, <2>8, WorkerWrote
<1>8. CASE worker.step = "waiting"
  <2>1. worker.stores \in ParsedStores
    BY <1>3, <1>8
  <2>2. \/ /\ store = Store("phase", "ResolvingModels") /\ Len(worker.stores) = 2
           /\ Tail(worker.stores) = LastStore /\ worker.stores # LastStore
        \/ store = Store("state", "ReadyForUpload") /\ Len(worker.stores) = 1
           /\ worker.stores = LastStore
        \/ /\ store \in {Store("state", "Failed"), Store("state", "Cancelled")}
           /\ Len(worker.stores) = 2 /\ Tail(worker.stores) = <<Store("phase", "Complete")>>
           /\ worker.stores # LastStore
        \/ /\ store = Store("phase", "Complete") /\ Len(worker.stores) = 1
           /\ worker.stores # LastStore
    BY <2>1, ParsedIs
  <2>3. worker.stores # LastStore => Starting(w)
    BY <1>2 DEF Starting
  <2>4. Len(worker.stores) = 1 =>
          worker'.task = NoTask /\ worker'.step = "waiting" /\ worker'.stores = <<>>
    BY <1>4, <1>8 DEF IdleWorker
  <2>5. Len(worker.stores) = 2 =>
          worker'.task = w /\ worker'.step = "waiting" /\ worker'.stores = Tail(worker.stores)
    BY <1>2, <1>4, <1>8 DEF TypeOK
  <2>. HIDE DEF store, next
  <2>6. LastStore \in ParsedStores /\ <<Store("phase", "Complete")>> \in ParsedStores
    BY DEF ParsedStores
  <2>7. WorkerOK'
    BY <1>1, <1>3, <2>2, <2>4, <2>5, <2>6 DEF WorkerOK
  <2>8. worker'.task \in {w, NoTask}
    BY <2>2, <2>4, <2>5
  <2>9. /\ {"Failed", "Cancelled", "ReadyForUpload"} \subseteq States
        /\ {"Complete", "ResolvingModels"} \subseteq Phases
    BY DEF States, Terminal, Phases
  <2>10. pendingNative' # w
    BY <1>1, <1>3
  <2>11. CASE store = Store("phase", "ResolvingModels") /\ Tail(worker.stores) = LastStore
              /\ Len(worker.stores) = 2 /\ worker.stores # LastStore
    <3>1. ~Starting(w)'
      BY <2>5, <2>10, <2>11 DEF Starting
    <3>2. PICK s \in States :
            state' = [state EXCEPT ![w] = s] /\ phase' = [phase EXCEPT ![w] = "ResolvingModels"]
      BY <1>5, <2>9, <2>11
    <3>. QED BY <1>1, <1>2, <1>6, <1>a, <2>3, <2>7, <2>8, <2>9, <2>11, <3>1, <3>2, WorkerWrote
  <2>12. CASE store = Store("state", "ReadyForUpload") /\ Len(worker.stores) = 1
    <3>1. ~Starting(w)'
      BY <1>3, <2>4, <2>10, <2>12 DEF Starting
    <3>2. /\ state' = [state EXCEPT ![w] = "ReadyForUpload"]
          /\ phase' = [phase EXCEPT ![w] = phase[w]] /\ phase[w] \in Phases
      BY <1>5, <2>9, <2>12
    <3>. QED BY <1>1, <1>2, <1>6, <1>a, <2>7, <2>8, <2>9, <3>1, <3>2, WorkerWrote
  <2>13. CASE store \in {Store("state", "Failed"), Store("state", "Cancelled")}
              /\ worker.stores # LastStore
    <3>1. PICK s \in States :
            /\ state' = [state EXCEPT ![w] = s] /\ phase' = [phase EXCEPT ![w] = phase[w]]
            /\ phase[w] \in Phases
      BY <1>5, <2>9, <2>13
    <3>2. phase[w] \in {"Queued", "ParsingDocument", "Complete"}
      BY <2>3, <2>13 DEF TasksOK, TaskOK
    <3>. QED BY <1>1, <1>2, <1>6, <1>a, <2>3, <2>7, <2>8, <2>13, <3>1, <3>2, WorkerWrote
  <2>14. CASE store = Store("phase", "Complete") /\ worker.stores # LastStore
    <3>1. PICK s \in States :
            state' = [state EXCEPT ![w] = s] /\ phase' = [phase EXCEPT ![w] = "Complete"]
      BY <1>5, <2>9, <2>14
    <3>. QED BY <1>1, <1>2, <1>6, <1>a, <2>3, <2>7, <2>8, <2>9, <2>14, <3>1, WorkerWrote
  <2>. QED BY <2>2, <2>11, <2>12, <2>13, <2>14
<1>. QED BY <1>3, <1>7, <1>8

\* The other steps of the worker move its task on without a store.
LEMMA WorkerMoved ==
  ASSUME Inv, UNCHANGED workerFrame, UNCHANGED <<state, phase, overtaken>>,
         pendingNative' \in {pendingNative, NoTask},
         worker' \in [task : Tasks \cup {NoTask}, step : {"waiting", "parsing", "exited"},
                      stores : Seq(WorkerStores)],
         WorkerOK',
         \A t \in Tasks : worker'.task = t => t \in {worker.task, pendingNative},
         \A t \in Tasks : Starting(t)' => Starting(t)
  PROVE  Inv'
<1>. USE DEF Inv
<1>1. /\ UNCHANGED <<submitted, finished, completed, kind, cancellation, models, environments>>
      /\ UNCHANGED <<failed, tasks, history, latest, lastFinalized, update, stage>>
      /\ UNCHANGED <<clockVars, worldVars>> /\ UNCHANGED <<world, lastUse, current, retired>>
  BY DEF workerFrame, clockVars, worldVars
<1>2. TypeOK'
  BY <1>1 DEF TypeOK, ClockTypeOK
<1>3. WorldsOK'
  BY <1>1, WorldsSame
<1>4. MainOK'
  BY <1>1 DEF TasksOK, MainOK, Known
<1>5. ASSUME NEW t \in Tasks PROVE TaskOK(t)'
  <2>1. TaskOK(t) /\ (Starting(t)' => Starting(t)) /\ t # NoTask
    BY DEF TasksOK, Tasks, NoTask
  <2>2. t \in {pendingNative', worker'.task} => t \in {pendingNative, worker.task}
    BY <2>1
  <2>. QED BY <1>1, <2>1, <2>2 DEF TaskOK, Holds, Known
<1>. QED BY <1>2, <1>3, <1>4, <1>5 DEF TasksOK

LEMMA WorkerKeeps ==
  ASSUME Inv, Worker
  PROVE  Inv'
<1>. USE DEF Inv
<1>0. /\ "state" \in {"state"} /\ "phase" \in {"phase"}
      /\ \A s \in States : Store("state", s) \in WorkerStores
      /\ \A p \in Phases : Store("phase", p) \in WorkerStores
  BY DEF Store, WorkerStores
<1>1. \A t \in Tasks : t # NoTask
  BY DEF Tasks, NoTask
<1>2. CASE WorkerTake
  <2>1. /\ worker = IdleWorker /\ pendingNative # NoTask /\ pendingNative' = NoTask
        /\ UNCHANGED <<workerFrame, state, phase, overtaken>>
    BY <1>2 DEF WorkerTake
  <2>2. CASE cancellation[pendingNative]
    <3>1. worker' = worker
      BY <1>2, <2>2 DEF WorkerTake
    <3>2. WorkerOK'
      BY <2>1, <3>1 DEF TasksOK, WorkerOK
    <3>3. \A t \in Tasks : Starting(t)' => Starting(t)
      BY <1>1, <2>1, <3>1 DEF Starting
    <3>. QED BY <2>1, <3>1, <3>2, <3>3, WorkerMoved DEF TypeOK
  <2>3. CASE ~cancellation[pendingNative]
    <3>. DEFINE first == <<Store("state", "PreparingCpu"), Store("phase", "ParsingDocument")>>
    <3>1. worker' = [task |-> pendingNative, step |-> "parsing", stores |-> first]
      BY <1>2, <2>3 DEF WorkerTake
    <3>2. first \in Seq(WorkerStores)
      <4>1. "PreparingCpu" \in States /\ "ParsingDocument" \in Phases
        BY DEF States, Phases
      <4>. QED BY <1>0, <4>1
    <3>3. first \in ParsingStores
      BY DEF ParsingStores
    <3>. HIDE DEF first
    <3>4. pendingNative \in Tasks
      BY <2>1 DEF TypeOK
    <3>5. worker' \in [task : Tasks \cup {NoTask}, step : {"waiting", "parsing", "exited"},
                       stores : Seq(WorkerStores)]
      BY <3>1, <3>2, <3>4
    <3>6. worker'.task = pendingNative /\ worker'.step = "parsing" /\ worker'.stores = first
      BY <3>1
    <3>7. WorkerOK'
      BY <2>1, <3>3, <3>6 DEF WorkerOK
    <3>8. \A t \in Tasks : Starting(t)' => Starting(t)
      BY <1>1, <2>1, <3>6 DEF Starting
    <3>. QED BY <2>1, <3>5, <3>6, <3>7, <3>8, WorkerMoved
  <2>. QED BY <2>2, <2>3
<1>3. CASE WorkerParsed
  <2>1. worker.step = "parsing" /\ worker.stores = <<>>
        /\ UNCHANGED <<workerFrame, state, phase, overtaken, pendingNative>>
    BY <1>3 DEF WorkerParsed
  <2>2. PICK stores \in
       {<<Store("state", "Failed"), Store("phase", "Complete")>>,
        <<Store("state", "Cancelled"), Store("phase", "Complete")>>,
        <<Store("phase", "ResolvingModels"), Store("state", "ReadyForUpload")>>} :
       worker' = [worker EXCEPT !.step = "waiting", !.stores = stores]
    BY <1>3 DEF WorkerParsed
  <2>3. stores \in ParsedStores
    BY DEF ParsedStores
  <2>4. stores \in Seq(WorkerStores)
    <3>1. /\ {"Failed", "Cancelled", "ReadyForUpload"} \subseteq States
          /\ {"Complete", "ResolvingModels"} \subseteq Phases
      BY DEF States, Terminal, Phases
    <3>2. \A a, b \in WorkerStores : <<a, b>> \in Seq(WorkerStores)
      OBVIOUS
    <3>. QED BY <1>0, <3>1, <3>2
  <2>5. /\ worker' \in [task : Tasks \cup {NoTask}, step : {"waiting", "parsing", "exited"},
                        stores : Seq(WorkerStores)]
        /\ worker'.task = worker.task /\ worker'.step = "waiting" /\ worker'.stores = stores
    BY <2>2, <2>4 DEF TypeOK
  <2>6. worker.task # NoTask
    BY <2>1 DEF TasksOK, WorkerOK
  <2>7. WorkerOK'
    BY <2>1, <2>3, <2>5, <2>6 DEF TasksOK, WorkerOK
  <2>8. <<>> # LastStore
    <3>1. Len(<<>>) = 0 /\ Len(LastStore) = 1
      BY DEF LastStore
    <3>. QED BY <3>1
  <2>9. \A t \in Tasks : Starting(t)' => Starting(t)
    BY <2>1, <2>5, <2>8 DEF Starting
  <2>. QED BY <2>1, <2>5, <2>7, <2>9, WorkerMoved
<1>4. CASE WorkerExit
  <2>1. /\ worker = IdleWorker /\ worker' = [worker EXCEPT !.step = "exited"]
        /\ UNCHANGED <<workerFrame, state, phase, overtaken, pendingNative>>
    BY <1>4 DEF WorkerExit
  <2>2. worker'.task = NoTask /\ worker'.step = "exited" /\ worker'.stores = <<>>
        /\ worker.task = NoTask
    BY <2>1 DEF IdleWorker
  <2>3. worker' \in [task : Tasks \cup {NoTask}, step : {"waiting", "parsing", "exited"},
                     stores : Seq(WorkerStores)]
    BY <2>1 DEF TypeOK
  <2>4. WorkerOK'
    BY <2>1, <2>2 DEF TasksOK, WorkerOK
  <2>5. \A t \in Tasks : Starting(t)' => Starting(t)
    BY <1>1, <2>1, <2>2 DEF Starting
  <2>. QED BY <1>1, <2>1, <2>2, <2>3, <2>4, <2>5, WorkerMoved
<1>. QED BY <1>2, <1>3, <1>4, WorkerStoreKeeps DEF Worker

-----------------------------------------------------------------------------
(* What tasks lease, the worlds, the clock and the shutdown.               *)

LEMMA SettleKeeps ==
  ASSUME Inv, Settle
  PROVE  Inv'
<1>. USE DEF Inv
<1>1. /\ UNCHANGED <<othersFrame, clockVars>>
      /\ \E t \in Tasks : ModelsSettle(t) \/ EnvironmentsSettle(t)
  BY DEF Settle, ModelsSettle, EnvironmentsSettle
<1>2. /\ UNCHANGED <<kind, state, phase, cancellation, tasks, history, pendingNative, worker>>
      /\ UNCHANGED <<failed, overtaken>>
      /\ UNCHANGED <<latest, lastFinalized, update, world, lastUse, current, retired, stage>>
      /\ UNCHANGED <<submitted, finished, completed>> /\ UNCHANGED <<clockVars, worldVars>>
  BY <1>1 DEF othersFrame, managerVars, worldVars, clockVars
<1>3. /\ models' \in [Tasks -> Assets] /\ environments' \in [Tasks -> Assets]
      /\ \A t \in Tasks : /\ models'[t] = models[t] \/ (models[t] = "loading" /\ models'[t] # "none")
                          /\ environments'[t] = environments[t]
                             \/ (environments[t] = "loading" /\ environments'[t] # "none")
  <2>1. PICK t \in Tasks : ModelsSettle(t) \/ EnvironmentsSettle(t)
    BY <1>1
  <2>2. CASE ModelsSettle(t)
    <3>1. PICK result \in {"ready", "failed"} : models' = [models EXCEPT ![t] = result]
      BY <2>2 DEF ModelsSettle
    <3>2. models[t] = "loading" /\ environments' = environments /\ result \in Assets
      BY <2>2 DEF ModelsSettle, Assets
    <3>. QED BY <3>1, <3>2 DEF TypeOK
  <2>3. CASE EnvironmentsSettle(t)
    <3>1. PICK result \in {"ready", "failed"} : environments' = [environments EXCEPT ![t] = result]
      BY <2>3 DEF EnvironmentsSettle
    <3>2. environments[t] = "loading" /\ models' = models /\ result \in Assets
      BY <2>3 DEF EnvironmentsSettle, Assets
    <3>. QED BY <3>1, <3>2 DEF TypeOK
  <2>. QED BY <2>1, <2>2, <2>3
<1>4. TypeOK'
  BY <1>2, <1>3 DEF TypeOK, ClockTypeOK
<1>5. ASSUME NEW t \in Tasks PROVE TaskOK(t)'
  <2>1. TaskOK(t) /\ (Holds(t)' <=> Holds(t)) /\ (Starting(t)' <=> Starting(t))
    BY <1>2, <1>3 DEF TasksOK, Holds, Starting
  <2>. QED BY <1>2, <1>3, <2>1 DEF TaskOK, Known
<1>6. MainOK' /\ WorkerOK'
  BY <1>2 DEF TasksOK, MainOK, WorkerOK, Known
<1>. QED BY <1>2, <1>4, <1>5, <1>6, WorldsSame DEF TasksOK

\* Whatever leaves the tasks, the manager and the worker alone.
LEMMA TasksStay ==
  ASSUME Inv, UNCHANGED <<taskVars, managerVars, worker, latest, lastFinalized, update>>,
         ClockTypeOK', WorldsTyped', WorldsOK',
         stage' \in {"running", "stopping", "stopped", "idle", "exited"},
         \A t \in Tasks : world'[t] # "None" => world[t] # "None"
  PROVE  Inv'
<1>. USE DEF Inv
<1>1. /\ UNCHANGED <<kind, state, phase, cancellation, models, environments, failed, overtaken>>
      /\ UNCHANGED <<tasks, history, pendingNative, worker, latest, lastFinalized, update>>
  BY DEF taskVars, managerVars
<1>2. TypeOK'
  BY <1>1 DEF TypeOK, WorldsTyped, RetiredWorlds
<1>3. ASSUME NEW t \in Tasks PROVE TaskOK(t)'
  <2>1. TaskOK(t) /\ (Holds(t)' <=> Holds(t)) /\ (Starting(t)' <=> Starting(t))
        /\ (world[t] = "None" => world'[t] = "None")
    BY <1>1 DEF TasksOK, Holds, Starting
  <2>. QED BY <1>1, <2>1 DEF TaskOK, Known
<1>4. MainOK' /\ WorkerOK'
  BY <1>1 DEF TasksOK, MainOK, WorkerOK, Known
<1>. QED BY <1>2, <1>3, <1>4 DEF TasksOK

LEMMA RenderKeeps ==
  ASSUME Inv, RenderFrame
  PROVE  Inv' /\ \A t \in Tasks : lastUse'[t] = IF t = current THEN submitted' ELSE lastUse[t]
<1>. USE DEF Inv
<1>1. /\ submitted < MaxSubmissions /\ submitted' = submitted + 1 /\ UNCHANGED <<finished, completed>>
      /\ lastUse' = [t \in Tasks |-> IF t = current THEN submitted' ELSE lastUse[t]]
      /\ UNCHANGED <<taskVars, managerVars, worker, latest, lastFinalized, update, stage>>
      /\ UNCHANGED <<world, current, retired>>
  BY DEF RenderFrame, Submit
<1>2. /\ submitted \in Nat /\ finished \in Nat /\ completed \in Nat
      /\ \A t \in Tasks : lastUse[t] \in Nat
  BY SubmissionBound DEF TypeOK, ClockTypeOK, Serials
<1>3. ClockTypeOK' /\ ClockOrder' /\ submitted' \in Serials
  BY <1>1, <1>2, SubmissionBound DEF TypeOK, ClockTypeOK, ClockOrder, WorldsOK, Serials
<1>4. WorldsTyped'
  BY <1>1, <1>3 DEF TypeOK, WorldsTyped, RetiredWorlds
<1>5. WorldsAccounted'
  BY <1>1 DEF WorldsOK, WorldsAccounted, IsRetired
<1>6. /\ \A i \in DOMAIN retired : /\ retired[i].task \in Tasks /\ retired[i].serial \in Nat
                                   /\ retired[i].serial <= submitted
                                   /\ lastUse[retired[i].task] <= retired[i].serial
  BY RetiredFields, SubmissionBound DEF WorldsOK, UsesRecorded, Serials
<1>7. \A i \in DOMAIN retired : retired[i].task # current
  <2>. SUFFICES ASSUME NEW i \in DOMAIN retired, retired[i].task = current PROVE FALSE
    OBVIOUS
  <2>1. current \in Tasks /\ current # NoTask
    BY <1>6 DEF Tasks, NoTask
  <2>2. current < current
    BY <2>1 DEF WorldsOK, WorldsAccounted
  <2>. QED BY <2>1, <2>2 DEF Tasks
<1>8. UsesRecorded'
  <2>1. \A t \in Tasks : lastUse'[t] <= submitted'
    BY <1>1, <1>2 DEF WorldsOK, UsesRecorded
  <2>2. ASSUME NEW i \in DOMAIN retired
        PROVE  retired[i].serial <= submitted' /\ lastUse'[retired[i].task] <= retired[i].serial
    BY <1>1, <1>2, <1>6, <1>7
  <2>. QED BY <1>1, <2>1, <2>2 DEF UsesRecorded
<1>9. stage' \in {"running", "stopping", "stopped", "idle", "exited"}
  BY <1>1 DEF TypeOK
<1>. QED BY <1>1, <1>3, <1>4, <1>5, <1>8, <1>9, TasksStay DEF WorldsOK

\* The retired worlds at the front whose submissions are completed go; each of
\* them is live, and nothing else retires its task.
LEMMA CollectedWorlds ==
  ASSUME TypeOK, WorldsOK, UNCHANGED <<current, lastUse, submitted>>,
         retired' = SubSeq(retired, Cardinality(Overdue) + 1, Len(retired)),
         NEW R, R = {t \in Tasks : \E i \in Overdue : retired[i].task = t},
         world' = [t \in Tasks |-> IF t \in R THEN "Released" ELSE world[t]]
  PROVE  /\ retired' \in Seq(RetiredWorlds) /\ WorldsAccounted'
         /\ UsesRecorded'
         /\ \A t \in R : world[t] = "Live" /\ lastUse[t] <= completed
<1>1. /\ retired \in Seq(RetiredWorlds) /\ DOMAIN retired = 1 .. Len(retired)
      /\ Len(retired) \in Nat
      /\ \A i \in DOMAIN retired : retired[i].task \in Tasks /\ retired[i].serial \in Nat
  BY RetiredFields, SubmissionBound DEF Serials
<1>2. /\ \A i, j \in DOMAIN retired :
           i < j => /\ retired[i].serial <= retired[j].serial
                    /\ retired[i].task < retired[j].task
      /\ \A i \in DOMAIN retired : current # NoTask => retired[i].task < current
      /\ \A i \in DOMAIN retired : /\ retired[i].serial <= submitted
                                   /\ lastUse[retired[i].task] <= retired[i].serial
      /\ \A t \in Tasks : world[t] = "Live" <=> (t = current \/ IsRetired(t))
      /\ \A t \in Tasks : lastUse[t] <= submitted
  BY DEF WorldsOK, WorldsAccounted, UsesRecorded
<1>3. PICK k \in 0 .. Len(retired) : k = Cardinality(Overdue) /\ Overdue = 1 .. k
  <2>1. Overdue \in SUBSET (1 .. Len(retired))
    BY <1>1 DEF Overdue
  <2>2. \A i \in Overdue : \A j \in 1 .. i : j \in Overdue
    BY <1>1 DEF Overdue
  <2>. QED BY <1>1, <2>1, <2>2, PrefixSize
<1>4. /\ retired' \in Seq(RetiredWorlds) /\ DOMAIN retired' = 1 .. Len(retired) - k
      /\ \A i \in 1 .. Len(retired) - k : retired'[i] = retired[k + i]
  BY <1>1, <1>3, SuffixOf
<1>5. \A i \in DOMAIN retired' : k + i \in DOMAIN retired /\ k + i > k /\ retired'[i] = retired[k + i]
  BY <1>1, <1>3, <1>4, SMTT(30)
<1>6. \A i, j \in DOMAIN retired' : i < j => k + i < k + j
  BY <1>1, <1>3, <1>4
<1>7. \A t \in Tasks : t \in Nat /\ t # NoTask
  BY DEF Tasks, NoTask
<1>8. ASSUME NEW t \in R
      PROVE  /\ t \in Tasks /\ t # current /\ IsRetired(t) /\ ~IsRetired(t)' /\ lastUse[t] <= completed
  <2>1. PICK i \in Overdue : retired[i].task = t
    BY <1>8
  <2>2. i \in DOMAIN retired /\ i \in 1 .. k
    BY <1>3, <2>1 DEF Overdue
  <2>3. t \in Tasks /\ t \in Nat /\ t # NoTask
    BY <1>7, <1>8
  <2>4. t # current
    <3>. SUFFICES ASSUME t = current PROVE FALSE
      OBVIOUS
    <3>1. current # NoTask /\ t < t
      BY <1>2, <2>1, <2>2, <2>3
    <3>. QED BY <2>3, <3>1
  <2>5. ASSUME NEW j \in DOMAIN retired', retired'[j].task = t PROVE FALSE
    <3>1. k + j \in DOMAIN retired /\ i < k + j /\ retired[k + j].task = t
      <4>1. \A a \in Nat : \A b \in 1 .. a : \A c \in Int : c > a => b < c
        OBVIOUS
      <4>2. k + j \in DOMAIN retired /\ k + j > k /\ retired[k + j].task = t
        BY <1>5, <2>5
      <4>3. k \in Nat /\ i \in 1 .. k /\ k + j \in Int
        BY <1>1, <2>2, <4>2
      <4>. QED BY <4>1, <4>2, <4>3
    <3>2. t < t
      BY <1>2, <2>1, <2>2, <3>1
    <3>. QED BY <2>3, <3>2
  <2>6. retired[i].serial <= completed
    <3>1. i \in 1 .. i
      BY <1>1, <2>2
    <3>. QED BY <2>1, <3>1 DEF Overdue
  <2>7. lastUse[t] <= completed
    <3>1. lastUse[t] <= retired[i].serial
      BY <1>2, <2>1, <2>2
    <3>2. lastUse[t] \in Nat /\ retired[i].serial \in Nat /\ completed \in Nat
      BY <1>1, <2>2, <2>3, SubmissionBound DEF TypeOK, ClockTypeOK, Serials
    <3>. QED BY <2>6, <3>1, <3>2
  <2>. QED BY <2>1, <2>2, <2>3, <2>4, <2>5, <2>7 DEF IsRetired
<1>9. ASSUME NEW t \in Tasks, t \notin R PROVE IsRetired(t)' <=> IsRetired(t)
  <2>1. ASSUME NEW i \in DOMAIN retired, retired[i].task = t PROVE IsRetired(t)'
    <3>1. i \notin Overdue
      BY <1>9, <2>1
    <3>2. i - k \in 1 .. Len(retired) - k /\ k + (i - k) = i
      <4>1. \A n \in Nat : \A a \in 0 .. n : \A b \in 1 .. n :
              b \notin 1 .. a => b - a \in 1 .. n - a /\ a + (b - a) = b
        OBVIOUS
      <4>2. i \in 1 .. Len(retired) /\ i \notin 1 .. k
        BY <1>1, <1>3, <3>1
      <4>. QED BY <1>1, <4>1, <4>2
    <3>3. i - k \in DOMAIN retired' /\ retired'[i - k] = retired[i]
      BY <1>4, <3>2
    <3>. QED BY <2>1, <3>3 DEF IsRetired
  <2>2. IsRetired(t)' => IsRetired(t)
    BY <1>5 DEF IsRetired
  <2>. QED BY <2>1, <2>2 DEF IsRetired
<1>10. \A t \in Tasks : world'[t] = "Live" <=> (t = current' \/ IsRetired(t)')
  BY <1>2, <1>8, <1>9
<1>11. WorldsAccounted'
  BY <1>2, <1>5, <1>6, <1>10, ZenonT(30) DEF WorldsAccounted
<1>12. UsesRecorded'
  BY <1>2, <1>5 DEF UsesRecorded
<1>13. \A t \in R : world[t] = "Live" /\ lastUse[t] <= completed
  BY <1>2, <1>8
<1>. QED BY <1>4, <1>11, <1>12, <1>13

LEMMA CollectKeeps ==
  ASSUME Inv, CollectRetired
  PROVE  /\ Inv' /\ UNCHANGED <<clockVars, lastUse, stage>>
         /\ \E R \in SUBSET Tasks :
              /\ \A t \in R : world[t] = "Live" /\ lastUse[t] <= completed
              /\ world' = [t \in Tasks |-> IF t \in R THEN "Released" ELSE world[t]]
<1>. USE DEF Inv
<1>. DEFINE R == {t \in Tasks : \E i \in Overdue : retired[i].task = t}
<1>1. /\ retired' = SubSeq(retired, Cardinality(Overdue) + 1, Len(retired))
      /\ UNCHANGED <<current, lastUse, submitted, finished, completed, clockVars, stage>>
      /\ UNCHANGED <<taskVars, managerVars, worker, latest, lastFinalized, update>>
  BY DEF CollectRetired, clockVars
<1>2. world' = [t \in Tasks |-> IF t \in R THEN "Released" ELSE world[t]]
  BY DEF CollectRetired
<1>3. /\ retired' \in Seq(RetiredWorlds) /\ WorldsAccounted' /\ UsesRecorded'
      /\ \A t \in R : world[t] = "Live" /\ lastUse[t] <= completed
  BY <1>1, <1>2, CollectedWorlds
<1>4. R \in SUBSET Tasks
  OBVIOUS
<1>. HIDE DEF R
<1>5. WorldsTyped' /\ ClockTypeOK' /\ ClockOrder'
  BY <1>1, <1>2, <1>3 DEF TypeOK, WorldsTyped, ClockTypeOK, ClockOrder, WorldsOK
<1>6. \A t \in Tasks : world'[t] # "None" => world[t] # "None"
  BY <1>2, <1>3
<1>7. stage' \in {"running", "stopping", "stopped", "idle", "exited"}
  BY <1>1 DEF TypeOK
<1>8. Inv'
  BY <1>1, <1>3, <1>5, <1>6, <1>7, TasksStay DEF WorldsOK
<1>. QED BY <1>1, <1>2, <1>3, <1>4, <1>8

LEMMA CloseWorldKeeps ==
  ASSUME Inv, CloseWorld
  PROVE  Inv'
<1>. USE DEF Inv
<1>1. /\ CancelTasks({latest}) /\ AroundSame /\ retired' = WithRetired(current)
      /\ current' = NoTask
      /\ UNCHANGED <<submitted, finished, completed, lastFinalized, update, stage, world,
                     lastUse, kind, failed, overtaken>>
  BY DEF CloseWorld, AroundSame, managerVars, clockVars, CancelTasks
<1>2. /\ \A u \in Tasks : TaskSame(u) \/ TaskCancelled(u)
      /\ state' \in [Tasks -> States] /\ phase' \in [Tasks -> Phases]
      /\ cancellation' \in [Tasks -> BOOLEAN]
      /\ models' \in [Tasks -> Assets] /\ environments' \in [Tasks -> Assets]
  BY <1>1, CancelTasksEffect
<1>3. /\ retired' \in Seq(RetiredWorlds)
      /\ \A u \in Tasks : IsRetired(u)' <=> IsRetired(u) \/ u = current
      /\ \A i, j \in DOMAIN retired' :
           i < j => /\ retired'[i].serial <= retired'[j].serial
                    /\ retired'[i].task < retired'[j].task
      /\ \A i \in DOMAIN retired' : /\ retired'[i].serial <= submitted
                                    /\ lastUse[retired'[i].task] <= retired'[i].serial
  BY <1>1, RetireKeeps
<1>4. TypeOK'
  BY <1>1, <1>2, <1>3 DEF TypeOK, AroundSame, ClockTypeOK, RetiredWorlds
<1>5. \A u \in Tasks : world'[u] = "Live" <=> (u = current' \/ IsRetired(u)')
  <2>1. \A u \in Tasks : u # NoTask
    BY DEF Tasks, NoTask
  <2>. QED BY <1>1, <1>3, <2>1 DEF WorldsOK, WorldsAccounted
<1>6. WorldsOK'
  <2>1. WorldsAccounted'
    BY <1>1, <1>3, <1>5 DEF WorldsAccounted
  <2>2. UsesRecorded' /\ ClockOrder'
    BY <1>1, <1>3 DEF WorldsOK, UsesRecorded, ClockOrder
  <2>. QED BY <2>1, <2>2 DEF WorldsOK
<1>7. \A u \in Tasks : TaskOK(u)'
  BY <1>1, <1>2, SameOK, CancelledOK DEF TasksOK
<1>8. MainOK' /\ WorkerOK'
  BY <1>1 DEF TasksOK, MainOK, WorkerOK, AroundSame, Known
<1>. QED BY <1>4, <1>6, <1>7, <1>8 DEF TasksOK

\* Shutdown ends every task of the history and takes all leases and the request.
LEMMA ShutdownBeginKeeps ==
  ASSUME Inv, ShutdownBegin
  PROVE  Inv'
<1>. USE DEF Inv
<1>1. /\ stage' = "stopping" /\ pendingNative' = NoTask
      /\ UNCHANGED <<submitted, finished, completed, kind, tasks, history, worker, latest,
                     lastFinalized, update, world, lastUse, current, retired>>
      /\ UNCHANGED <<clockVars, worldVars>> /\ UNCHANGED <<failed, overtaken>>
      /\ cancellation' = Flagged(Known(history))
      /\ state' = CancelledStates(Known(history)) /\ phase' = CompletePhases(Known(history))
      /\ models' = [t \in Tasks |-> "none"] /\ environments' = [t \in Tasks |-> "none"]
  BY DEF ShutdownBegin, clockVars, worldVars
<1>2. \A t \in Tasks : t \in Live(Known(history)) <=> t \in Known(history) /\ state[t] \notin Terminal
  BY DEF Live, Tasks, NoTask
<1>3. /\ state' \in [Tasks -> States] /\ phase' \in [Tasks -> Phases]
      /\ \A t \in Tasks : IF t \in Live(Known(history))
                          THEN state'[t] = "Cancelled" /\ phase'[t] = "Complete"
                          ELSE state'[t] = state[t] /\ phase'[t] = phase[t]
  BY <1>1 DEF CancelledStates, CompletePhases, TypeOK, States, Terminal, Phases
<1>4. cancellation' \in [Tasks -> BOOLEAN]
  <2>1. \A t \in Tasks : (cancellation[t] \/ t \in Live(Known(history))) \in BOOLEAN
    BY Zenon
  <2>. QED BY <1>1, <2>1, Zenon DEF Flagged
<1>5. /\ models' \in [Tasks -> Assets] /\ environments' \in [Tasks -> Assets]
      /\ \A t \in Tasks : models'[t] = "none" /\ environments'[t] = "none"
  BY <1>1 DEF Assets
<1>6. TypeOK'
  BY <1>1, <1>3, <1>4, <1>5 DEF TypeOK, ClockTypeOK
<1>7. WorldsOK'
  BY <1>1, WorldsSame
<1>8. MainOK' /\ WorkerOK'
  BY <1>1 DEF TasksOK, MainOK, WorkerOK, Known
<1>9. ASSUME NEW t \in Tasks PROVE TaskOK(t)'
  <2>1. /\ TaskOK(t) /\ ~Holds(t)' /\ environments'[t] = "none" /\ kind'[t] = kind[t]
        /\ world'[t] = world[t] /\ worker' = worker /\ pendingNative' # t
    BY <1>1, <1>5 DEF TasksOK, Holds, Tasks, NoTask
  <2>2. Starting(t)' => Starting(t)
    BY <2>1 DEF Starting
  <2>3. t = latest => t \in Known(history)
    BY DEF TasksOK, MainOK, Tasks, NoTask
  <2>4. CASE t \in Live(Known(history))
    <3>1. state[t] \notin Terminal /\ state'[t] = "Cancelled" /\ phase'[t] = "Complete"
      BY <1>2, <1>3, <2>4
    <3>. QED BY <1>1, <2>1, <2>2, <3>1 DEF TaskOK, Loading, Terminal
  <2>5. CASE t \notin Live(Known(history))
    <3>1. state'[t] = state[t] /\ phase'[t] = phase[t]
      BY <1>3, <2>5
    <3>2. phase[t] \notin Loading
      BY <1>2, <2>1, <2>3, <2>5 DEF TaskOK
    <3>. QED BY <1>1, <2>1, <2>2, <3>1, <3>2 DEF TaskOK, Loading
  <2>. QED BY <2>4, <2>5
<1>. QED BY <1>6, <1>7, <1>8, <1>9 DEF TasksOK

LEMMA ShutdownKeeps ==
  ASSUME Inv, Shutdown
  PROVE  Inv'
<1>. USE DEF Inv
<1>1. /\ UNCHANGED <<taskVars, managerVars, worker, latest, lastFinalized, update, lastUse>>
      /\ UNCHANGED <<submitted, finished>>
      /\ stage' \in {"running", "stopping", "stopped", "idle", "exited"}
  BY DEF Shutdown, ShutdownFinish, DeviceWaitIdle, DestroyWorlds, shutdownFrame, clockVars
<1>2. CASE ShutdownFinish \/ DeviceWaitIdle
  <2>1. UNCHANGED <<world, current, retired>>
    BY <1>2 DEF ShutdownFinish, DeviceWaitIdle
  <2>2. completed' = completed \/ completed' = finished
    BY <1>2 DEF ShutdownFinish, DeviceWaitIdle, clockVars
  <2>3. ClockTypeOK' /\ ClockOrder'
    BY <1>1, <2>2, SubmissionBound, SMTT(30) DEF TypeOK, ClockTypeOK, WorldsOK, ClockOrder, Serials
  <2>4. WorldsTyped' /\ WorldsAccounted' /\ UsesRecorded'
    BY <1>1, <2>1 DEF TypeOK, WorldsOK, WorldsTyped, WorldsAccounted, UsesRecorded, IsRetired,
       RetiredWorlds
  <2>. QED BY <1>1, <2>1, <2>3, <2>4, TasksStay DEF WorldsOK
<1>3. CASE DestroyWorlds
  <2>1. /\ current' = NoTask /\ retired' = <<>> /\ completed' = completed
        /\ world' = [t \in Tasks |-> IF world[t] = "Live" THEN "Released" ELSE world[t]]
    BY <1>3 DEF DestroyWorlds, clockVars
  <2>2. world' \in [Tasks -> {"None", "Live", "Released"}] /\ \A t \in Tasks : world'[t] # "Live"
    BY <2>1 DEF TypeOK
  <2>3. retired' \in Seq(RetiredWorlds) /\ DOMAIN retired' = {}
    BY <2>1
  <2>4. WorldsTyped' /\ ClockTypeOK' /\ ClockOrder'
    BY <1>1, <2>1, <2>2, <2>3 DEF TypeOK, WorldsOK, WorldsTyped, ClockTypeOK, ClockOrder
  <2>5. UsesRecorded'
    BY <1>1, <2>3 DEF WorldsOK, UsesRecorded
  <2>6. WorldsAccounted'
    BY <2>1, <2>2, <2>3 DEF WorldsAccounted, IsRetired, Tasks, NoTask
  <2>7. \A t \in Tasks : world'[t] # "None" => world[t] # "None"
    BY <2>1
  <2>. QED BY <1>1, <2>4, <2>5, <2>6, <2>7, TasksStay DEF WorldsOK
<1>. QED BY <1>2, <1>3 DEF Shutdown

LEMMA ClockKeeps ==
  ASSUME Inv, GpuFinish \/ ObserveCompletion
  PROVE  Inv' /\ UNCHANGED <<world, lastUse, stage>> /\ (Finish \/ Observe)
<1>. USE DEF Inv
<1>1. /\ UNCHANGED <<taskVars, managerVars, worker, latest, lastFinalized, update>>
      /\ UNCHANGED worldVars /\ UNCHANGED <<world, lastUse, current, retired, stage>>
      /\ Finish \/ Observe
  BY DEF GpuFinish, ObserveCompletion, othersFrame, taskVars, worldVars
<1>2. ClockTypeOK' /\ WorldsOK'
  BY <1>1, ClockGoesOn
<1>3. WorldsTyped' /\ stage' \in {"running", "stopping", "stopped", "idle", "exited"}
  BY <1>1 DEF TypeOK, WorldsTyped, RetiredWorlds
<1>4. Inv'
  BY <1>1, <1>2, <1>3, TasksStay
<1>. QED BY <1>1, <1>4

-----------------------------------------------------------------------------
(* The invariants.                                                         *)

LEMMA InitHolds == Init => Inv
<1>. SUFFICES ASSUME Init PROVE Inv
  OBVIOUS
<1>1. /\ 0 \in Serials /\ submitted = 0 /\ finished = 0 /\ completed = 0
      /\ tasks = 0 /\ latest = 0 /\ pendingNative = 0 /\ current = 0 /\ lastFinalized = 0
      /\ update = "done" /\ stage = "running" /\ history = <<>> /\ retired = <<>>
      /\ worker.task = 0 /\ worker.step = "waiting" /\ worker.stores = <<>>
      /\ worker \in [task : Tasks \cup {NoTask}, step : {"waiting", "parsing", "exited"},
                     stores : Seq(WorkerStores)]
  BY SubmissionBound DEF Init, ClockInit, Serials, NoTask, IdleWorker
<1>2. \A t \in Tasks : /\ kind[t] = "preview" /\ state[t] = "Queued" /\ phase[t] = "Queued"
                       /\ models[t] = "none" /\ environments[t] = "none" /\ world[t] = "None"
                       /\ lastUse[t] = 0 /\ t # 0
  BY DEF Init, Tasks
<1>3. TypeOK
  <2>1. "Queued" \in States /\ "Queued" \in Phases /\ "none" \in Assets
    BY DEF States, Phases, Assets
  <2>2. ClockTypeOK
    BY <1>1 DEF ClockTypeOK
  <2>. QED BY <1>1, <2>1, <2>2, TaskBound DEF Init, TypeOK, NoTask
<1>4. WorldsOK
  <2>1. DOMAIN retired = {}
    BY <1>1
  <2>. QED BY <1>1, <1>2, <2>1 DEF WorldsOK, ClockOrder, WorldsAccounted, UsesRecorded, IsRetired
<1>5. MainOK /\ WorkerOK
  BY <1>1 DEF MainOK, WorkerOK, NoTask
<1>6. ASSUME NEW t \in Tasks PROVE TaskOK(t)
  <2>1. ~Holds(t) /\ ~Starting(t) /\ t \notin {pendingNative, worker.task}
    BY <1>1, <1>2 DEF Holds, Starting
  <2>. QED BY <1>2, <2>1 DEF TaskOK, Loading
<1>. QED BY <1>3, <1>4, <1>5, <1>6 DEF Inv, TasksOK

LEMMA NextKeeps == Inv /\ [Next]_vars => Inv'
<1>. SUFFICES ASSUME Inv, [Next]_vars PROVE Inv'
  OBVIOUS
<1>1. CASE RequestPreview \/ RequestNative
  BY <1>1, RequestsKeep
<1>2. ASSUME NEW t \in Tasks, Cancel(t) PROVE Inv'
  BY <1>2, CancelKeeps
<1>3. CASE CloseWorld
  BY <1>3, CloseWorldKeeps
<1>4. CASE UpdatePreview
  BY <1>4, PreviewKeeps
<1>5. CASE RefreshNative \/ NativeEnds \/ NativeGoesOn
  BY <1>5, NativeLooksKeep
<1>6. CASE AdvanceNative
  BY <1>6, AdvanceKeeps
<1>7. CASE CollectRetired
  BY <1>7, CollectKeeps
<1>8. CASE RenderFrame
  BY <1>8, RenderKeeps
<1>9. CASE Worker
  BY <1>9, WorkerKeeps
<1>10. CASE Settle
  BY <1>10, SettleKeeps
<1>11. CASE ShutdownBegin
  BY <1>11, ShutdownBeginKeeps
<1>12. CASE Shutdown
  BY <1>12, ShutdownKeeps
<1>13. CASE GpuFinish \/ ObserveCompletion
  BY <1>13, ClockKeeps
<1>14. CASE UNCHANGED vars
  <2>1. UNCHANGED <<submitted, finished, completed, kind, state, phase, cancellation, models,
                    environments, tasks, history, pendingNative, worker, latest, lastFinalized,
                    update, world, lastUse, current, retired, stage, failed, overtaken>>
    BY <1>14 DEF vars, clockVars, taskVars, managerVars, worldVars
  <2>2. UNCHANGED <<clockVars, worldVars>> /\ AroundSame
    BY <2>1 DEF clockVars, worldVars, AroundSame
  <2>3. TypeOK' /\ MainOK' /\ WorkerOK'
    BY <2>1 DEF Inv, TypeOK, ClockTypeOK, TasksOK, MainOK, WorkerOK, Known
  <2>4. WorldsOK'
    BY <2>2, WorldsSame DEF Inv
  <2>5. ASSUME NEW t \in Tasks PROVE TaskOK(t)'
    <3>1. TaskSame(t)
      BY <2>1 DEF TaskSame
    <3>. QED BY <2>2, <3>1, SameOK DEF Inv, TasksOK
  <2>. QED BY <2>3, <2>4, <2>5 DEF Inv, TasksOK
<1>. QED BY <1>1, <1>2, <1>3, <1>4, <1>5, <1>6, <1>7, <1>8, <1>9, <1>10, <1>11, <1>12, <1>13,
            <1>14 DEF Next, Update, Exited

LEMMA InvHolds == Spec => []Inv
<1>1. Init => Inv
  BY InitHolds
<1>2. Inv /\ [Next]_vars => Inv'
  BY NextKeeps
<1>. QED BY <1>1, <1>2, PTL DEF Spec

\* Scene loads are sound for any number of tasks and any history: whatever the
\* worker stores without the mutex, no world is lost, destroyed twice or
\* replaced by that of an older request, the phases that wait for leases hold
\* them, and a task publishes one world.
THEOREM LoadsStayConsistent == Spec => []LoadInvariant
<1>1. Inv => LoadInvariant
  BY InvIs
<1>. QED BY InvHolds, <1>1, PTL

\* A superseded load, cancelled or not, holds no leases: the one exception is a
\* native load that an exception of the update ended, while the history knows it.
THEOREM SupersededReleases == Spec => []SupersededHoldsNothing
<1>1. Inv => SupersededHoldsNothing
  BY InvIs
<1>. QED BY InvHolds, <1>1, PTL

-----------------------------------------------------------------------------
(* The worlds implement deferred release.                                  *)

\* An update publishes no world or the latest one, for the first time.
LEMMA UpdateCreates ==
  ASSUME Inv, Update
  PROVE  /\ UNCHANGED <<clockVars, lastUse, stage>>
         /\ UNCHANGED world \/ \E t \in Tasks : /\ world[t] = "None"
                                                /\ world' = [world EXCEPT ![t] = "Live"]
<1>. USE DEF Inv
<1>1. UNCHANGED <<clockVars, stage>>
  BY DEF Update, UpdatePreview, RefreshNative, NativeEnds, NativeGoesOn, AdvanceNative, updateFrame
<1>2. UNCHANGED worldVars \/ (PublishWorld(latest) /\ latest # NoTask /\ world[latest] = "None")
  <2>1. CASE UpdatePreview
    <3>1. latest # NoTask /\ kind[latest] = "preview" /\ (PreviewEnds(latest) \/ PreviewPublishes(latest))
      BY <2>1 DEF UpdatePreview, Updated
    <3>2. latest \in Tasks /\ TaskOK(latest)
      BY <3>1 DEF TypeOK, TasksOK
    <3>3. CASE PreviewEnds(latest)
      BY <3>3 DEF PreviewEnds
    <3>4. CASE PreviewPublishes(latest)
      BY <3>1, <3>2, <3>4 DEF PreviewPublishes, TaskOK, Terminal
    <3>. QED BY <3>1, <3>3, <3>4
  <2>2. CASE RefreshNative \/ NativeEnds \/ NativeGoesOn
    BY <2>2 DEF RefreshNative, NativeEnds, NativeGoesOn
  <2>3. CASE AdvanceNative
    <3>1. latest \in Tasks /\ latest # NoTask /\ kind[latest] = "native" /\ TaskOK(latest)
      BY <2>3 DEF AdvanceNative, TypeOK, TasksOK, MainOK
    <3>2. \/ UNCHANGED worldVars
          \/ /\ phase[latest] \in {"ResolvingModels", "LoadingModels", "LoadingEnvironment"}
             /\ PublishWorld(latest)
      BY <2>3 DEF AdvanceNative, Updated, Resolves, LoadsModels, LoadsEnvironments, Publishes,
         NativePublishes, Fails, Waits
    <3>. QED BY <3>1, <3>2 DEF TaskOK
  <2>. QED BY <2>1, <2>2, <2>3 DEF Update
<1>3. CASE UNCHANGED worldVars
  BY <1>1, <1>3 DEF worldVars
<1>4. CASE PublishWorld(latest) /\ latest # NoTask /\ world[latest] = "None"
  <2>1. latest \in Tasks
    BY <1>4 DEF TypeOK
  <2>. QED BY <1>1, <1>4, <2>1 DEF PublishWorld
<1>. QED BY <1>2, <1>3, <1>4

LEMMA StepRefines ==
  Inv /\ [Next]_vars => [Deferred!ReleaseNext]_(Deferred!releaseVars)
<1>. SUFFICES ASSUME Inv, [Next]_vars
              PROVE  [Deferred!ReleaseNext]_(Deferred!releaseVars)
  OBVIOUS
<1>1. TypeOK /\ WorldsOK
  BY DEF Inv
<1>2. ASSUME UNCHANGED <<clockVars, world, lastUse, stage>>
      PROVE  UNCHANGED Deferred!releaseVars
  BY <1>2 DEF Deferred!releaseVars, Deferred!clockVars, clockVars
<1>3. CASE Update
  <2>1. /\ UNCHANGED <<clockVars, lastUse, stage>>
        /\ UNCHANGED world \/ \E t \in Tasks : /\ world[t] = "None"
                                               /\ world' = [world EXCEPT ![t] = "Live"]
    BY <1>3, UpdateCreates
  <2>2. ASSUME NEW t \in Tasks, world[t] = "None", world' = [world EXCEPT ![t] = "Live"]
        PROVE  Deferred!Create(t)
    BY <2>1, <2>2 DEF Deferred!Create, Deferred!clockVars, clockVars
  <2>. QED BY <1>2, <2>1, <2>2 DEF Deferred!ReleaseNext
<1>4. CASE RenderFrame
  <2>. DEFINE U == {t \in Tasks : t = current}
  <2>1. \A t \in U : world[t] = "Live"
    BY <1>1 DEF WorldsOK, WorldsAccounted
  <2>2. Deferred!Submit /\ UNCHANGED <<world, stage # "running">>
    BY <1>4 DEF RenderFrame, Submit, Deferred!Submit
  <2>3. lastUse' = [t \in Tasks |-> IF t \in U THEN submitted' ELSE lastUse[t]]
    BY <1>4 DEF RenderFrame
  <2>4. Deferred!UseInFrame(U)
    BY <2>1, <2>2, <2>3 DEF Deferred!UseInFrame
  <2>. QED BY <2>4 DEF Deferred!ReleaseNext
<1>5. CASE CollectRetired
  <2>1. PICK R \in SUBSET Tasks :
              /\ \A t \in R : world[t] = "Live" /\ lastUse[t] <= completed
              /\ world' = [t \in Tasks |-> IF t \in R THEN "Released" ELSE world[t]]
    BY <1>5, CollectKeeps
  <2>2. UNCHANGED <<clockVars, lastUse, stage>>
    BY <1>5, CollectKeeps
  <2>3. \A t \in R : lastUse[t] <= finished
    BY <1>1, <2>1, SubmissionBound DEF TypeOK, ClockTypeOK, WorldsOK, ClockOrder, Serials
  <2>4. Deferred!Release(R)
    BY <2>1, <2>2, <2>3 DEF Deferred!Release, Deferred!clockVars, clockVars
  <2>. QED BY <2>4 DEF Deferred!ReleaseNext
<1>6. CASE ShutdownBegin
  <2>1. Deferred!Close
    BY <1>6 DEF ShutdownBegin, Deferred!Close, Deferred!clockVars, clockVars, worldVars
  <2>. QED BY <2>1 DEF Deferred!ReleaseNext
<1>7. CASE ShutdownFinish
  BY <1>7 DEF ShutdownFinish, shutdownFrame, Deferred!releaseVars, Deferred!clockVars, clockVars
<1>8. CASE DeviceWaitIdle
  <2>1. /\ UNCHANGED <<submitted, finished, world, lastUse, stage # "running">>
        /\ finished = submitted /\ completed' = submitted
    BY <1>8 DEF DeviceWaitIdle, shutdownFrame
  <2>2. CASE completed = submitted
    BY <2>1, <2>2 DEF Deferred!releaseVars, Deferred!clockVars
  <2>3. CASE completed # submitted
    <3>1. completed \in Nat /\ submitted \in Nat /\ completed <= submitted
      BY <1>1, <2>1, SubmissionBound DEF TypeOK, ClockTypeOK, WorldsOK, ClockOrder, Serials
    <3>2. Deferred!Observe
      BY <2>1, <2>3, <3>1 DEF Deferred!Observe
    <3>. QED BY <2>1, <3>2 DEF Deferred!ReleaseNext
  <2>. QED BY <2>2, <2>3
<1>9. CASE DestroyWorlds
  <2>. DEFINE R == {t \in Tasks : world[t] = "Live"}
  <2>1. /\ UNCHANGED <<clockVars, lastUse>> /\ stage # "running" /\ stage' # "running"
        /\ world' = [t \in Tasks |-> IF t \in R THEN "Released" ELSE world[t]]
    BY <1>9 DEF DestroyWorlds, shutdownFrame
  <2>2. Deferred!Release(R)
    BY <2>1 DEF Deferred!Release, Deferred!clockVars, clockVars
  <2>. QED BY <2>2 DEF Deferred!ReleaseNext
<1>10. CASE GpuFinish \/ ObserveCompletion
  <2>1. UNCHANGED <<world, lastUse, stage>> /\ (Finish \/ Observe)
    BY <1>10, ClockKeeps
  <2>2. Deferred!Finish \/ Deferred!Observe
    BY <2>1 DEF Finish, Observe, Deferred!Finish, Deferred!Observe
  <2>. QED BY <2>1, <2>2 DEF Deferred!ReleaseNext
<1>11. CASE RequestPreview \/ RequestNative
  BY <1>2, <1>11 DEF RequestPreview, RequestNative, NewTask, worldVars
<1>12. ASSUME NEW t \in Tasks, Cancel(t) PROVE UNCHANGED Deferred!releaseVars
  BY <1>2, <1>12 DEF Cancel, worldVars
<1>13. CASE CloseWorld
  BY <1>2, <1>13 DEF CloseWorld
<1>14. CASE Worker
  BY <1>2, <1>14 DEF Worker, WorkerTake, WorkerStore, WorkerParsed, WorkerExit, workerFrame, worldVars
<1>15. CASE Settle
  BY <1>2, <1>15 DEF Settle, ModelsSettle, EnvironmentsSettle, othersFrame, worldVars
<1>16. CASE UNCHANGED vars
  BY <1>2, <1>16 DEF vars, worldVars
<1>. QED BY <1>3, <1>4, <1>5, <1>6, <1>7, <1>8, <1>9, <1>10, <1>11, <1>12, <1>13, <1>14, <1>15,
            <1>16 DEF Next, Shutdown, Exited

\* The worlds a coordinator publishes, retires, collects and destroys are
\* resources under DeferredRelease: while the program runs none is destroyed
\* before the last frame that drew it has finished.
THEOREM WorldsImplementDeferredRelease == Spec => ImplementsDeferredRelease
<1>1. Init => Deferred!ReleaseInit
  BY DEF Init, Deferred!ReleaseInit, ClockInit, Deferred!ClockInit
<1>. QED BY <1>1, StepRefines, InvHolds, PTL
         DEF Spec, ImplementsDeferredRelease, Deferred!ReleaseSpec

=============================================================================
