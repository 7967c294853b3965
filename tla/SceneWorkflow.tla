--------------------------- MODULE SceneWorkflow ---------------------------
(***************************************************************************)
(* The main thread's work on assets: workflows/SceneWorkflowController.cpp *)
(* and assets/AssetLoadCoordinator.cpp, over the tasks of AssetImport.     *)
(*                                                                         *)
(* A user picks an entry of the catalog; what is not cooked yet is         *)
(* imported first and loaded when the import ends, unless another entry    *)
(* was picked meanwhile.  The catalog may be edited and reloaded, and the  *)
(* texture limit changed, while imports run.  A model is added to the      *)
(* catalog by a copy that runs in a thread of its own after a validation.  *)
(***************************************************************************)
EXTENDS AssetImport

CONSTANTS
  Models,        \* catalog models at the start
  NewModel,      \* the model the import dialog adds
  Scene,         \* a native scene, the last entry
  Profiles,      \* import profiles, one for each texture limit
  NewProfile,    \* the profile NewModel is added with
  MaxOperations, \* bound on the loads the user asks for
  MaxChanges     \* bound on the changes of the limit, the catalog, the sources

AllModels == Models \cup {NewModel}

\* The requests a manager may get: textures of a model for a profile, and
\* the validation of a file that is not in the catalog yet.
TextureKey(m, p) == <<"textures", m, p>>
SourceKey == <<"validation", NewModel>>
WorkflowKeys ==
  {TextureKey(m, p) : m \in AllModels, p \in Profiles} \cup {SourceKey}

ASSUME WorkflowAssumption ==
  /\ Keys = WorkflowKeys
  /\ IsFiniteSet(Models) /\ Models # {}
  /\ NewProfile \in Profiles
  /\ NewModel \notin Models /\ Scene \notin Models \cup {NewModel}
  /\ NoTask \notin Models \cup {NewModel, Scene}
  /\ MaxOperations \in Nat /\ MaxChanges \in Nat

VARIABLES
  catalog,     \* the models of the catalog file, in its order
  ctl,         \* the controller's members, below
  copy,        \* the thread of modelImport_.importFuture
  cooked,      \* the model and profile pairs whose artifacts are up to date
  load,        \* the call of requestSceneLoad in the last step, if any
  wanted,      \* history: the entry the newest operation waits for, if it does
  moved,       \* history: the entries were rebuilt since that operation
  changes,     \* how many of MaxChanges were made
  main         \* where the main thread is

workflowVars == <<catalog, ctl, copy, cooked, wanted, moved, changes>>
allVars == <<importVars, workflowVars, load, main>>

Entries(models) == Append(models, Scene)

NoCopy == [step |-> "none", loadAfter |-> FALSE]
NoLoad == [entry |-> 0, generation |-> 0, import |-> NoTask]

\* entries, artifactStatuses_, the coordinator's generation_ and consumers_,
\* processedImports_ and the modelImport_ operation (the report it shows is
\* its dialog).
Statuses == {"none", "missing", "ready", "importing"}
Consumer == [generation : Nat, index : Nat]

Controller ==
  [entries : Seq(AllModels \cup {Scene}),
   limit : Profiles,
   status : [AllModels \X Profiles -> Statuses],
   generation : 0 .. MaxOperations + 1,
   consumers : [Tasks -> Seq(Consumer)],
   processed : SUBSET Tasks,
   validation : Tasks \cup {NoTask},
   dialog : BOOLEAN]

WorkflowTypeOK ==
  /\ ImportTypeOK
  /\ catalog \in Seq(AllModels)
  /\ ctl \in Controller
  /\ copy \in [step : {"none", "copying", "succeeded", "failed"},
               loadAfter : BOOLEAN]
  /\ cooked \in SUBSET (AllModels \X Profiles)
  /\ load.import \in Tasks \cup {NoTask}
  /\ wanted \in AllModels \cup {Scene, NoTask}
  /\ moved \in BOOLEAN
  /\ changes \in 0 .. MaxChanges
  /\ main \in {"running", "closing", "waiting", "joining", "exited"}

\* The controller at the start, with nothing imported.
FirstProfile == CHOOSE p \in Profiles : TRUE
Fresh(models) ==
  [entries |-> Entries(SetToSeq(models)),
   limit |-> FirstProfile,
   status |-> [a \in AllModels \X Profiles |->
                 IF a[1] \in models /\ a[2] = FirstProfile THEN "missing" ELSE "none"],
   generation |-> 0,
   consumers |-> [t \in Tasks |-> <<>>],
   processed |-> {},
   validation |-> NoTask,
   dialog |-> FALSE]

\* The constructor and initialize(), in the OnDemand mode.
WorkflowInit ==
  /\ ImportInit
  /\ catalog = SetToSeq(Models)
  /\ ctl = Fresh(Models)
  /\ copy = NoCopy
  /\ cooked = {}
  /\ load = NoLoad
  /\ wanted = NoTask
  /\ moved = FALSE
  /\ changes = 0
  /\ main = "running"

MainFree == main = "running" /\ MutexFree

IsModel(e) == e \in AllModels

----------------------------------------------------------------------------
(* Parts of the handlers, as functions of the controller's members c and  *)
(* of the manager's tasks v, before or after the handler's own request.    *)

Now == [history |-> history, key |-> key, state |-> state]
After == [history |-> history', key |-> key', state |-> state']

\* findEntryById, 0 for -1.
IndexOf(c, e) ==
  IF e \in ToSet(c.entries)
    THEN CHOOSE i \in DOMAIN c.entries : c.entries[i] = e
    ELSE 0

\* What refreshArtifactStatus finds for a model.
Inspected(m, p, v) ==
  IF \E t \in ToSet(v.history) :
        v.key[t] = TextureKey(m, p) /\ v.state[t] \notin Terminal
    THEN "importing"
  ELSE IF <<m, p>> \in cooked THEN "ready"
  ELSE "missing"

\* refreshArtifactStatus(index): the status of the entry for the profile of
\* the present texture limit; other profiles keep theirs.
RefreshStatus(c, i, v) ==
  IF i \in DOMAIN c.entries /\ IsModel(c.entries[i])
    THEN [c EXCEPT !.status[<<c.entries[i], c.limit>>] =
                     Inspected(c.entries[i], c.limit, v)]
    ELSE c

\* refreshAllArtifactStatuses.
RefreshAll(c) ==
  [c EXCEPT !.status =
     [a \in AllModels \X Profiles |->
        IF a[1] \in ToSet(c.entries) /\ a[2] = c.limit
          THEN Inspected(a[1], a[2], Now) ELSE "none"]]

\* refresh(): the catalog file is read again and every status with it.
Reloaded(c, models) == RefreshAll([c EXCEPT !.entries = Entries(models)])

\* Mutant: the newest consumer of the task, whatever operation it is of.
AnyGeneration_LatestScene(c, t) ==
  IF c.consumers[t] = <<>> THEN 0 ELSE Last(c.consumers[t]).index

\* takeLatestScene: the newest consumer of the newest operation, 0 for none.
LatestScene(c, t) ==
  LET mine == {k \in DOMAIN c.consumers[t] : c.consumers[t][k].generation = c.generation}
  IN IF mine = {} THEN 0 ELSE c.consumers[t][Max(mine)].index

\* The tasks whose end processAssetTasks has not seen, and of these the imports.
Ended(c, v) == {t \in ToSet(v.history) : v.state[t] \in Terminal /\ t \notin c.processed}
EndedImports(c, v) == {t \in Ended(c, v) : v.key[t] # SourceKey}

\* What it does to the controller's members: it inspects the entries of the
\* imports, and forgets their consumers.
Processed(c, v) ==
  LET models == {v.key[t][2] : t \in EndedImports(c, v)} \cap ToSet(c.entries)
  IN [c EXCEPT
        !.processed = @ \cup Ended(c, v),
        !.status = [a \in AllModels \X Profiles |->
                      IF a[1] \in models /\ a[2] = c.limit
                        THEN Inspected(a[1], a[2], v) ELSE @[a]],
        !.consumers = [t \in Tasks |-> IF t \in EndedImports(c, v) THEN <<>> ELSE @[t]]]

\* The imports it loads from: those whose artifacts are ready and wait for the
\* newest operation.  A load of an entry that no longer exists throws, and is
\* not one.
Loading(c, v) ==
  {t \in EndedImports(c, v) :
     /\ v.state[t] = "Completed"
     /\ v.key[t][2] \in ToSet(c.entries)
     /\ Processed(c, v).status[<<v.key[t][2], v.key[t][3]>>] = "ready"
     /\ LatestScene(c, t) \in DOMAIN c.entries}

\* The load in the last step, l before it: it goes from the newest task to the
\* oldest, and a later load supersedes.
ProcessedLoad(c, l, v) ==
  IF Loading(c, v) = {} THEN l
  ELSE LET t == Min(Loading(c, v))
       IN [entry |-> c.entries[LatestScene(c, t)], generation |-> c.generation, import |-> t]

\* processAssetTasks.
ProcessAssetTasks(c, l, v) ==
  /\ ctl' = Processed(c, v)
  /\ load' = ProcessedLoad(c, l, v)

----------------------------------------------------------------------------
(* What the user does.                                                     *)

\* The arguments of requestEntry: an entry, and whether its source is loaded
\* as it is, whether it is loaded at all, and whether it is imported again.
Ask(index, source, loadAfter, force) ==
  [index |-> index, source |-> source, loadAfter |-> loadAfter, force |-> force]

\* requestEntry, once its checks have passed, with controller members c.
\* What is ready, or needs no artifacts, is loaded; the rest is imported.
Direct(c, r) ==
  LET m == c.entries[r.index]
  IN \/ ~IsModel(m)
     \/ r.source
     \/ ~r.force /\ Inspected(m, c.limit, Now) = "ready"

\* The controller's members after it, when the tasks have become v.
Requested(c, r, v) ==
  LET m == c.entries[r.index]
      t == TaskFor(TextureKey(m, c.limit))
      begun == [c EXCEPT !.generation = @ + 1]
      attached == [begun EXCEPT !.consumers[t] = Append(@,
                     [generation |-> begun.generation, index |-> r.index])]
  IN IF ~IsModel(m) \/ r.source THEN begun
     ELSE RefreshStatus(IF Direct(c, r) \/ ~r.loadAfter THEN begun ELSE attached,
                        r.index, v)

LoadRequested(c, r) ==
  IF Direct(c, r) /\ r.loadAfter
    THEN [entry |-> c.entries[r.index], generation |-> c.generation + 1,
          import |-> NoTask]
    ELSE NoLoad

\* The tasks after it.
RequestImport(c, r) ==
  /\ c.generation < MaxOperations
  /\ IF Direct(c, r)
       THEN UNCHANGED importVars
       ELSE Request(TextureKey(c.entries[r.index], c.limit))
  /\ wanted' = IF ~Direct(c, r) /\ r.loadAfter THEN c.entries[r.index] ELSE NoTask
  /\ moved' = FALSE

\* The three ways of the editor: load, load the source as it is, and import
\* again without loading.
PickEntry ==
  /\ MainFree
  /\ \E i \in DOMAIN ctl.entries :
     \E r \in {Ask(i, FALSE, TRUE, FALSE), Ask(i, TRUE, TRUE, FALSE),
               Ask(i, FALSE, FALSE, TRUE)} :
        /\ RequestImport(ctl, r)
        /\ ctl' = Requested(ctl, r, After)
        /\ load' = LoadRequested(ctl, r)
  /\ UNCHANGED <<catalog, copy, cooked, changes, main>>

\* setTextureLimit.
SetTextureLimit ==
  /\ MainFree
  /\ changes < MaxChanges
  /\ \E p \in Profiles \ {ctl.limit} :
        ctl' = RefreshAll([ctl EXCEPT !.limit = p])
  /\ changes' = changes + 1
  /\ UNCHANGED <<importVars, catalog, copy, cooked, wanted, moved, main>>

\* removeModel: SceneCatalogEditor rewrites the file, refresh() reads it.
RemoveModel ==
  /\ MainFree
  /\ changes < MaxChanges
  /\ \E k \in DOMAIN catalog :
       /\ catalog[k] \in ToSet(ctl.entries)
       /\ catalog' = RemoveAt(catalog, k)
       /\ ctl' = Reloaded(ctl, catalog')
  /\ moved' = (wanted # NoTask)
  /\ changes' = changes + 1
  /\ UNCHANGED <<importVars, copy, cooked, wanted, main>>

\* beginModelImport: the file is validated by the tool first.  It counts as a
\* change of the catalog.
BeginModelImport ==
  /\ MainFree
  /\ changes < MaxChanges
  /\ changes' = changes + 1
  /\ NewModel \notin ToSet(catalog)
  /\ Request(SourceKey)
  /\ ctl' = [ctl EXCEPT !.validation = TaskFor(SourceKey), !.dialog = FALSE]
  /\ UNCHANGED <<catalog, copy, cooked, wanted, moved, main>>

\* confirmModelImport starts the copy.
ConfirmModelImport ==
  /\ MainFree
  /\ ctl.dialog
  /\ copy.step = "none"
  /\ NewModel \notin ToSet(catalog)
  /\ \E after \in BOOLEAN :
        copy' = [step |-> "copying", loadAfter |-> after]
  /\ UNCHANGED <<importVars, catalog, ctl, cooked, wanted, moved, changes, main>>

\* dismissModelImport.
DismissModelImport ==
  /\ MainFree
  /\ ctl.dialog
  /\ ctl' = [ctl EXCEPT !.dialog = FALSE]
  /\ UNCHANGED <<importVars, catalog, copy, cooked, wanted, moved, changes, main>>

\* cancelModelImport; its call of cancel() is CancelBegin and CancelEnd.  The
\* flag it raises for the copy is not modelled: the copy may fail, or be past
\* its last look at the flag, either way.
CancelModelImport ==
  /\ MainFree
  /\ ctl.validation # NoTask
  /\ ~cancelled[ctl.validation]
  /\ CancelBegin(ctl.validation)
  /\ UNCHANGED <<workflowVars, main>>

\* cancelAssetTask.  The user cancels a task once: a second call can only
\* repeat what the first one did.
CancelAssetTask ==
  /\ MainFree
  /\ \E t \in ToSet(history) : ~cancelled[t] /\ CancelBegin(t)
  /\ UNCHANGED <<workflowVars, main>>

CancelReturns ==
  /\ CancelEnd
  /\ main' = IF main = "closing" THEN "waiting" ELSE main
  /\ UNCHANGED workflowVars

----------------------------------------------------------------------------
(* pump(): processModelImport and then processAssetTasks.                  *)

\* The validation has ended: its report opens the dialog, also when the task
\* failed; a report that is missing or does not load shows an error.
ValidationSeen(c) ==
  IF c.validation = NoTask \/ ~Done(c.validation) THEN {c}
  ELSE LET taken == [c EXCEPT !.validation = NoTask]
       IN {taken} \cup (IF report[c.validation]
                          THEN {[taken EXCEPT !.dialog = TRUE]} ELSE {})

\* The copy goes on, or failed, or there is none.
PumpWithoutCopy ==
  /\ copy.step # "succeeded"
  /\ \E c \in ValidationSeen(ctl) : ProcessAssetTasks(c, NoLoad, Now)
  /\ copy' = IF copy.step = "failed" THEN NoCopy ELSE copy
  /\ UNCHANGED <<importVars, wanted, moved>>

\* The copy ended well: the catalog is read again, the limit becomes that of
\* the model's profile and the model is requested, which throws when the
\* open scene has unsaved changes.
PumpCopied ==
  /\ copy.step = "succeeded"
  /\ copy' = NoCopy
  /\ \E c \in ValidationSeen(ctl) :
        LET fresh == RefreshAll([Reloaded(c, catalog) EXCEPT !.dialog = FALSE,
                                                             !.limit = NewProfile])
            i == IndexOf(fresh, NewModel)
            r == Ask(i, FALSE, copy.loadAfter, FALSE)
        IN \/ /\ i # 0
              /\ RequestImport(fresh, r)
              /\ ProcessAssetTasks(Requested(fresh, r, After), LoadRequested(fresh, r), After)
           \/ /\ ProcessAssetTasks(fresh, NoLoad, Now)
              /\ moved' = (wanted # NoTask)
              /\ UNCHANGED <<importVars, wanted>>

Pump ==
  /\ MainFree
  /\ PumpWithoutCopy \/ PumpCopied
  /\ UNCHANGED <<catalog, cooked, changes, main>>

----------------------------------------------------------------------------
(* shutdown(): flags first, then the copy is waited for, then the worker.  *)

\* Nothing reads the controller's members any more: the model forgets them.
Shutdown ==
  /\ MainFree
  /\ IF ctl.validation \in ToSet(history) /\ ~Done(ctl.validation)
       THEN CancelBegin(ctl.validation) /\ main' = "closing"
       ELSE UNCHANGED importVars /\ main' = "waiting"
  /\ ctl' = Fresh(Models)
  /\ wanted' = NoTask
  /\ moved' = FALSE
  /\ cooked' = {}
  /\ UNCHANGED <<catalog, copy, changes>>

ShutdownImports ==
  /\ main = "waiting"
  /\ copy.step # "copying"
  /\ StopImports
  /\ main' = "joining"
  /\ UNCHANGED workflowVars

Join ==
  /\ main = "joining"
  /\ worker.step = "stopped"
  /\ main' = "exited"
  /\ UNCHANGED <<importVars, workflowVars>>

----------------------------------------------------------------------------
(* The other threads.                                                      *)

\* The copy publishes the model in the catalog file, or fails and leaves it.
CopyEnds ==
  /\ copy.step = "copying"
  /\ \/ /\ copy' = [copy EXCEPT !.step = "succeeded"]
        /\ catalog' = Append(catalog, NewModel)
     \/ /\ copy' = [copy EXCEPT !.step = "failed"]
        /\ UNCHANGED catalog
  /\ UNCHANGED <<importVars, ctl, cooked, wanted, moved, changes, main>>

\* The tool publishes what it was run for.
ToolRuns ==
  /\ ToolSays
  /\ cooked' = IF worker'.progress = "published" /\ worker.progress = "started"
                 THEN cooked \cup {<<key[worker.task][2], key[worker.task][3]>>}
                 ELSE cooked
  /\ UNCHANGED <<catalog, ctl, copy, wanted, moved, changes, main>>

Worker == WorkerStep /\ UNCHANGED <<workflowVars, main>>

\* A source file is edited: its artifacts are stale.
SourceChanges ==
  /\ changes < MaxChanges
  /\ \E a \in cooked : cooked' = cooked \ {a}
  /\ changes' = changes + 1
  /\ UNCHANGED <<importVars, catalog, ctl, copy, wanted, moved, main>>

\* After the join the process ends.
Exited ==
  /\ main = "exited"
  /\ UNCHANGED allVars

LoadsNothing ==
  \/ SetTextureLimit \/ RemoveModel
  \/ BeginModelImport \/ ConfirmModelImport
  \/ DismissModelImport \/ CancelModelImport
  \/ CancelAssetTask \/ CancelReturns
  \/ Shutdown \/ ShutdownImports \/ Join
  \/ CopyEnds \/ ToolRuns \/ Worker \/ SourceChanges

WorkflowNext ==
  \/ PickEntry
  \/ Pump
  \/ LoadsNothing /\ load' = NoLoad
  \/ Exited

WorkflowSpec == WorkflowInit /\ [][WorkflowNext]_allVars

\* The main thread comes back from cancel() and goes on with a shutdown, the
\* worker runs and polls, the copy of finitely many files ends.  Nothing is
\* assumed of the tool, which may hang, nor of the user.
Quietly(A) == A /\ load' = NoLoad
MainGoesOn == CancelReturns \/ ShutdownImports \/ Join

Fairness ==
  /\ WF_allVars(Quietly(MainGoesOn))
  /\ WF_allVars(Quietly(CopyEnds))
  /\ WF_allVars(Quietly(Worker))

FairSpec == WorkflowSpec /\ Fairness

----------------------------------------------------------------------------
(* Properties.                                                             *)

\* A task that has not ended waits in the queue or is the one the worker
\* runs, or its cancellation was asked for: request() merges with it, so one
\* that nobody runs would be waited for without end.
NoTaskForgotten ==
  \A t \in ToSet(history) :
     \/ Done(t)
     \/ t \in ToSet(pending)
     \/ t = active
     \/ cancelled[t]

\* A model whose status says it is importing is being imported, or its import
\* has ended and no pump has looked at it yet: the panel never waits for an
\* import that was seen to end.
ImportingIsCurrent ==
  \A m \in AllModels, p \in Profiles :
     ctl.status[<<m, p>>] = "importing" =>
       \E t \in 1 .. issued :
          key[t] = TextureKey(m, p) /\ t \notin ctl.processed

\* A task that a pump has processed stays ended.
ProcessedIsDone == \A t \in ctl.processed : Done(t) /\ t # canceller

\* Statuses are those of the present entries for the present limit.
StatusIsShown ==
  \A m \in AllModels, p \in Profiles :
     ctl.status[<<m, p>>] # "none" => m \in ToSet(ctl.entries) /\ p = ctl.limit

\* The consumers of the newest operation wait for the entry that was chosen, at
\* the import of that entry.
ConsumersOfTheChoice ==
  \A t \in Tasks : \A k \in DOMAIN ctl.consumers[t] :
     LET x == ctl.consumers[t][k]
     IN /\ x.generation <= ctl.generation
        /\ x.generation = ctl.generation =>
             /\ IsModel(wanted)
             /\ t <= issued /\ key[t][2] = wanted
             /\ ~moved => x.index \in DOMAIN ctl.entries /\ ctl.entries[x.index] = wanted

\* A copy adds a model to the catalog file behind the others: until the
\* entries are read again, they are where the catalog has them.
EntriesStayInPlace ==
  main = "running" =>
    \A i \in DOMAIN ctl.entries :
       IsModel(ctl.entries[i]) =>
         i \in DOMAIN Entries(catalog) /\ Entries(catalog)[i] = ctl.entries[i]

\* The types, and nobody waits for an import that nobody runs; with what an
\* induction needs.
WorkflowInvariant ==
  /\ WorkflowTypeOK
  /\ QueueSound
  /\ WorkerSound
  /\ NoTaskForgotten
  /\ ImportingIsCurrent
  /\ ProcessedIsDone
  /\ StatusIsShown
  /\ ConsumersOfTheChoice
  /\ EntriesStayInPlace

\* An import loads, when it ends, the entry the user chose last, and loads
\* only if no newer operation superseded its own.  An edit of the catalog
\* since then may have moved the entries, whose indexes the consumers keep.
LoadsTheChosenEntry ==
  [][load'.import # NoTask /\ ~moved =>
       /\ load'.entry = wanted
       /\ load'.generation = ctl.generation
       /\ key[load'.import][2] = wanted]_allVars

\* A cancelled task gives the worker back, also when its tool hangs.
ActiveCancelled == active # NoTask /\ cancelled[active]
CancelFreesWorker == ActiveCancelled ~> ~ActiveCancelled

\* Shutdown waits for the copy and for the worker, and ends whatever the tool
\* does.
ShutdownEnds == main # "running" ~> main = "exited"

=============================================================================
