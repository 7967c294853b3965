---------------------------- MODULE RenderGraph ----------------------------
(***************************************************************************)
(* The frame graph at work (render/graph/RenderGraph.cpp and               *)
(* RenderResourcePool.cpp): per frame, prepareResources compiles the graph *)
(* for the requested features, brings the physical images in step with it  *)
(* and lets the passes rewrite their descriptor sets; execute records the  *)
(* nodes with the barriers that the tracked image states call for; a       *)
(* viewport resize recreates the images of that size.                      *)
(*                                                                         *)
(* The frames' accesses are followed the way the GPU orders them: which    *)
(* later stages wait for an access, and to which accesses of theirs it has *)
(* been made visible.  An image stands for one subresource.                *)
(***************************************************************************)
EXTENDS SubmissionClock, GraphCompiler

CONSTANTS
  Nodes,           \* what the passes declare, in registration order: the fields
                   \* of GraphCompiler and, of a node and of an image use, the
                   \* features that call for it (when; {}: always)
  Features,        \* what the user switches on and off
  Single,          \* images that the frames share; the others have one per frame slot
  Persistent,      \* images with persistentResidency
  External,        \* images with externallyInitialized, initialLayout undefined
  Viewport,        \* images of the viewport's size
  Callbacks,       \* pass with descriptor sets of its own -> the images at whose
                   \* creation onResourceResidencyChanged makes them anew
  FramesInFlight,
  MaxResizes       \* bound on the viewport resizes of a behaviour

ASSUME GraphBounds ==
  /\ FramesInFlight \in Nat \ {0}
  /\ MaxResizes \in Nat

Images == UNION {{u.image : u \in ToSet(Nodes[n].images)} : n \in DOMAIN Nodes}
Owners == DOMAIN Callbacks

\* An image of the pool: one per frame slot unless the frames share it.
Physical ==
  {p \in Images \X (0 .. FramesInFlight - 1) : p[1] \in Single => p[2] = 0}

VARIABLES
  phase,        \* "idle" or "prepared": between prepareResources and execute
  features,     \* those the graph is compiled for
  residency,    \* RenderResourcePool::residency_
  retireAfter,  \* retireAfterSerial_
  refresh,      \* resourceRefreshPending_
  bound,        \* of a pass: the images whose present views its sets hold
  freed,        \* the passes whose sets this frame's prepareResources freed
  resetPending, \* DdgiPass::resetPending_: the atlas is to be cleared
  tracked,      \* imageStates_ of each physical image
  accesses,     \* history: the accesses of unfinished frames, of each physical image
  content,      \* history: the physical images whose content is defined
  races,        \* history: the kinds of conflicts met
  lastUse,      \* history: the last submission that used each image
  lastRun,      \* history: the last submission in which each pass ran
  resizes

poolVars == <<residency, retireAfter, refresh, bound, freed, resetPending>>
gpuVars == <<tracked, accesses, content, races, lastUse, lastRun>>
graphVars == <<clockVars, phase, features, poolVars, gpuVars, resizes>>

-----------------------------------------------------------------------------
(* The declarations of a frame. *)

Wanted(when, F) == when = {} \/ when \cap F # {}

\* IRenderPass::setup of every pass.
Declared(F) ==
  [n \in DOMAIN Nodes |->
     [Nodes[n] EXCEPT !.images = SelectSeq(@, LAMBDA u : Wanted(u.when, F))]]

ActiveNodes(F) == {n \in DOMAIN Nodes : Wanted(Nodes[n].when, F)}
ActiveUses(n, F) == {u \in ToSet(Nodes[n].images) : Wanted(u.when, F)}

\* The images of the pass's nodes, and those that its nodes use with the features.
OwnerImages == [o \in Owners |->
  UNION {{u.image : u \in ToSet(Nodes[n].images)} :
           n \in {m \in DOMAIN Nodes : Nodes[m].owner = o}}]
ImagesUsed(o, F) ==
  UNION {{u.image : u \in ActiveUses(n, F)} :
           n \in {m \in ActiveNodes(F) : Nodes[m].owner = o}}

\* CompiledRenderGraph.
CompiledGraph(F) ==
  LET declared == Declared(F)
      active == ActiveNodes(F)
      order == Order(declared, active)
      owners == ActiveOwners(declared, active)
  IN [key |-> F,
      valid |-> Compiles(declared, active, External),
      order |-> [k \in DOMAIN order |-> declared[order[k]]],
      owners |-> owners,
      uses |-> [o \in owners |-> ImagesUsed(o, F)],
      images |-> UNION {ImagesUsed(o, F) : o \in owners}]

\* compiledCache_: a CompiledRenderGraph for each set of features.
FeatureSets == SUBSET (Features \cup {"reset"})
CompiledGraphs == {CompiledGraph(F) : F \in FeatureSets}
Compiled(F) == CHOOSE graph \in CompiledGraphs : graph.key = F

\* The pass writes an image of the graph.
HasImage(o) ==
  \E n \in DOMAIN Nodes : Nodes[n].owner = o /\ \E u \in ToSet(Nodes[n].images) : Writes(u.access)

\* An image whose creation renews the pass's sets, which goes when the pass is
\* switched off: no graph without the pass wants it.
OwnImage(o, w) ==
  /\ w \in (OwnerImages[o] \cap Callbacks[o]) \ Persistent
  /\ \A graph \in CompiledGraphs : w \in graph.images => o \in graph.owners

\* How the passes that keep descriptor sets declare themselves: one that runs
\* uses all its images, and one that writes an image has an image of its own.
ASSUME PassAssumption ==
  /\ Persistent \subseteq Images
  /\ \A o \in Owners :
       /\ \A graph \in CompiledGraphs :
            o \in graph.owners => graph.uses[o] = OwnerImages[o]
       /\ HasImage(o) => \E w \in Images : OwnImage(o, w)

\* The physical image of a use in the present frame.
PhysicalOf(use) ==
  LET slot == submitted % FramesInFlight
      previous == (slot + FramesInFlight - 1) % FramesInFlight
  IN <<use.image, IF use.image \in Single THEN 0
                  ELSE IF use.frame = "Previous" THEN previous ELSE slot>>

-----------------------------------------------------------------------------
(* Stages, accesses and layouts. *)

AllGraphics == {"fragment", "color", "depth"}
AllStages == AllGraphics \cup {"compute", "transfer"}
WriteAccesses == {"color write", "depth write", "storage write", "transfer write"}
AllAccesses ==
  WriteAccesses \cup {"color read", "depth read", "sampled", "storage read", "transfer read"}

\* A set of stages with a set of their accesses.
Scope(stages, kinds) == [stages |-> stages, kinds |-> kinds]

\* The state of an image that is to be sampled, by whichever shader.
SampledScope == Scope(AllGraphics \cup {"compute"}, {"sampled"})

\* stateFor
StateFor(access) ==
  CASE access = "ColorWrite"       -> Scope({"color"}, {"color write"})
    [] access = "ColorReadWrite"   -> Scope({"color"}, {"color read", "color write"})
    [] access = "DepthWrite"       -> Scope({"depth"}, {"depth write"})
    [] access = "DepthRead"        -> Scope({"depth"}, {"depth read"})
    [] access = "Sampled"          -> SampledScope
    [] access = "StorageWrite"     -> Scope({"compute", "fragment"}, {"storage write"})
    [] access = "StorageReadWrite" ->
         Scope({"compute", "fragment"}, {"storage read", "storage write"})
    [] access = "TransferRead"     -> Scope({"transfer"}, {"transfer read"})
    [] access = "TransferWrite"    -> Scope({"transfer"}, {"transfer write"})

\* The stage at which a node of the type performs the access.
StageOf(type, access) ==
  IF access \in {"Sampled", "StorageWrite", "StorageReadWrite"}
    THEN IF type = "Compute" THEN "compute" ELSE "fragment"
    ELSE CHOOSE stage \in StateFor(access).stages : TRUE

HasWrite(kinds) == kinds \cap WriteAccesses # {}

\* RenderGraphImageState; one that is not initialized has no stages.
Layouts == {"undefined", "color", "depth", "depth read only", "shader read only",
            "general", "transfer"}
InState(layout, scope) == [layout |-> layout, scope |-> scope]
Unknown == InState("undefined", Scope({}, {}))

\* An access as the GPU sees it: the stages that wait for it and, of a write,
\* the accesses it has been made visible to.  It is lost when the tracker
\* forgot it before it had finished.
Access(stage, write, scope) ==
  [stage |-> stage, write |-> write, serial |-> submitted + 1, lost |-> FALSE,
   ordered |-> scope.stages, visible |-> scope.stages \X scope.kinds]
Nothing == Scope({}, {})

Conflict(access, stage) ==
  IF access.lost THEN "lost"
  ELSE IF stage \in access.ordered THEN "not visible"
  ELSE "not ordered"

-----------------------------------------------------------------------------
(* RenderGraphExecutor::execute; g has the fields tracked, accesses, content *)
(* and races.                                                                *)

\* What a barrier from one scope to another does to an earlier access.
Waited(access, src, dst) ==
  IF ({access.stage} \cup access.ordered) \cap src.stages = {} THEN access
  ELSE [access EXCEPT
          !.ordered = @ \cup dst.stages,
          !.visible = IF access.write /\ (HasWrite(src.kinds) \/ @ # {})
                        THEN @ \cup (dst.stages \X dst.kinds) ELSE @]

\* Mutant: a barrier is for a change of layout only.
NeedsBarrier_LayoutOnly(current, layout, scope) == current.layout # layout

NeedsBarrier(current, layout, scope) ==
  \/ current.layout # layout
  \/ HasWrite(current.scope.kinds)
  \/ HasWrite(scope.kinds)

\* transitionUsage.  A change of layout is itself a write, ordered after what
\* the barrier waits for; from "undefined" it gives up the content.
Transition(g, use, layout, scope) ==
  LET p == PhysicalOf(use)
      current == IF g.tracked[p] = Unknown /\ use.image \in External
                   THEN InState("undefined", Scope(AllStages, AllAccesses))
                   ELSE g.tracked[p]
      changes == current.layout # layout
      unwaited == {e \in g.accesses[p] :
                     ({e.stage} \cup e.ordered) \cap current.scope.stages = {}}
  IN [g EXCEPT
        !.tracked[p] = InState(layout, scope),
        !.accesses[p] =
           IF changes THEN {Access("layout", TRUE, scope)}
           ELSE IF NeedsBarrier(current, layout, scope)
             THEN {Waited(e, current.scope, scope) : e \in @}
             ELSE @,
        !.content = IF changes /\ current.layout = "undefined" THEN @ \ {p} ELSE @,
        !.races = IF changes THEN @ \cup {Conflict(e, "layout") : e \in unwaited} ELSE @]

Before(g, use) == Transition(g, use, use.required, StateFor(use.access))

\* What recordNode does with the image.
Perform(g, type, use) ==
  LET p == PhysicalOf(use)
      stage == StageOf(type, use.access)
      unseen == {e \in g.accesses[p] :
                   e.write /\ \E k \in StateFor(use.access).kinds \ WriteAccesses :
                                <<stage, k>> \notin e.visible}
      unwaited == {e \in g.accesses[p] : Writes(use.access) /\ stage \notin e.ordered}
      access == Access(stage, Writes(use.access), Nothing)
      empty == Reads(use.access) /\ use.frame = "Current" /\ p \notin g.content
  IN [g EXCEPT
        !.accesses[p] = IF Writes(use.access) THEN {access} ELSE @ \cup {access},
        !.content = IF Writes(use.access) THEN @ \cup {p} ELSE @,
        !.races = @ \cup {Conflict(e, stage) : e \in unseen \cup unwaited}
                    \cup (IF empty THEN {"no content"} ELSE {})]

After(g, use) ==
  IF use.final # use.required
    THEN Transition(g, use, use.final,
                    IF use.final \in {"shader read only", "depth read only"}
                      THEN SampledScope ELSE StateFor(use.access))
    ELSE [g EXCEPT !.tracked[PhysicalOf(use)] = InState(use.final, StateFor(use.access))]

RecordNode(g, node) ==
  LET before == FoldLeft(Before, g, node.images)
      performed == FoldLeft(LAMBDA h, u : Perform(h, node.type, u), before, node.images)
  IN FoldLeft(After, performed, node.images)

Executed(F) ==
  LET unfinished == [p \in Physical |-> {e \in accesses[p] : e.serial > completed}]
  IN FoldLeft(RecordNode,
              [tracked |-> tracked, accesses |-> unfinished,
               content |-> content, races |-> races],
              Compiled(F).order)

-----------------------------------------------------------------------------
(* The tracker is emptied: imageStates_.clear(). *)

TrackerCleared(destroyed) ==
  /\ tracked' = [p \in Physical |-> Unknown]
  /\ accesses' = [p \in Physical |->
                    IF p[1] \in destroyed THEN {}
                    ELSE {[e EXCEPT !.lost = TRUE] : e \in accesses[p]}]
  /\ content' = {p \in content : p[1] \notin destroyed}

-----------------------------------------------------------------------------
(* The pool. *)

\* Mutant: an image retires with the last serial known to be complete.
DueAfter_Completed(i) == IF residency[i] = "Resident" THEN completed ELSE retireAfter[i]

\* The serial after which an image that nobody wants may go.
DueAfter(i) == IF residency[i] = "Resident" THEN submitted ELSE retireAfter[i]

CreatedFor(wanted) == {i \in wanted : residency[i] = "Unallocated"}

DestroyedFor(wanted) ==
  {i \in Images \ wanted : residency[i] # "Unallocated" /\ DueAfter(i) <= completed}

\* synchronizeResidency
SynchronizeResidency(wanted) ==
  /\ residency' = [i \in Images |->
                     IF i \in wanted THEN "Resident"
                     ELSE IF i \in DestroyedFor(wanted) THEN "Unallocated"
                     ELSE IF residency[i] = "Resident" THEN "Retiring"
                     ELSE residency[i]]
  /\ retireAfter' = [i \in Images |->
                       IF i \in wanted \/ residency'[i] = "Unallocated" THEN 0
                       ELSE DueAfter(i)]

-----------------------------------------------------------------------------
(* The passes' descriptor sets. *)

\* The passes whose onResourceResidencyChanged is called: those with an active
\* node that uses a created image.
Notified(F, created) ==
  {o \in Compiled(F).owners : Compiled(F).uses[o] \cap created # {}}

\* Mutant: after a resize too, only the passes that use a created image.
Renewing_NoRefresh(F, created) ==
  {o \in Owners \cap Notified(F, created) : Callbacks[o] \cap created # {}}

\* The passes that make their sets anew; all the active ones after a resize.
Renewing(F, created) ==
  IF refresh THEN Owners \cap Compiled(F).owners
  ELSE {o \in Owners \cap Notified(F, created) : Callbacks[o] \cap created # {}}

-----------------------------------------------------------------------------
GraphInit ==
  /\ ClockInit
  /\ phase = "idle"
  /\ features = {}
  /\ residency = [i \in Images |-> "Resident"]
  /\ retireAfter = [i \in Images |-> 0]
  /\ refresh = TRUE
  /\ bound = [o \in Owners |-> OwnerImages[o]]
  /\ freed = {}
  /\ resetPending = TRUE
  /\ tracked = [p \in Physical |-> Unknown]
  /\ accesses = [p \in Physical |-> {}]
  /\ content = {}
  /\ races = {}
  /\ lastUse = [i \in Images |-> 0]
  /\ lastRun = [o \in Owners |-> 0]
  /\ resizes = 0

\* DdgiPass::prepareGraph: its atlas is cleared when it has to be created.
PendingReset ==
  resetPending \/ \E i \in External : residency[i] = "Unallocated"

\* What prepareGraph adds to the features of the frame.
FrameFeatures(F) == IF "ddgi" \in F /\ PendingReset THEN F \cup {"reset"} ELSE F

\* RenderGraph::prepareGraph and prepareResources, once beginFrame has waited
\* for the frame slot.
PrepareResources(F) ==
  LET G == FrameFeatures(F)
      wanted == Compiled(G).images \cup Persistent
      created == CreatedFor(wanted)
      destroyed == DestroyedFor(wanted)
      renewing == Renewing(G, created)
  IN /\ phase = "idle"
     /\ submitted < completed + FramesInFlight
     /\ Compiled(G).valid
     /\ phase' = "prepared"
     /\ features' = G
     /\ resetPending' = IF "ddgi" \in F THEN PendingReset ELSE resetPending
     /\ SynchronizeResidency(wanted)
     /\ refresh' = FALSE
     /\ bound' = [o \in Owners |->
                    IF o \in renewing
                      THEN {i \in OwnerImages[o] : residency'[i] # "Unallocated"}
                      ELSE bound[o] \ destroyed]
     /\ freed' = IF refresh THEN {} ELSE renewing
     /\ IF refresh \/ created \cup destroyed # {}
          THEN TrackerCleared(created \cup destroyed)
          ELSE UNCHANGED <<tracked, accesses, content>>
     /\ UNCHANGED <<clockVars, races, lastUse, lastRun, resizes>>

\* RenderGraph::execute, and the frame is submitted.
Execute ==
  /\ phase = "prepared"
  /\ Submit
  /\ \E g \in {Executed(features)} :
       /\ tracked' = g.tracked
       /\ accesses' = g.accesses
       /\ content' = g.content
       /\ races' = g.races
  /\ lastUse' = [i \in Images |->
                  IF i \in Compiled(features).images THEN submitted' ELSE lastUse[i]]
  /\ lastRun' = [o \in Owners |->
                  IF o \in Compiled(features).owners THEN submitted' ELSE lastRun[o]]
  /\ phase' = "idle"
  /\ freed' = {}
  /\ resetPending' = (resetPending /\ "reset" \notin features)
  /\ UNCHANGED <<features, residency, retireAfter, refresh, bound, resizes>>

\* EditorController waits for all frames and calls Renderer::resizeViewport:
\* every pass frees its sets, the pool makes the images of the viewport's size
\* anew, the graph forgets what it has compiled and tracked.
Resize ==
  /\ phase = "idle"
  /\ resizes < MaxResizes
  /\ finished = submitted
  /\ completed' = submitted
  /\ bound' = [o \in Owners |-> {}]
  /\ residency' = [i \in Images |->
                     IF i \in Viewport /\ residency[i] = "Retiring" THEN "Unallocated"
                     ELSE residency[i]]
  /\ retireAfter' = [i \in Images |->
                       IF residency'[i] = "Unallocated" THEN 0 ELSE retireAfter[i]]
  /\ refresh' = TRUE
  /\ TrackerCleared(Viewport)
  /\ resizes' = resizes + 1
  /\ UNCHANGED <<submitted, finished, phase, features, freed, resetPending, races,
                 lastUse, lastRun>>

GpuFinish ==
  /\ Finish
  /\ UNCHANGED <<phase, features, poolVars, gpuVars, resizes>>

\* beginFrame waits for the fence of the frame's slot.
BeginFrame ==
  /\ phase = "idle"
  /\ Observe
  /\ UNCHANGED <<phase, features, poolVars, gpuVars, resizes>>

GraphNext ==
  \/ \E F \in SUBSET Features : PrepareResources(F)
  \/ Execute
  \/ Resize
  \/ GpuFinish
  \/ BeginFrame

GraphSpec == GraphInit /\ [][GraphNext]_graphVars

-----------------------------------------------------------------------------
(* Properties. *)

PoolTypeOK ==
  /\ ClockTypeOK
  /\ phase \in {"idle", "prepared"}
  /\ features \in FeatureSets
  /\ residency \in [Images -> {"Unallocated", "Resident", "Retiring"}]
  /\ retireAfter \in [Images -> Serials]
  /\ refresh \in BOOLEAN
  /\ bound \in [Owners -> SUBSET Images]
  /\ freed \subseteq Owners
  /\ resetPending \in BOOLEAN
  /\ lastUse \in [Images -> Serials]
  /\ lastRun \in [Owners -> Serials]
  /\ resizes \in 0 .. MaxResizes

TrackerTypeOK ==
  /\ \A p \in Physical : tracked[p].layout \in Layouts
  /\ \A p \in Physical : \A e \in accesses[p] : e.serial \in 1 .. submitted
  /\ content \subseteq Physical
  /\ races \subseteq {"lost", "not visible", "not ordered", "no content"}

\* When a frame is about to be recorded, every image it uses is allocated, and
\* the sets of a pass that writes an image hold the present views of all it
\* uses, whatever the passes that were switched off, on again and resized in
\* between have destroyed (prepareResources notifies only the passes that use
\* an image created now).
UsedIsBound ==
  phase = "prepared" =>
    /\ \A i \in Compiled(features).images : residency[i] = "Resident"
    /\ \A o \in Owners \cap Compiled(features).owners :
         HasImage(o) => Compiled(features).uses[o] \subseteq bound[o]

\* The sets that prepareResources frees for all frame slots at once are those
\* of passes that no unfinished frame has run, although nothing defers the
\* freeing (IRenderPass::onResourceResidencyChanged).
FreedIsIdle == \A o \in freed : lastRun[o] <= completed

\* The serials by which images go: no frame after retireAfter has used an image
\* that retires, none in flight one that is not there.
RetiredAfterUse ==
  \A i \in Images :
    /\ lastUse[i] <= submitted
    /\ residency[i] = "Retiring" => lastUse[i] <= retireAfter[i] /\ retireAfter[i] <= submitted
    /\ residency[i] = "Unallocated" => lastUse[i] <= completed

\* A pass has run only in frames that used all its images.
RunUsesImages == \A o \in Owners : \A i \in OwnerImages[o] : lastRun[o] <= lastUse[i]

\* A resize leaves no frame in flight until the sets are made anew.
RefreshIsQuiet == refresh => phase = "idle" /\ completed = submitted

\* As long as a pass's own image exists, so do the others, which go no earlier,
\* and its sets hold the present view of each.
SetsFollowOwnImage ==
  ~refresh =>
    \A o \in Owners : \A w \in Images :
      OwnImage(o, w) /\ residency[w] # "Unallocated" =>
        \A i \in OwnerImages[o] :
          /\ i \in bound[o]
          /\ residency[i] # "Unallocated"
          /\ residency[i] = "Retiring" =>
               residency[w] = "Retiring" /\ retireAfter[w] <= retireAfter[i]

\* The types, and descriptor sets that are neither missing when a pass runs nor
\* freed while one runs; with what an induction needs.
SetsInvariant ==
  /\ PoolTypeOK
  /\ ClockOrder
  /\ UsedIsBound
  /\ FreedIsIdle
  /\ RetiredAfterUse
  /\ RunUsesImages
  /\ RefreshIsQuiet
  /\ SetsFollowOwnImage

\* An image goes only after the last frame that used it, however often it was
\* given up and wanted again in between (synchronizeResidency,
\* recreateViewportDependent).
DestroyedAfterUse ==
  [][\A i \in Images :
       residency[i] # "Unallocated" /\ residency'[i] = "Unallocated"
         => lastUse[i] <= finished]_graphVars

\* As long as the tracker has not been emptied in between, every access waits
\* for the accesses it conflicts with, of the same frame and of earlier ones:
\* shadow maps shared by the frames, the previous frame's images, readers
\* before the next writer (RenderGraphExecutor::execute).
AccessesAreOrdered == TrackerTypeOK /\ "not ordered" \notin races

\* The atlas accumulates over the frames: "later frames import the contents
\* produced by the preceding submission".
ContentIsKept == "no content" \notin races

=============================================================================
