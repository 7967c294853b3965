----------------------------- MODULE SceneEditor -----------------------------
(***************************************************************************)
(* Editing a native scene: RuntimeWorld (the document in memory and the    *)
(* binding of each component to its asset), SceneEditorSession with its    *)
(* EditorCommandStack, the flags the Inspector and the viewport gizmo keep *)
(* while a value is being dragged, the scene file another program may also *)
(* write, and the publication of a world that was loading meanwhile.       *)
(*                                                                         *)
(* All of it runs on the main thread, one user action or frame at a time;  *)
(* only the other program and the worker that parses a loading scene run   *)
(* beside it.  A save or a reload is split at its file accesses, where the *)
(* other program can step in.                                              *)
(*                                                                         *)
(* A document maps each entity to its content; the contents keep what the  *)
(* properties tell apart (a moved entity, a model, a probe with and        *)
(* without its captured environment); a moved entity stands for any value  *)
(* that is dragged.  ui.held is what the mouse or the keyboard holds,      *)
(* ui.editing the Inspector's own flags, one for each component, that say  *)
(* an edit is on, ui.manipulating and ui.changed the gizmo's.              *)
(*                                                                         *)
(* ghost is history that no code keeps: the version of the file the        *)
(* session knows (base), a write of the file between two file accesses of  *)
(* one call (raced), a world that left the history behind (adrift), and a  *)
(* file that was written or read again in the midst of an edit (midway).   *)
(***************************************************************************)
EXTENDS Naturals, Sequences, FiniteSets

CONSTANTS
    Entity,         \* entities a document may hold
    ProbeEntity,    \* the entity that may carry the reflection probe, if there is one
    Widget,         \* widgets of the Inspector whose value is dragged
    MaxCommands,    \* EditorCommandStack::kMaxCommands
    MaxPushes,      \* bound: commands made in one session
    MaxVersions,    \* bound: versions of the scene file
    MaxLostAfter,   \* bound: a widget is lost before the command with this number is made
    MaxGrabAfter,   \* bound: the gizmo is grabbed before the command with this number is made
    NoDoc,          \* no continuous edit is open
    Idle            \* no file operation, no load

ASSUME MaxCommandsAssumption == MaxCommands \in Nat \ {0}

ASSUME BoundsAssumption == MaxPushes \in Nat /\ MaxVersions \in Nat \ {0}

VARIABLES world, session, stack, ui, disk, call, load, ghost

editorVars == <<world, session, stack, ui, disk, call, load, ghost>>

Content == {"absent", "plain", "moved", "model", "probe", "captured"}
ContentOf(e) ==
    {"absent", "plain", "moved"}
        \cup (IF e = ProbeEntity THEN {"probe", "captured"} ELSE {"model"})
Doc == {d \in [Entity -> Content] : \A e \in Entity : d[e] \in ContentOf(e)}
EmptyDoc == [e \in Entity |-> "absent"]

Binding == {"none", "unresolved", "loading", "ready", "failed"}

\* Inner and Outer Cone stand for the groups of widgets that share one begin and
\* end (also FOV/Near/Far, Ambient Color and Intensity, Environment Intensity
\* and Rotation): the end asks ImGui only about the last item drawn.
ASSUME WidgetAssumption == Widget \subseteq {"transform", "inner cone", "outer cone"}

LastOfGroup == {"transform", "outer cone"}
FlagOf(w) == IF w = "transform" THEN "transform" ELSE "light"

\* A save or a reload between two of its file accesses.
Call == [at : {"checked", "rechecked", "replaced", "parsed"},
         doc : Doc, version : 0 .. MaxVersions]

ASSUME NoneAssumption == NoDoc \notin Doc /\ Idle \notin Call

Command == [before : Doc, after : Doc, beforeId : Nat, afterId : Nat]

TypeOK ==
    /\ world \in [doc : Doc, bind : [Entity -> Binding]]
    /\ session \in [open : BOOLEAN, before : Doc \cup {NoDoc},
                    saved : Doc, stamp : 0 .. MaxVersions]
    /\ stack \in [commands : Seq(Command), cursor : Nat, next : 1 .. MaxPushes + 1,
                  current : Nat, saved : Nat]
    /\ stack.cursor <= Len(stack.commands) /\ Len(stack.commands) <= MaxCommands
    /\ ui \in [held : {"nothing", "gizmo"} \cup Widget,
               editing : SUBSET {"transform", "light"},
               manipulating : BOOLEAN, changed : BOOLEAN]
    /\ disk \in [doc : Doc, version : 1 .. MaxVersions, registered : BOOLEAN,
                 pinned : BOOLEAN]
    /\ call = Idle \/ call \in Call
    /\ load = Idle \/ load \in [at : {"requested", "parsed", "ready"}, doc : Doc,
                                version : 0 .. MaxVersions, stamp : 0 .. MaxVersions]
    /\ ghost \in [base : 0 .. MaxVersions, raced : BOOLEAN, adrift : BOOLEAN,
                  midway : BOOLEAN]

EmptyStack == [commands |-> <<>>, cursor |-> 0, next |-> 1, current |-> 0, saved |-> 0]

FirstDoc == [e \in Entity |-> IF e = ProbeEntity THEN "probe" ELSE "plain"]

Init ==
    /\ world = [doc |-> FirstDoc, bind |-> [e \in Entity |-> "none"]]
    /\ session = [open |-> TRUE, before |-> NoDoc, saved |-> FirstDoc, stamp |-> 1]
    /\ stack = EmptyStack
    /\ ui = [held |-> "nothing", editing |-> {}, manipulating |-> FALSE,
             changed |-> FALSE]
    /\ disk = [doc |-> FirstDoc, version |-> 1, registered |-> FALSE, pinned |-> FALSE]
    /\ call = Idle
    /\ load = Idle
    /\ ghost = [base |-> 1, raced |-> FALSE, adrift |-> FALSE, midway |-> FALSE]

-----------------------------------------------------------------------------
(* The world: documents, bindings and the callback that asks for assets *)

AssetOf(d, e) == d[e]
NeedsAsset(d, e) == d[e] \in {"model", "captured"}

\* A component the edit leaves alone keeps its binding, a new one starts over.
BindingsAfterEdit(d) ==
    [e \in Entity |->
        IF ~NeedsAsset(d, e) THEN "none"
        ELSE IF world.doc[e] = d[e] THEN world.bind[e] ELSE "unresolved"]

\* replaceDocument rebuilds every entity and keeps the assets that are Ready.
BindingsAfterReplace(d) ==
    [e \in Entity |->
        IF ~NeedsAsset(d, e) THEN "none"
        ELSE IF \E x \in Entity : /\ world.bind[x] = "ready"
                                  /\ AssetOf(world.doc, x) = AssetOf(d, e)
             THEN "ready" ELSE "unresolved"]

\* What updateEditorModelBindings and updateEditorReflectionProbeBindings make
\* of an unresolved binding: a handle (BindingSettles sees it ready, possibly at
\* once), or a refusal: the Catalog does not know the environment, or the load
\* is not accepted.
Requested(d, bind) ==
    {[e \in Entity |-> IF bind[e] = "unresolved" THEN answer[e] ELSE bind[e]] :
        answer \in {a \in [Entity -> {"loading", "failed"}] :
                        \A e \in Entity :
                            bind[e] # "unresolved"
                                \/ (d[e] = "captured" /\ ~disk.registered)
                            => a[e] = "failed"}}

\* The edit was made in place and the callback ran.
WorldEdited(d) ==
    \E bind \in Requested(d, BindingsAfterEdit(d)) :
        world' = [doc |-> d, bind |-> bind]

\* Mutant: the callback is not run after the document was replaced.
WorldReplacedQuietly(d) ==
    world' = [doc |-> d, bind |-> BindingsAfterReplace(d)]

\* The document was replaced and the callback ran.
WorldReplaced(d) ==
    \E bind \in Requested(d, BindingsAfterReplace(d)) :
        world' = [doc |-> d, bind |-> bind]

\* RuntimeWorld::update sees the handle of a loading component settle.
BindingSettles ==
    /\ session.open /\ call = Idle
    /\ \E e \in Entity, answer \in {"ready", "failed"} :
        /\ world.bind[e] = "loading"
        /\ world' = [world EXCEPT !.bind[e] = answer]
    /\ UNCHANGED <<session, stack, ui, disk, call, load, ghost>>

-----------------------------------------------------------------------------
(* EditorCommandStack *)

\* Mutant: a full stack drops its oldest command but not the cursor.
PushedStale(before, after) ==
    LET made == Append(SubSeq(stack.commands, 1, stack.cursor),
                       [before |-> before, after |-> after,
                        beforeId |-> stack.current, afterId |-> stack.next])
        extra == IF Len(made) > MaxCommands THEN 1 ELSE 0
    IN  [stack EXCEPT !.commands = SubSeq(made, 1 + extra, Len(made)),
                      !.cursor = IF extra = 1 THEN MaxCommands - 1 ELSE Len(made),
                      !.next = @ + 1,
                      !.current = stack.next]

\* push: the redo branch goes, the oldest command leaves a full stack.
Pushed(before, after) ==
    LET made == Append(SubSeq(stack.commands, 1, stack.cursor),
                       [before |-> before, after |-> after,
                        beforeId |-> stack.current, afterId |-> stack.next])
        extra == IF Len(made) > MaxCommands THEN Len(made) - MaxCommands ELSE 0
    IN  [commands |-> SubSeq(made, 1 + extra, Len(made)), cursor |-> Len(made) - extra,
         next |-> stack.next + 1, current |-> stack.next, saved |-> stack.saved]

Dirty == stack.current # stack.saved
CanUndo == stack.cursor > 0
CanRedo == stack.cursor < Len(stack.commands)

-----------------------------------------------------------------------------
(* What the user does when nothing is held: menus, panels, shortcuts *)

UserFree ==
    /\ session.open
    /\ call = Idle
    /\ ui.held = "nothing" /\ ~ui.manipulating

\* A command is made of a change from one document to another.
Recorded(before, after) ==
    /\ stack' = Pushed(before, after)
    /\ WorldEdited(after)

\* execute with a mutation that succeeds; refused while an edit is open.
Execute(d) ==
    /\ session.before = NoDoc
    /\ stack.next <= MaxPushes
    /\ Recorded(world.doc, d)
    /\ UNCHANGED <<session, ui, call, load, ghost>>

\* What a component setter makes of an entity: a value is changed, a probe added
\* or removed, or given another environment among those of the Catalog.
Set(e) ==
    CASE world.doc[e] = "plain"    -> ContentOf(e) \cap {"moved", "probe"}
      [] world.doc[e] = "moved"    -> {"plain"}
      [] world.doc[e] = "probe"    -> {"plain"} \cup IF disk.registered THEN {"captured"}
                                                                      ELSE {}
      [] world.doc[e] = "captured" -> {"plain", "probe"}
      [] OTHER                     -> {}

\* Creating and deleting entities, adding, setting and removing components.
Changed(e) ==
    CASE world.doc[e] = "absent" -> ContentOf(e) \ {"absent", "moved", "captured"}
      [] world.doc[e] = "plain"  -> ContentOf(e) \ {"plain", "moved", "captured"}
      [] world.doc[e] = "moved"  -> {"absent"}
      [] OTHER                   -> {"absent", "plain"} \cup Set(e)

EditEntity ==
    /\ UserFree
    /\ \E e \in Entity : \E c \in Changed(e) :
        Execute([world.doc EXCEPT ![e] = c])
    /\ UNCHANGED disk

\* A mutation that fails, or a document that does not validate (the active
\* camera deleted, a second atmosphere): the world is rebuilt as it was.
RejectedEdit ==
    /\ UserFree
    /\ session.before = NoDoc
    /\ WorldReplaced(world.doc)
    /\ UNCHANGED <<session, stack, ui, disk, call, load, ghost>>

\* Undo and redo look at the stack only: an edit that was left open goes on from
\* another document than the one it began with.
SteppedAside == ghost' = [ghost EXCEPT !.adrift = @ \/ session.before # NoDoc]

Undo ==
    /\ UserFree /\ CanUndo
    /\ LET command == stack.commands[stack.cursor] IN
        /\ WorldReplaced(command.before)
        /\ stack' = [stack EXCEPT !.current = command.beforeId, !.cursor = @ - 1]
    /\ SteppedAside
    /\ UNCHANGED <<session, ui, disk, call, load>>

\* Mutant: redo moves the cursor and leaves the state id.
RedoKeepsId ==
    /\ UserFree /\ CanRedo
    /\ LET command == stack.commands[stack.cursor + 1] IN
        /\ WorldReplaced(command.after)
        /\ stack' = [stack EXCEPT !.cursor = @ + 1]
    /\ SteppedAside
    /\ UNCHANGED <<session, ui, disk, call, load>>

Redo ==
    /\ UserFree /\ CanRedo
    /\ LET command == stack.commands[stack.cursor + 1] IN
        /\ WorldReplaced(command.after)
        /\ stack' = [stack EXCEPT !.current = command.afterId, !.cursor = @ + 1]
    /\ SteppedAside
    /\ UNCHANGED <<session, ui, disk, call, load>>

-----------------------------------------------------------------------------
(* Continuous edits: an Inspector widget or the gizmo is held, or was *)

MovedAt(e) == [world.doc EXCEPT ![e] = IF @ = "plain" THEN "moved" ELSE "plain"]
Movable(e) == world.doc[e] \in {"plain", "moved"}

\* beginContinuousEdit captures the document once.
Begun == IF session.before = NoDoc THEN [session EXCEPT !.before = world.doc]
                                   ELSE session

\* A held widget changes its value.  The first change opens the edit, unless the
\* flag of the component is still up.  Values are set in place; under a flag
\* that is up although no edit is open, setLight makes a command of every
\* change, and setTransform changes the world behind the history's back.
InspectorDrag ==
    /\ session.open /\ call = Idle /\ ~ui.manipulating
    /\ stack.next <= MaxPushes
    /\ \E w \in Widget, e \in Entity :
        /\ ui.held \in {"nothing", w}
        /\ Movable(e)
        /\ session' = IF FlagOf(w) \in ui.editing THEN session ELSE Begun
        /\ ui' = [ui EXCEPT !.held = w, !.editing = @ \cup {FlagOf(w)}]
        /\ \/ /\ FlagOf(w) = "transform" \/ session'.before # NoDoc
              /\ world' = [world EXCEPT !.doc = MovedAt(e)]
              /\ ghost' = [ghost EXCEPT !.adrift = @ \/ session'.before = NoDoc]
              /\ UNCHANGED stack
           \/ /\ FlagOf(w) # "transform" /\ session'.before = NoDoc
              /\ Recorded(world.doc, MovedAt(e))
              /\ UNCHANGED ghost
    /\ UNCHANGED <<disk, call, load>>

\* While an edit was left open, lights, cameras, atmospheres and probes are set
\* in place, and nobody runs the callback.
SetInPlace ==
    /\ UserFree
    /\ session.before # NoDoc
    /\ \E e \in Entity : \E c \in Set(e) :
        LET d == [world.doc EXCEPT ![e] = c]
        IN  world' = [doc |-> d, bind |-> BindingsAfterEdit(d)]
    /\ UNCHANGED <<session, stack, ui, disk, call, load, ghost>>

\* cancelContinuousEdit puts the captured document back.
Cancelled ==
    IF session.before = NoDoc
    THEN UNCHANGED <<world, session>>
    ELSE /\ WorldReplaced(session.before)
         /\ session' = [session EXCEPT !.before = NoDoc]

\* commitContinuousEdit: without an open edit there is nothing to commit; a
\* document that does not validate is taken back like a cancelled edit.
Committed ==
    \/ /\ session.before # NoDoc
       /\ Recorded(session.before, world.doc)
       /\ session' = [session EXCEPT !.before = NoDoc]
    \/ Cancelled /\ UNCHANGED stack

\* The last widget of a group is let go: the edit is committed, the flag lowered.
InspectorRelease ==
    /\ session.open /\ call = Idle /\ ui.held \in LastOfGroup
    /\ Committed
    /\ ui' = [ui EXCEPT !.held = "nothing", !.editing = @ \ {FlagOf(ui.held)}]
    /\ UNCHANGED <<disk, call, load, ghost>>

\* Any other widget is let go: IsItemDeactivatedAfterEdit speaks of the item drawn
\* after it, so the flag stays up and the edit open, with nothing held.
GroupedRelease ==
    /\ session.open /\ call = Idle /\ ui.held \in Widget \ LastOfGroup
    /\ ui' = [ui EXCEPT !.held = "nothing"]
    /\ UNCHANGED <<world, session, stack, disk, call, load, ghost>>

\* The selection moves to an entity without that widget, or the panel closes:
\* nobody sees the widget deactivate.
WidgetLost ==
    /\ session.open /\ call = Idle /\ ui.held \in LastOfGroup
    /\ stack.next <= MaxLostAfter
    /\ ui' = [ui EXCEPT !.held = "nothing"]
    /\ UNCHANGED <<world, session, stack, disk, call, load, ghost>>

GizmoGrab ==
    /\ UserFree
    /\ stack.next <= MaxPushes /\ stack.next <= MaxGrabAfter
    /\ session' = Begun
    /\ ui' = [ui EXCEPT !.held = "gizmo", !.manipulating = TRUE, !.changed = FALSE]
    /\ UNCHANGED <<world, stack, disk, call, load, ghost>>

GizmoDrag ==
    /\ session.open /\ call = Idle /\ ui.held = "gizmo" /\ ui.manipulating
    /\ \E e \in Entity :
        /\ Movable(e)
        /\ world' = [world EXCEPT !.doc = MovedAt(e)]
    /\ ui' = [ui EXCEPT !.changed = TRUE]
    /\ UNCHANGED <<session, stack, disk, call, load, ghost>>

\* Letting go commits the drag, or cancels a grab that changed nothing.
GizmoRelease ==
    /\ session.open /\ call = Idle /\ ui.held = "gizmo" /\ ui.manipulating
    /\ IF ui.changed THEN Committed ELSE Cancelled /\ UNCHANGED stack
    /\ ui' = [ui EXCEPT !.held = "nothing", !.manipulating = FALSE, !.changed = FALSE]
    /\ UNCHANGED <<disk, call, load, ghost>>

\* cancelManipulation: the tool was switched or the selection is gone.
GizmoCancel ==
    /\ session.open /\ call = Idle /\ ui.manipulating
    /\ Cancelled
    /\ ui' = [ui EXCEPT !.held = "nothing", !.manipulating = FALSE, !.changed = FALSE]
    /\ UNCHANGED <<stack, disk, call, load, ghost>>

-----------------------------------------------------------------------------
(* The scene file *)

\* validate against the Catalog: a captured environment must be in it.
ReferencesExist(d) == (\E e \in Entity : d[e] = "captured") => disk.registered

\* saveAtomic: the stamp of the file is the one of the load.
SaveBegins ==
    /\ UserFree
    /\ ReferencesExist(world.doc)
    /\ disk.version = session.stamp
    /\ disk.version < MaxVersions
    /\ call' = [at |-> "checked", doc |-> world.doc, version |-> disk.version]
    /\ UNCHANGED <<world, session, stack, ui, disk, load, ghost>>

\* Mutant: the file is replaced without looking again.
SaveRecheckBlind ==
    /\ call # Idle /\ call.at = "checked"
    /\ call' = [call EXCEPT !.at = "rechecked"]
    /\ UNCHANGED <<world, session, stack, ui, disk, load, ghost>>

\* The temporary file is written; the stamp is compared once more.
SaveRechecks ==
    /\ call # Idle /\ call.at = "checked"
    /\ call' = IF disk.version = call.version THEN [call EXCEPT !.at = "rechecked"]
                                              ELSE Idle
    /\ UNCHANGED <<world, session, stack, ui, disk, load, ghost>>

SaveReplaces ==
    /\ call # Idle /\ call.at = "rechecked"
    /\ disk' = [disk EXCEPT !.doc = call.doc, !.version = @ + 1]
    /\ call' = [call EXCEPT !.at = "replaced"]
    /\ ghost' = [ghost EXCEPT !.base = disk.version + 1,
                              !.raced = @ \/ (load # Idle /\ load.at = "parsed")]
    /\ UNCHANGED <<world, session, stack, ui, load>>

\* The stamp of the replaced file is read back and the stack marked saved, also
\* when an edit was left open: the file then has a state no command names.
SaveEnds ==
    /\ call # Idle /\ call.at = "replaced"
    /\ session' = [session EXCEPT !.stamp = disk.version, !.saved = call.doc]
    /\ stack' = [stack EXCEPT !.saved = stack.current]
    /\ call' = Idle
    /\ ghost' = [ghost EXCEPT !.midway = session.before # NoDoc]
    /\ UNCHANGED <<world, ui, disk, load>>

\* Save As to a new path, registered in the Catalog: the world is rebuilt and
\* attached afresh, and the callback is not run.  A Catalog that refuses the
\* scene takes the new file away again and nothing has changed.  (disk follows
\* the session to the new path, so a load of the old one is not modelled.)
SaveAs ==
    /\ UserFree
    /\ load = Idle
    /\ ReferencesExist(world.doc)
    /\ disk.version < MaxVersions
    /\ disk' = [disk EXCEPT !.doc = world.doc, !.version = @ + 1,
                            !.pinned = @ \/ \E e \in Entity : disk.doc[e] = "captured"]
    /\ world' = [world EXCEPT !.bind = BindingsAfterReplace(world.doc)]
    /\ session' = [open |-> TRUE, before |-> NoDoc, saved |-> world.doc,
                   stamp |-> disk.version + 1]
    /\ stack' = EmptyStack
    /\ ghost' = [ghost EXCEPT !.base = disk.version + 1, !.adrift = FALSE, !.midway = FALSE]
    /\ UNCHANGED <<ui, call, load>>

\* The conflict dialog's Reload: the file is parsed, then stamped.
ReloadBegins ==
    /\ UserFree
    /\ disk.version # session.stamp
    /\ ReferencesExist(disk.doc)
    /\ call' = [at |-> "parsed", doc |-> disk.doc, version |-> disk.version]
    /\ UNCHANGED <<world, session, stack, ui, disk, load, ghost>>

\* The history starts afresh; an edit that was left open stays open, and its
\* commit or its end will bring back a document from before.
ReloadEnds ==
    /\ call # Idle /\ call.at = "parsed"
    /\ WorldReplaced(call.doc)
    /\ session' = [session EXCEPT !.stamp = disk.version, !.saved = call.doc]
    /\ stack' = EmptyStack
    /\ ghost' = [ghost EXCEPT !.base = call.version, !.adrift = FALSE,
                              !.midway = session.before # NoDoc]
    /\ call' = Idle
    /\ UNCHANGED <<ui, disk, load>>

\* Another program writes the scene file (the bound leaves room for the version
\* of a save that has begun).
ForeignWrite ==
    /\ disk.version + (IF call # Idle THEN 1 ELSE 0) < MaxVersions
    /\ disk' = [disk EXCEPT !.doc = EmptyDoc, !.version = @ + 1]
    /\ ghost' = [ghost EXCEPT !.raced = \/ @
                                        \/ call # Idle /\ call.at # "checked"
                                        \/ load # Idle /\ load.at = "parsed"]
    /\ UNCHANGED <<world, session, stack, ui, call, load>>

-----------------------------------------------------------------------------
(* Loading a world beside the one being edited *)

NewLoad == [at |-> "requested", doc |-> EmptyDoc, version |-> 0, stamp |-> 0]

\* Opening a scene when nothing is unsaved.
RequestLoad ==
    /\ call = Idle /\ load = Idle /\ ~Dirty
    /\ ui.held = "nothing" /\ ~ui.manipulating
    /\ load' = NewLoad
    /\ UNCHANGED <<world, session, stack, ui, disk, call, ghost>>

\* The dirty dialog's Discard puts the saved document back first.
DiscardAndLoad ==
    /\ UserFree /\ Dirty /\ load = Idle
    /\ WorldReplaced(session.saved)
    /\ session' = [session EXCEPT !.before = NoDoc]
    /\ stack' = EmptyStack
    /\ load' = NewLoad
    /\ ghost' = [ghost EXCEPT !.adrift = FALSE, !.midway = FALSE]
    /\ UNCHANGED <<ui, disk, call>>

\* The worker parses the file, then takes its stamp.
WorkerParses ==
    /\ load # Idle /\ load.at = "requested"
    /\ load' = IF ReferencesExist(disk.doc)
               THEN [load EXCEPT !.at = "parsed", !.doc = disk.doc, !.version = disk.version]
               ELSE Idle
    /\ UNCHANGED <<world, session, stack, ui, disk, call, ghost>>

\* The stamp is taken; dependencies load, or one of them fails.
WorkerStamps ==
    /\ load # Idle /\ load.at = "parsed"
    /\ load' \in {[load EXCEPT !.at = "ready", !.stamp = disk.version], Idle}
    /\ UNCHANGED <<world, session, stack, ui, disk, call, ghost>>

\* publicationBlockReason refuses a world when the session is dirty; otherwise
\* attach starts a fresh session on it.  The selection is gone, so a held
\* widget is no longer drawn; the panels' flags stay.
Publish ==
    /\ call = Idle /\ load # Idle /\ load.at = "ready"
    /\ load' = Idle
    /\ IF session.open /\ Dirty
       THEN UNCHANGED <<world, session, stack, ui, ghost>>
       ELSE /\ world' = [doc |-> load.doc,
                         bind |-> [e \in Entity |->
                                    IF NeedsAsset(load.doc, e) THEN "ready" ELSE "none"]]
            /\ session' = [open |-> TRUE, before |-> NoDoc, saved |-> load.doc,
                           stamp |-> load.stamp]
            /\ stack' = EmptyStack
            /\ ui' = [ui EXCEPT !.held = "nothing"]
            /\ ghost' = [ghost EXCEPT !.base = load.version, !.adrift = FALSE,
                                      !.midway = FALSE]
    /\ UNCHANGED <<disk, call>>

\* Close Scene, after Save or Discard where something was unsaved.
CloseScene ==
    /\ UserFree
    /\ world' = [doc |-> EmptyDoc, bind |-> [e \in Entity |-> "none"]]
    /\ session' = [open |-> FALSE, before |-> NoDoc, saved |-> EmptyDoc, stamp |-> 0]
    /\ stack' = EmptyStack
    /\ ghost' = [ghost EXCEPT !.adrift = FALSE, !.midway = FALSE]
    /\ UNCHANGED <<ui, disk, call, load>>

-----------------------------------------------------------------------------
EditorNext ==
    \/ EditEntity \/ RejectedEdit \/ Undo \/ Redo
    \/ InspectorDrag \/ InspectorRelease \/ GroupedRelease \/ WidgetLost \/ SetInPlace
    \/ GizmoGrab \/ GizmoDrag \/ GizmoRelease \/ GizmoCancel
    \/ SaveBegins \/ SaveRechecks \/ SaveReplaces \/ SaveEnds \/ SaveAs
    \/ ReloadBegins \/ ReloadEnds \/ ForeignWrite
    \/ RequestLoad \/ DiscardAndLoad \/ WorkerParses \/ WorkerStamps \/ Publish
    \/ CloseScene \/ BindingSettles

FileCall == SaveRechecks \/ SaveReplaces \/ SaveEnds \/ ReloadEnds

EditorSpec == Init /\ [][EditorNext]_editorVars

-----------------------------------------------------------------------------
(* Properties *)

\* Undo and redo restore exact documents (SceneEditorSession::undo, redo):
\* each command starts from what the one before it left, and the world is what
\* the command below the cursor made and the one above it started from,
\* however edits, drags, edits left open by a widget of a group or by one that
\* vanished, rejected edits and captures alternate.  Two things break it: undo
\* or redo while an edit is open, and a transform dragged under a stale flag.
HistoryChain ==
    ~ghost.adrift =>
        /\ \A k \in 1 .. Len(stack.commands) - 1 :
            stack.commands[k].after = stack.commands[k + 1].before
        /\ session.before = NoDoc =>
            /\ CanUndo => world.doc = stack.commands[stack.cursor].after
            /\ CanRedo => world.doc = stack.commands[stack.cursor + 1].before

\* An open edit always has somebody who will end it: the gizmo that is held, or
\* a flag of the Inspector that is up, so that the release of its last widget
\* commits.  What is held has opened an edit or found its flag up, and the
\* gizmo's edit is open as long as the gizmo is held.
EditsAreHeld ==
    /\ ui.held = "gizmo" => ui.manipulating /\ session.before # NoDoc
    /\ ui.held \in Widget => ~ui.manipulating /\ FlagOf(ui.held) \in ui.editing
    /\ session.before # NoDoc =>
        /\ stack.next <= MaxPushes
        /\ ui.held = "gizmo" \/ ui.editing # {}

\* A file operation runs with nothing held and writes the document it began on.
CallsRunAlone ==
    call # Idle =>
        /\ session.open /\ ui.held = "nothing" /\ ~ui.manipulating
        /\ call.at # "parsed" => call.doc = world.doc
        /\ call.at \in {"checked", "rechecked"} => disk.version < MaxVersions

\* State ids grow along the history and the current one is the cursor's.
IdsOrdered ==
    LET commands == stack.commands IN
    /\ \A k \in 1 .. Len(commands) :
        commands[k].beforeId < commands[k].afterId /\ commands[k].afterId < stack.next
    /\ \A k \in 1 .. Len(commands) - 1 : commands[k].afterId = commands[k + 1].beforeId
    /\ \A j, k \in 1 .. Len(commands) : j < k => commands[j].afterId <= commands[k].beforeId
    /\ CanUndo => stack.current = commands[stack.cursor].afterId
    /\ CanRedo => stack.current = commands[stack.cursor + 1].beforeId
    /\ stack.current < stack.next /\ stack.saved < stack.next

\* The document an open edit, or the world without one, stands for.
Settled == IF session.before = NoDoc THEN world.doc ELSE session.before

\* HistoryChain also while an edit is open, for the document it started from;
\* and wherever the saved state id occurs, the saved document is, unless it was
\* saved or read again in the midst of an edit.
DocumentsNamed ==
    ~ghost.adrift =>
        /\ \A k \in 1 .. Len(stack.commands) - 1 :
            stack.commands[k].after = stack.commands[k + 1].before
        /\ CanUndo => Settled = stack.commands[stack.cursor].after
        /\ CanRedo => Settled = stack.commands[stack.cursor + 1].before
        /\ ~ghost.midway =>
            /\ ~Dirty => Settled = session.saved
            /\ \A k \in 1 .. Len(stack.commands) :
                /\ stack.commands[k].afterId = stack.saved
                    => stack.commands[k].after = session.saved
                /\ stack.commands[k].beforeId = stack.saved
                    => stack.commands[k].before = session.saved

\* What a file call or a load in flight knows of the file is the version the
\* session or the load is based on, unless the file was written in between.
VersionsKnown ==
    \/ ghost.raced
    \/ /\ call = Idle \/ call.at # "replaced"
            => (session.open => session.stamp = ghost.base)
       /\ call # Idle =>
            /\ call.at \in {"checked", "rechecked"} => call.version = ghost.base
            /\ call.at \in {"rechecked", "parsed"} => disk.version = call.version
            /\ call.at = "replaced" => disk.version = ghost.base
       /\ load # Idle =>
            /\ load.at = "parsed" => load.version = disk.version
            /\ load.at = "ready" => load.stamp = load.version

\* The inductive invariant of a session: types, a history that restores exact
\* documents under ordered ids, edits that something will end, known versions.
EditorInvariant ==
    /\ TypeOK /\ EditsAreHeld /\ CallsRunAlone
    /\ IdsOrdered /\ DocumentsNamed /\ HistoryChain /\ VersionsKnown

\* A session that is not dirty shows the saved document: the state ids that
\* dirty() compares name documents, across undo past a save, a redo branch cut
\* off, a full stack, edits left open, Save As, reload and publication.  Closing
\* and loading rely on it to ask before dropping work.  It fails where the
\* history has broken (HistoryChain), and after a save or a reload in the midst
\* of an edit, until the next one; and nothing asks about an edit still open.
CleanMeansSaved ==
    session.open /\ ~Dirty /\ session.before = NoDoc /\ ~ghost.adrift /\ ~ghost.midway
        => world.doc = session.saved

\* A save never replaces a version of the file the session has not read or
\* written (scene_changed_on_disk), unless the file was written between two
\* file accesses of the same call: between the parsing and the stamping of a
\* load, even by a save of the editor itself.
ForeignWritesKept ==
    [][ call # Idle /\ call.at = "rechecked" /\ call' # call
            => disk.version = ghost.base \/ ghost.raced ]_editorVars

\* Every component asks for its asset: outside a Save As, which rebuilds the
\* world without running the callback, and an environment picked in place while
\* an edit was left open, no binding becomes unresolved.
BindingsRequested ==
    [][ \A e \in Entity : world'.bind[e] = "unresolved"
            => \/ world.bind[e] = "unresolved"
               \/ stack' = EmptyStack /\ disk'.version # disk.version
               \/ /\ world.doc[e] = "probe" /\ world'.doc[e] = "captured"
                  /\ session.before # NoDoc /\ UNCHANGED <<session, stack>> ]_editorVars

=============================================================================
