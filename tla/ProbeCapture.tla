----------------------------- MODULE ProbeCapture ----------------------------
(***************************************************************************)
(* Capturing a reflection probe from the editor, composed with the editing *)
(* session of SceneEditor: the viewport is resized, six faces captured and *)
(* stitched into the environment's HDR source, the environment registered  *)
(* in the Catalog and baked by the import supervisor, and the probe made   *)
(* to reference it by a command of the session; the capture ends when the  *)
(* probe's binding is Ready.  updateReflectionProbeCapture runs once a     *)
(* frame whatever the user is doing.  A failure puts the previous source   *)
(* back and takes the Catalog entry away.                                  *)
(***************************************************************************)
EXTENDS SceneEditor

CONSTANT NoCapture  \* no capture is active

ASSUME ProbeAssumption == ProbeEntity \in Entity

VARIABLES
    capture,    \* reflectionProbeCapture_: the phase, and what to roll back
    source      \* the HDR source of the probe's environment on disk

captureVars == <<capture, source>>
vars == <<world, session, stack, ui, disk, call, load, ghost, capture, source>>

Capture == [phase : {"resize", "faces", "baking", "loading"},
            backup : BOOLEAN, added : BOOLEAN]

CaptureTypeOK ==
    /\ capture = NoCapture \/ capture \in Capture
    /\ source \in {"missing", "old", "new"}

CaptureInit == capture = NoCapture /\ source = "missing"

IsProbe(d) == d[ProbeEntity] \in {"probe", "captured"}

\* beginReflectionProbeCapture: one capture at a time, of an existing probe.
BeginCapture ==
    /\ UserFree
    /\ capture = NoCapture
    /\ IsProbe(world.doc)
    /\ capture' = [phase |-> "resize", backup |-> FALSE, added |-> FALSE]
    /\ source' = IF source = "missing" THEN "missing" ELSE "old"
    /\ UNCHANGED editorVars

\* A frame in which the capture is in this phase and its entity still there.
InPhase(phase) ==
    /\ call = Idle
    /\ capture # NoCapture /\ capture.phase = phase
    /\ session.open /\ world.doc[ProbeEntity] # "absent"

ViewportResized ==
    /\ InPhase("resize")
    /\ capture' = [capture EXCEPT !.phase = "faces"]
    /\ UNCHANGED source
    /\ UNCHANGED editorVars

\* Mutant: the rollback edits the Catalog without validating the open scene's file.
EnvironmentRemovableBlind == ~disk.pinned

\* removeEnvironment validates every registered scene before it rewrites the
\* Catalog: a file that references the environment keeps it.
EnvironmentRemovable ==
    ~disk.pinned /\ \A e \in Entity : disk.doc[e] # "captured"

\* Mutant: the source of an environment that stays in the Catalog is removed.
RolledBackCarelessly(backup, added, listed, found) ==
    /\ capture' = NoCapture
    /\ \/ /\ added /\ listed /\ EnvironmentRemovable
          /\ disk' = [disk EXCEPT !.registered = FALSE]
          /\ source' = "missing"
       \/ /\ disk' = [disk EXCEPT !.registered = listed]
          /\ source' \in (IF added THEN {"missing"} ELSE IF backup THEN {"old", found} ELSE {found})
    /\ UNCHANGED <<world, session, stack, ui, call, load, ghost>>

\* fail, with the environment listed in the Catalog or not and the source found
\* on disk: the backup is put back, if that succeeds, then the entry this
\* capture added goes, and with it the source; a Catalog that refuses, or has
\* lost the entry already, keeps both as they are.
RolledBack(backup, added, listed, found) ==
    /\ capture' = NoCapture
    /\ \/ /\ added /\ listed /\ EnvironmentRemovable
          /\ disk' = [disk EXCEPT !.registered = FALSE]
          /\ source' = "missing"
       \/ /\ disk' = [disk EXCEPT !.registered = listed]
          /\ source' \in (IF backup THEN {"old", found} ELSE {found})
    /\ UNCHANGED <<world, session, stack, ui, call, load, ghost>>

\* The capture ends as it stands.
Abandoned ==
    RolledBack(capture.backup, capture.added, disk.registered, source)

\* The faces are stitched, the previous source backed up and replaced, the
\* environment registered if it is new, and a forced bake queued.
FacesCaptured ==
    /\ InPhase("faces")
    /\ source' = "new"
    /\ disk' = [disk EXCEPT !.registered = TRUE]
    /\ capture' = [phase |-> "baking", backup |-> source # "missing",
                   added |-> ~disk.registered]
    /\ UNCHANGED <<world, session, stack, ui, call, load, ghost>>

\* A face or the stitching fails; or, with the source replaced, the Catalog
\* refuses the entry; or, with the environment registered, the bake is not
\* queued, and the Catalog may even refuse to give the entry back.
FacesFail ==
    /\ InPhase("faces")
    /\ LET backup == source # "missing" IN
        \/ RolledBack(FALSE, FALSE, disk.registered, source)
        \/ ~disk.registered /\ RolledBack(backup, FALSE, FALSE, "new")
        \/ RolledBack(backup, ~disk.registered, TRUE, "new")

BakeFails == InPhase("baking") /\ Abandoned

\* The bake is done: the probe references its environment through a command.
\* Whether the session took the command is not looked at.
BakeCompletes ==
    /\ InPhase("baking")
    /\ \/ IsProbe(world.doc) /\ Execute([world.doc EXCEPT ![ProbeEntity] = "captured"])
       \/ /\ session.before = NoDoc /\ ~IsProbe(world.doc)
          /\ WorldReplaced(world.doc)
          /\ UNCHANGED <<session, stack, ui, call, load, ghost>>
       \/ /\ session.before # NoDoc
          /\ UNCHANGED <<world, session, stack, ui, call, load, ghost>>
    /\ capture' = [capture EXCEPT !.phase = "loading"]
    /\ UNCHANGED <<disk, source>>

\* Mutant: a failed binding is waited for like a loading one.
LoadingFailsIgnored ==
    /\ InPhase("loading")
    /\ ~IsProbe(world.doc)
    /\ Abandoned

LoadingFails ==
    /\ InPhase("loading")
    /\ ~IsProbe(world.doc) \/ world.bind[ProbeEntity] = "failed"
    /\ Abandoned

CaptureCompletes ==
    /\ InPhase("loading")
    /\ world.bind[ProbeEntity] = "ready"
    /\ capture' = NoCapture
    /\ UNCHANGED source
    /\ UNCHANGED editorVars

\* The entity or the whole scene went away during the capture.
CaptureOrphaned ==
    /\ call = Idle
    /\ capture # NoCapture
    /\ ~session.open \/ world.doc[ProbeEntity] = "absent"
    /\ Abandoned

\* The Assets panel removes the environment from the Catalog.
RemoveEnvironment ==
    /\ session.open => UserFree
    /\ call = Idle
    /\ disk.registered /\ EnvironmentRemovable
    /\ disk' = [disk EXCEPT !.registered = FALSE]
    /\ UNCHANGED <<world, session, stack, ui, call, load, ghost>>
    /\ UNCHANGED captureVars

CaptureFrame ==
    \/ ViewportResized
    \/ FacesCaptured \/ FacesFail
    \/ BakeCompletes \/ BakeFails
    \/ CaptureCompletes \/ LoadingFails
    \/ CaptureOrphaned

Next ==
    \/ EditorNext /\ UNCHANGED captureVars
    \/ BeginCapture \/ CaptureFrame \/ RemoveEnvironment

Spec == Init /\ CaptureInit /\ [][Next]_vars

\* Every frame updates the capture and the bindings once, whatever the user
\* does between two frames; a file operation runs to its end.
Fairness ==
    /\ SF_vars(CaptureFrame)
    /\ SF_vars(BindingSettles /\ UNCHANGED captureVars)
    /\ WF_vars(FileCall /\ UNCHANGED captureVars)

FairSpec == Spec /\ Fairness

-----------------------------------------------------------------------------
(* Properties *)

\* No scene file on disk references a probe environment the Catalog has lost:
\* a rollback after the scene was saved, or a removal in the Assets panel,
\* would make that scene impossible to load.
SavedReferencesExist ==
    (\E e \in Entity : disk.doc[e] = "captured") \/ disk.pinned => disk.registered

\* A registered probe environment has its HDR source on disk, whichever step
\* of the capture fails and whether or not the rollback can edit the Catalog.
RegisteredHasSource == disk.registered => source # "missing"

\* Only a capture that has written its source may have added an environment.
CaptureHasSource ==
    capture # NoCapture =>
        /\ capture.phase \in {"baking", "loading"} => source # "missing"
        /\ capture.added => capture.phase \in {"baking", "loading"}

\* The document a save is about to write can be loaded.
PendingSaveLoadable ==
    call # Idle /\ call.at \in {"checked", "rechecked"} => ReferencesExist(call.doc)

\* The inductive invariant of the session and the capture beside it: that of
\* the session, the types, and what backs the environments the Catalog lists.
ProbeInvariant ==
    /\ EditorInvariant /\ CaptureTypeOK
    /\ RegisteredHasSource /\ CaptureHasSource
    /\ PendingSaveLoadable

\* The capture waits for a reference its document does not hold, or for a
\* binding nobody asked the asset of.
WaitsInVain ==
    /\ capture # NoCapture /\ capture.phase = "loading"
    /\ world.doc[ProbeEntity] # "captured" \/ world.bind[ProbeEntity] = "unresolved"

\* A capture ends, or waits in vain: the session refused its command or the
\* user undid it (BakeCompletes ignores the answer of execute), a Save As
\* rebuilt the world while the environment was loading, or the environment was
\* picked in place while an edit was left open.
CaptureSettles == capture # NoCapture ~> capture = NoCapture \/ WaitsInVain
=============================================================================
