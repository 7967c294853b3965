-------------------------- MODULE AssetToolProofs --------------------------
(***************************************************************************)
(* Proofs about what the runs of the asset tool share: the cache on disk   *)
(* (ArtifactCache), and the queue of runs with the main thread that waits  *)
(* for them (AssetImport, SceneWorkflow).                                  *)
(*                                                                         *)
(* For any assets, contents, tool processes and bounds: every blob a       *)
(* manifest lists is on disk, and no save of the index loses anything,     *)
(* whatever bakes, prunes and deaths interleave.  For any catalog,         *)
(* profiles and bounds: no import is waited for that nobody runs, and the  *)
(* end of an import loads the entry that was chosen last.                  *)
(***************************************************************************)
EXTENDS ArtifactCache, SceneWorkflow, SequenceTheorems, FiniteSetTheorems, WellFoundedInduction, TLAPS

-----------------------------------------------------------------------------
(* What ArtifactIndex computes has the type of an index. *)

ManifestTyped == cache.manifest \in [Asset -> Manifest]

LEMMA NoRecordsTyped == NoRecords \in Records
BY DEF NoRecords, Records

LEMMA RebuiltTyped ==
  ASSUME ManifestTyped PROVE Rebuilt \in Records
BY BoundsAssumption DEF ManifestTyped, Rebuilt, Records, Record, Manifest

LEMMA RefreshedTyped ==
  ASSUME ManifestTyped, NEW records \in Records, NEW a \in Asset
  PROVE  Refreshed(records, a) \in Records
<1>1. ToldIn(records, a) \in 0 .. MaxClock
  BY BoundsAssumption DEF ToldIn, Records, Record
<1>2. [stamp |-> cache.manifest[a].version, blobs |-> cache.manifest[a].blobs,
       told |-> ToldIn(records, a)] \in Record
  BY <1>1 DEF ManifestTyped, Manifest, Record
<1>. QED BY <1>2 DEF Refreshed, Records

LEMMA MergedTyped ==
  ASSUME NEW local \in Record, NEW disk \in Record, NEW a \in Asset
  PROVE  Merged(local, disk, a) \in Record
BY DEF Merged, Record

LEMMA SavedIndexTyped ==
  ASSUME index \in Records \cup {NoIndex}, NEW records \in Records, NEW dirty
  PROVE  SavedIndex(records, dirty) \in Records
<1>. DEFINE disk == IF index = NoIndex THEN NoRecords ELSE index
<1>1. disk \in Records
  BY NoRecordsTyped
<1>2. ASSUME NEW a \in Asset
      PROVE  (IF a \notin dirty \/ records[a] = NoRecord THEN disk[a]
              ELSE IF disk[a] = NoRecord THEN records[a]
              ELSE Merged(records[a], disk[a], a)) \in Record \cup {NoRecord}
  <2>1. records[a] \in Record \cup {NoRecord} /\ disk[a] \in Record \cup {NoRecord}
    BY <1>1 DEF Records
  <2>. QED BY <2>1, MergedTyped
<1>. QED BY <1>2 DEF SavedIndex, Records

-----------------------------------------------------------------------------
(* Types. *)

ToolRecord ==
  [at : {"idle", "waiting", "locked", "working", "published", "loaded", "rebuilt"},
   job : {"none", "bake", "prune", "rebuild"}, asset : Asset \cup {NoRecord},
   need : SUBSET Blob, left : SUBSET Blob, records : Records]

LEMMA IdleToolTyped == IdleTool \in ToolRecord
BY NoRecordsTyped DEF IdleTool, ToolRecord

LEMMA InitTyped == Init => TypeOK
<1>. SUFFICES ASSUME Init PROVE TypeOK
  OBVIOUS
<1>1. [version |-> 0, blobs |-> {}] \in Manifest
  BY BoundsAssumption DEF Manifest
<1>2. tool \in [Tool -> ToolRecord]
  BY IdleToolTyped DEF Init
<1>. QED BY <1>1, <1>2, NoRecordsTyped, BoundsAssumption DEF Init, TypeOK, ToolRecord

LEMMA ToolChanges ==
  ASSUME tool \in [Tool -> ToolRecord], NEW t \in Tool, NEW changed \in ToolRecord
  PROVE  [tool EXCEPT ![t] = changed] \in [Tool -> ToolRecord]
OBVIOUS

\* The type invariant with the type of a tool's record named.
Others ==
  /\ cache \in [manifest : [Asset -> Manifest], blobs : SUBSET Blob, aged : SUBSET Blob,
                last : 0 .. MaxVersion]
  /\ cache.aged \subseteq cache.blobs
  /\ mutex \in Tool \cup {NoOne}
  /\ index \in Records \cup {NoIndex}
  /\ editor \in [at : {"idle", "stamped", "rebuilt"}, records : Records]
  /\ clock \in 0 .. MaxClock
  /\ losses \in 0 .. MaxLosses

LEMMA TypeParts == TypeOK <=> Others /\ tool \in [Tool -> ToolRecord]
BY DEF TypeOK, Others, ToolRecord

\* The steps of a tool.
LEMMA ToolTyped ==
  ASSUME TypeOK, JobsInvariant, NEW t \in Tool,
         \/ \E a \in Asset, need \in SUBSET Blob : StartBake(t, a, need)
         \/ \E job \in {"prune", "rebuild"} : StartMaintenance(t, job)
         \/ Acquire(t) \/ GiveUp(t) \/ ToolStep(t) \/ Die(t)
  PROVE  TypeOK'
<1>0. Others /\ tool \in [Tool -> ToolRecord]
  BY TypeParts
<1>. DEFINE mine == tool[t]
<1>1. mine \in ToolRecord
  BY <1>0
<1>2. ManifestTyped
  BY <1>0 DEF Others, ManifestTyped
<1>. SUFFICES Others' /\ tool' \in [Tool -> ToolRecord]
  BY DEF TypeOK, Others, ToolRecord
<1>3. ASSUME NEW a \in Asset, NEW need \in SUBSET Blob, StartBake(t, a, need)
      PROVE  Others' /\ tool' \in [Tool -> ToolRecord]
  <2>1. [IdleTool EXCEPT !.at = "waiting", !.job = "bake", !.asset = a, !.need = need]
          \in ToolRecord
    BY IdleToolTyped DEF ToolRecord
  <2>. QED BY <1>0, <1>3, <2>1, ToolChanges DEF Others, StartBake
<1>4. ASSUME NEW job \in {"prune", "rebuild"}, StartMaintenance(t, job)
      PROVE  Others' /\ tool' \in [Tool -> ToolRecord]
  <2>1. [IdleTool EXCEPT !.at = "waiting", !.job = job] \in ToolRecord
    BY IdleToolTyped DEF ToolRecord
  <2>. QED BY <1>0, <1>4, <2>1, ToolChanges DEF Others, StartMaintenance
<1>5. CASE Acquire(t)
  <2>1. [mine EXCEPT !.at = "locked"] \in ToolRecord
    BY <1>1 DEF ToolRecord
  <2>. QED BY <1>0, <1>5, <2>1, ToolChanges DEF Others, Acquire, Goes
<1>6. CASE GiveUp(t)
  BY <1>0, <1>6, IdleToolTyped, ToolChanges DEF Others, GiveUp
<1>7. CASE PlanBake(t)
  <2>1. [mine EXCEPT !.at = "working", !.left = mine.need \ cache.blobs] \in ToolRecord
    BY <1>1 DEF ToolRecord
  <2>. QED BY <1>0, <1>7, <2>1, ToolChanges DEF Others, PlanBake
<1>8. CASE EncodeBlob(t)
  <2>. PICK b \in mine.left :
          /\ cache' = [cache EXCEPT !.blobs = @ \cup {b}, !.aged = @ \ {b}]
          /\ tool' = [tool EXCEPT ![t] = [@ EXCEPT !.left = tool[t].left \ {b}]]
    BY <1>8 DEF EncodeBlob
  <2>1. [mine EXCEPT !.left = @ \ {b}] \in ToolRecord /\ b \in Blob
    BY <1>1 DEF ToolRecord
  <2>2. tool' \in [Tool -> ToolRecord]
    BY <1>0, <2>1, ToolChanges
  <2>3. cache'.manifest = cache.manifest /\ cache'.last = cache.last
        /\ cache'.blobs = cache.blobs \cup {b} /\ cache'.aged = cache.aged \ {b}
    BY <1>0 DEF Others
  <2>4. cache' \in [manifest : [Asset -> Manifest], blobs : SUBSET Blob,
                    aged : SUBSET Blob, last : 0 .. MaxVersion]
    BY <1>0, <2>1 DEF Others
  <2>5. UNCHANGED <<mutex, index, editor, clock, losses>>
    BY <1>8 DEF EncodeBlob
  <2>. QED BY <1>0, <2>2, <2>3, <2>4, <2>5 DEF Others
<1>9. CASE PublishManifest(t)
  <2>1. cache.last + 1 \in 0 .. MaxVersion
    BY <1>0, <1>9, BoundsAssumption DEF Others, PublishManifest, JobsInvariant, JobSound
  <2>2. [version |-> cache.last + 1, blobs |-> mine.need] \in Manifest
    BY <1>1, <2>1 DEF Manifest, ToolRecord
  <2>3. [mine EXCEPT !.at = "published"] \in ToolRecord
    BY <1>1 DEF ToolRecord
  <2>4. tool' \in [Tool -> ToolRecord]
    BY <1>0, <1>9, <2>3, ToolChanges DEF PublishManifest, Goes
  <2>5. cache' \in [manifest : [Asset -> Manifest], blobs : SUBSET Blob,
                    aged : SUBSET Blob, last : 0 .. MaxVersion]
    BY <1>0, <1>9, <2>1, <2>2 DEF Others, PublishManifest
  <2>. QED BY <1>0, <1>9, <2>4, <2>5 DEF Others, PublishManifest
<1>10. CASE LoadIndex(t)
  <2>1. (IF index = NoIndex THEN Rebuilt ELSE index) \in Records
    BY <1>0, <1>2, RebuiltTyped DEF Others
  <2>2. [mine EXCEPT !.at = IF index = NoIndex THEN "rebuilt" ELSE "loaded",
                     !.records = IF index = NoIndex THEN Rebuilt ELSE index] \in ToolRecord
    BY <1>1, <2>1 DEF ToolRecord
  <2>. QED BY <1>0, <1>10, <2>2, ToolChanges DEF Others, LoadIndex
<1>11. CASE RebuildIndex(t)
  <2>1. [mine EXCEPT !.at = "rebuilt", !.records = Rebuilt] \in ToolRecord
    BY <1>1, <1>2, RebuiltTyped DEF ToolRecord
  <2>. QED BY <1>0, <1>11, <2>1, ToolChanges DEF Others, RebuildIndex
<1>12. CASE ReplaceIndex(t)
  <2>1. mine.records \in Records /\ [mine EXCEPT !.at = "loaded"] \in ToolRecord
    BY <1>1 DEF ToolRecord
  <2>. QED BY <1>0, <1>12, <2>1, IdleToolTyped, ToolChanges DEF Others, ReplaceIndex, Ends, Goes
<1>13. CASE SaveIndex(t)
  <2>1. mine.records \in Records /\ mine.asset \in Asset
    BY <1>1, <1>13 DEF ToolRecord, SaveIndex, JobsInvariant, JobSound
  <2>2. Refreshed(mine.records, mine.asset) \in Records
    BY <1>2, <2>1, RefreshedTyped
  <2>3. index' \in Records
    BY <1>0, <1>13, <2>2, SavedIndexTyped DEF Others, SaveIndex
  <2>. QED BY <1>0, <1>13, <2>3, IdleToolTyped, ToolChanges DEF Others, SaveIndex, Ends
<1>14. CASE ScanForPrune(t)
  <2>1. [mine EXCEPT !.at = "working", !.left = Candidates] \in ToolRecord
    BY <1>0, <1>1 DEF ToolRecord, Candidates, Others
  <2>. QED BY <1>0, <1>14, <2>1, ToolChanges DEF Others, ScanForPrune
<1>15. CASE DeleteBlob(t)
  <2>. PICK b \in mine.left :
          /\ cache' = [cache EXCEPT !.blobs = @ \ {b}, !.aged = @ \ {b}]
          /\ tool' = [tool EXCEPT ![t] = [@ EXCEPT !.left = tool[t].left \ {b}]]
    BY <1>15 DEF DeleteBlob
  <2>1. [mine EXCEPT !.left = @ \ {b}] \in ToolRecord
    BY <1>1 DEF ToolRecord
  <2>2. tool' \in [Tool -> ToolRecord]
    BY <1>0, <2>1, ToolChanges
  <2>3. cache'.manifest = cache.manifest /\ cache'.last = cache.last
        /\ cache'.blobs = cache.blobs \ {b} /\ cache'.aged = cache.aged \ {b}
    BY <1>0 DEF Others
  <2>4. cache' \in [manifest : [Asset -> Manifest], blobs : SUBSET Blob,
                    aged : SUBSET Blob, last : 0 .. MaxVersion]
    BY <1>0 DEF Others
  <2>5. UNCHANGED <<mutex, index, editor, clock, losses>>
    BY <1>15 DEF DeleteBlob
  <2>. QED BY <1>0, <2>2, <2>3, <2>4, <2>5 DEF Others
<1>16. CASE EndPrune(t)
  BY <1>0, <1>16, IdleToolTyped, ToolChanges DEF Others, EndPrune, Ends
<1>17. CASE Die(t)
  BY <1>0, <1>17, IdleToolTyped, ToolChanges DEF Others, Die, Held
<1>. QED
  BY <1>3, <1>4, <1>5, <1>6, <1>7, <1>8, <1>9, <1>10, <1>11, <1>12, <1>13, <1>14,
     <1>15, <1>16, <1>17 DEF ToolStep

\* The steps of the editor and of the world; the tools stand still.
EditorOrWorld ==
  \/ EditorLoads \/ EditorStamps \/ EditorReads \/ EditorReplaces
  \/ \E a \in Asset : EditorUses(a) \/ EditorRecordsFailure(a)
  \/ Ages \/ IndexLost

LEMMA EditorTyped ==
  ASSUME TypeOK, EditorOrWorld
  PROVE  TypeOK'
<1>0. Others /\ tool \in [Tool -> ToolRecord]
  BY TypeParts
<1>1. ManifestTyped /\ editor.records \in Records
  BY <1>0 DEF Others, ManifestTyped
<1>2. Rebuilt \in Records
  BY <1>1, RebuiltTyped
<1>. SUFFICES Others' /\ tool' = tool
  BY <1>0 DEF TypeOK, Others, ToolRecord
<1>3. CASE EditorLoads
  BY <1>0, <1>3 DEF Others, EditorLoads
<1>4. CASE EditorStamps
  <2>1. [a \in Asset |-> IF Rebuilt[a] = NoRecord THEN NoRecord
                         ELSE [Rebuilt[a] EXCEPT !.blobs = {}]] \in Records
    BY <1>2 DEF Records, Record
  <2>. QED BY <1>0, <1>4, <2>1 DEF Others, EditorStamps
<1>5. CASE EditorReads
  <2>1. \A a \in Asset : cache.manifest[a].blobs \in SUBSET Blob
    BY <1>1 DEF ManifestTyped, Manifest
  <2>2. [a \in Asset |-> IF editor.records[a] = NoRecord THEN NoRecord
                         ELSE [editor.records[a] EXCEPT
                                 !.blobs = cache.manifest[a].blobs]] \in Records
    BY <1>1, <2>1 DEF Records, Record
  <2>. QED BY <1>0, <1>5, <2>2 DEF Others, EditorReads
<1>6. CASE EditorReplaces
  BY <1>0, <1>6 DEF Others, EditorReplaces
<1>7. ASSUME NEW a \in Asset, EditorUses(a)
      PROVE  Others' /\ tool' = tool
  <2>1. clock + 1 \in 0 .. MaxClock
    BY <1>0, <1>7, BoundsAssumption DEF Others, EditorUses
  <2>2. editor.records[a] \in Record
    BY <1>1, <1>7 DEF Records, EditorUses
  <2>3. [editor.records[a] EXCEPT !.told = clock + 1] \in Record
    BY <2>1, <2>2 DEF Record
  <2>4. [editor.records EXCEPT ![a].told = clock + 1] \in Records
    BY <1>1, <2>3 DEF Records
  <2>5. SavedIndex([editor.records EXCEPT ![a].told = clock + 1], {a}) \in Records
    BY <1>0, <2>4, SavedIndexTyped DEF Others
  <2>. QED BY <1>0, <1>7, <2>1, <2>5 DEF Others, EditorUses
<1>8. ASSUME NEW a \in Asset, EditorRecordsFailure(a)
      PROVE  Others' /\ tool' = tool
  <2>. DEFINE known == IF editor.records[a] = NoRecord
                       THEN [stamp |-> 0, blobs |-> {}, told |-> 0]
                       ELSE editor.records[a]
              told == [editor.records EXCEPT ![a] = [known EXCEPT !.told = clock + 1]]
  <2>1. clock + 1 \in 0 .. MaxClock
    BY <1>0, <1>8, BoundsAssumption DEF Others, EditorRecordsFailure
  <2>2. known \in Record
    BY <1>1, BoundsAssumption DEF Records, Record
  <2>3. [known EXCEPT !.told = clock + 1] \in Record
    BY <2>1, <2>2 DEF Record
  <2>4. told \in Records
    BY <1>1, <2>3 DEF Records
  <2>5. SavedIndex(told, {a}) \in Records
    BY <1>0, <2>4, SavedIndexTyped DEF Others
  <2>. QED BY <1>0, <1>8, <2>1, <2>5 DEF Others, EditorRecordsFailure
<1>9. CASE Ages
  BY <1>0, <1>9 DEF Others, Ages
<1>10. CASE IndexLost
  BY <1>0, <1>10, BoundsAssumption DEF Others, IndexLost
<1>. QED
  BY <1>3, <1>4, <1>5, <1>6, <1>7, <1>8, <1>9, <1>10 DEF EditorOrWorld

-----------------------------------------------------------------------------
(* The jobs under the mutex, and whole manifests. *)

ToolMoves(t) ==
  \/ \E a \in Asset, need \in SUBSET Blob : StartBake(t, a, need)
  \/ \E job \in {"prune", "rebuild"} : StartMaintenance(t, job)
  \/ Acquire(t) \/ GiveUp(t) \/ ToolStep(t) \/ Die(t)

LEMMA NextMoves == Next <=> (\E t \in Tool : ToolMoves(t)) \/ EditorOrWorld
BY DEF Next, ToolMoves, EditorOrWorld

Waits(t) == tool[t].at \in {"idle", "waiting"}

\* A tool touches its own record only; while it waits it changes no file and
\* takes the mutex from nobody.
LEMMA ToolFrame ==
  ASSUME TypeOK, NEW t \in Tool, ToolMoves(t)
  PROVE  /\ \A u \in Tool \ {t} : tool'[u] = tool[u]
         /\ Waits(t) => cache' = cache /\ (mutex = NoOne \/ mutex = t \/ mutex' = mutex)
<1>1. tool \in [Tool -> ToolRecord]
  BY TypeParts
<1>2. ASSUME NEW a \in Asset, NEW need \in SUBSET Blob, StartBake(t, a, need)
      PROVE  /\ \A u \in Tool \ {t} : tool'[u] = tool[u]
             /\ cache' = cache /\ mutex' = mutex
  BY <1>1, <1>2 DEF StartBake
<1>3. ASSUME NEW job \in {"prune", "rebuild"}, StartMaintenance(t, job)
      PROVE  /\ \A u \in Tool \ {t} : tool'[u] = tool[u]
             /\ cache' = cache /\ mutex' = mutex
  BY <1>1, <1>3 DEF StartMaintenance
<1>4. CASE Acquire(t)
  BY <1>1, <1>4 DEF Acquire, Goes
<1>5. CASE GiveUp(t)
  BY <1>1, <1>5 DEF GiveUp
<1>6. CASE ToolStep(t)
  <2>1. ~ Waits(t)
    BY <1>6 DEF Waits, ToolStep, PlanBake, EncodeBlob, PublishManifest, LoadIndex,
         RebuildIndex, ReplaceIndex, SaveIndex, ScanForPrune, DeleteBlob, EndPrune
  <2>2. \A u \in Tool \ {t} : tool'[u] = tool[u]
    BY <1>1, <1>6 DEF ToolStep, PlanBake, EncodeBlob, PublishManifest, LoadIndex,
         RebuildIndex, ReplaceIndex, SaveIndex, ScanForPrune, DeleteBlob, EndPrune,
         Goes, Ends
  <2>. QED BY <2>1, <2>2
<1>7. CASE Die(t)
  BY <1>1, <1>7 DEF Die, Held
<1>. QED
  BY <1>2, <1>3, <1>4, <1>5, <1>6, <1>7 DEF ToolMoves

\* The other tools' jobs survive a tool's step: those past waiting hold the
\* mutex, so the tool that moves is waiting and changes no file.
LEMMA OthersSound ==
  ASSUME TypeOK, JobsInvariant, NEW t \in Tool, ToolMoves(t), NEW u \in Tool \ {t}
  PROVE  JobSound(u)'
<1>1. JobSound(u) /\ JobSound(t) /\ tool'[u] = tool[u]
  BY ToolFrame DEF JobsInvariant
<1>2. CASE Waits(u)
  BY <1>1, <1>2 DEF JobSound, Waits
<1>3. CASE ~ Waits(u)
  <2>1. mutex = u /\ Waits(t)
    BY <1>1, <1>3 DEF JobSound, Waits
  <2>2. cache' = cache /\ mutex' = mutex
    BY <2>1, NoOneAssumption, ToolFrame
  <2>. QED BY <1>1, <2>2 DEF JobSound
<1>. QED BY <1>2, <1>3

\* The tool's own job.
LEMMA OwnSound ==
  ASSUME TypeOK, ManifestClosed, JobsInvariant, NEW t \in Tool, ToolMoves(t)
  PROVE  JobSound(t)'
<1>1. tool \in [Tool -> ToolRecord] /\ tool[t] \in ToolRecord /\ Others
  BY TypeParts
<1>2. JobSound(t)
  BY DEF JobsInvariant
<1>3. ASSUME tool' = [tool EXCEPT ![t] = IdleTool] PROVE JobSound(t)'
  <2>1. tool'[t].at = "idle" /\ tool'[t].job = "none"
    BY <1>1, <1>3 DEF IdleTool
  <2>. QED BY <2>1 DEF JobSound
<1>4. ASSUME NEW a \in Asset, NEW need \in SUBSET Blob, StartBake(t, a, need)
      PROVE  JobSound(t)'
  <2>1. tool'[t].at = "waiting" /\ tool'[t].job = "bake" /\ tool'[t].asset = a
    BY <1>1, <1>4 DEF StartBake, IdleTool
  <2>. QED BY <2>1 DEF JobSound
<1>5. ASSUME NEW job \in {"prune", "rebuild"}, StartMaintenance(t, job)
      PROVE  JobSound(t)'
  <2>1. tool'[t].at = "waiting" /\ tool'[t].job = job
    BY <1>1, <1>5 DEF StartMaintenance, IdleTool
  <2>. QED BY <2>1 DEF JobSound
<1>6. CASE Acquire(t)
  <2>1. /\ tool'[t].at = "locked" /\ tool'[t].job = tool[t].job
        /\ tool'[t].asset = tool[t].asset /\ mutex' = t
    BY <1>1, <1>6 DEF Acquire, Goes, ToolRecord
  <2>. QED BY <1>2, <2>1 DEF JobSound
<1>7. CASE GiveUp(t)
  BY <1>3, <1>7 DEF GiveUp
<1>8. CASE PlanBake(t)
  <2>1. /\ tool'[t].at = "working" /\ tool'[t].job = "bake"
        /\ tool'[t].asset = tool[t].asset /\ tool'[t].need = tool[t].need
        /\ tool'[t].left = tool[t].need \ cache.blobs
        /\ mutex' = mutex /\ cache' = cache /\ cache.last < MaxVersion
    BY <1>1, <1>8 DEF PlanBake, ToolRecord
  <2>2. mutex = t /\ tool[t].asset \in Asset
    BY <1>2, <1>8 DEF JobSound, PlanBake
  <2>. QED BY <2>1, <2>2 DEF JobSound
<1>9. CASE EncodeBlob(t)
  <2>. PICK b \in tool[t].left :
          /\ cache' = [cache EXCEPT !.blobs = @ \cup {b}, !.aged = @ \ {b}]
          /\ tool' = [tool EXCEPT ![t] = [@ EXCEPT !.left = tool[t].left \ {b}]]
    BY <1>9 DEF EncodeBlob
  <2>1. /\ tool'[t].at = "working" /\ tool'[t].job = "bake"
        /\ tool'[t].asset = tool[t].asset /\ tool'[t].need = tool[t].need
        /\ tool'[t].left = tool[t].left \ {b} /\ mutex' = mutex
    BY <1>1, <1>9 DEF EncodeBlob, ToolRecord
  <2>2. cache'.blobs = cache.blobs \cup {b} /\ cache'.last = cache.last
    BY <1>1 DEF Others
  <2>3. /\ mutex = t /\ tool[t].asset \in Asset /\ cache.last < MaxVersion
        /\ tool[t].need \subseteq cache.blobs \cup tool[t].left
    BY <1>2, <1>9 DEF JobSound, EncodeBlob
  <2>. QED BY <2>1, <2>2, <2>3 DEF JobSound
<1>10. CASE PublishManifest(t) \/ LoadIndex(t)
  <2>1. /\ tool'[t].at \in {"published", "loaded", "rebuilt"} /\ mutex' = mutex
        /\ tool'[t].job = tool[t].job /\ tool'[t].asset = tool[t].asset
    <3>1. CASE PublishManifest(t)
      BY <1>1, <3>1 DEF PublishManifest, Goes, ToolRecord
    <3>2. CASE LoadIndex(t)
      BY <1>1, <3>2 DEF LoadIndex, ToolRecord
    <3>. QED BY <1>10, <3>1, <3>2
  <2>2. mutex = t /\ tool[t].job = "bake" /\ tool[t].asset \in Asset
    BY <1>2, <1>10 DEF JobSound, PublishManifest, LoadIndex
  <2>. QED BY <2>1, <2>2 DEF JobSound
<1>11. CASE RebuildIndex(t)
  <2>1. /\ tool'[t].at = "rebuilt" /\ tool'[t].job = "rebuild" /\ mutex' = mutex
    BY <1>1, <1>11 DEF RebuildIndex, ToolRecord
  <2>2. mutex = t
    BY <1>2, <1>11 DEF JobSound, RebuildIndex
  <2>. QED BY <2>1, <2>2 DEF JobSound
<1>12. CASE ReplaceIndex(t)
  <2>1. CASE tool[t].job = "rebuild"
    BY <1>3, <1>12, <2>1 DEF ReplaceIndex, Ends
  <2>2. CASE tool[t].job # "rebuild"
    <3>1. /\ tool'[t].at = "loaded" /\ mutex' = mutex
          /\ tool'[t].job = tool[t].job /\ tool'[t].asset = tool[t].asset
      BY <1>1, <1>12, <2>2 DEF ReplaceIndex, Goes, ToolRecord
    <3>2. mutex = t /\ tool[t].job = "bake" /\ tool[t].asset \in Asset
      BY <1>2, <1>12, <2>2 DEF JobSound, ReplaceIndex
    <3>. QED BY <3>1, <3>2 DEF JobSound
  <2>. QED BY <2>1, <2>2
<1>13. CASE SaveIndex(t) \/ EndPrune(t) \/ Die(t)
  BY <1>3, <1>13 DEF SaveIndex, EndPrune, Die, Ends
<1>14. CASE ScanForPrune(t)
  <2>1. /\ tool'[t].at = "working" /\ tool'[t].job = "prune"
        /\ tool'[t].left = Candidates /\ mutex' = mutex /\ cache' = cache
    BY <1>1, <1>14 DEF ScanForPrune, ToolRecord
  <2>2. mutex = t
    BY <1>2, <1>14 DEF JobSound, ScanForPrune
  <2>. QED BY <2>1, <2>2 DEF JobSound, Candidates
<1>15. CASE DeleteBlob(t)
  <2>. PICK b \in tool[t].left :
          /\ cache' = [cache EXCEPT !.blobs = @ \ {b}, !.aged = @ \ {b}]
          /\ tool' = [tool EXCEPT ![t] = [@ EXCEPT !.left = tool[t].left \ {b}]]
    BY <1>15 DEF DeleteBlob
  <2>1. /\ tool'[t].at = "working" /\ tool'[t].job = "prune"
        /\ tool'[t].left = tool[t].left \ {b} /\ mutex' = mutex
    BY <1>1, <1>15 DEF DeleteBlob, ToolRecord
  <2>2. cache'.manifest = cache.manifest
    BY <1>1 DEF Others
  <2>3. mutex = t /\ \A a \in Asset : tool[t].left \cap cache.manifest[a].blobs = {}
    BY <1>2, <1>15 DEF JobSound, DeleteBlob
  <2>. QED BY <2>1, <2>2, <2>3 DEF JobSound
<1>. QED
  BY <1>4, <1>5, <1>6, <1>7, <1>8, <1>9, <1>10, <1>11, <1>12, <1>13, <1>14, <1>15
  DEF ToolMoves, ToolStep

\* Manifests stay whole: a bake publishes what is on disk, and a prune deletes
\* nothing that a manifest lists.
LEMMA ToolKeepsManifests ==
  ASSUME TypeOK, ManifestClosed, JobsInvariant, NEW t \in Tool, ToolMoves(t)
  PROVE  ManifestClosed'
<1>1. Others /\ JobSound(t)
  BY TypeParts DEF JobsInvariant
<1>2. CASE EncodeBlob(t)
  <2>1. cache'.manifest = cache.manifest /\ cache.blobs \subseteq cache'.blobs
    BY <1>1, <1>2 DEF Others, EncodeBlob
  <2>. QED BY <2>1 DEF ManifestClosed
<1>3. CASE PublishManifest(t)
  <2>1. tool[t].need \subseteq cache.blobs
    BY <1>1, <1>3 DEF JobSound, PublishManifest
  <2>2. /\ cache'.blobs = cache.blobs
        /\ \A a \in Asset : cache'.manifest[a].blobs = cache.manifest[a].blobs
                            \/ cache'.manifest[a].blobs = tool[t].need
    BY <1>1, <1>3 DEF Others, PublishManifest
  <2>. QED BY <2>1, <2>2 DEF ManifestClosed
<1>4. CASE DeleteBlob(t)
  <2>1. PICK b \in tool[t].left :
           cache'.manifest = cache.manifest /\ cache'.blobs = cache.blobs \ {b}
    BY <1>1, <1>4 DEF Others, DeleteBlob
  <2>2. \A a \in Asset : b \notin cache.manifest[a].blobs
    BY <1>1, <1>4 DEF JobSound, DeleteBlob
  <2>. QED BY <2>1, <2>2 DEF ManifestClosed
<1>5. CASE ~ (EncodeBlob(t) \/ PublishManifest(t) \/ DeleteBlob(t))
  <2>1. cache' = cache
    BY <1>5 DEF ToolMoves, ToolStep, StartBake, StartMaintenance, Acquire, GiveUp,
         PlanBake, LoadIndex, RebuildIndex, ReplaceIndex, SaveIndex, ScanForPrune,
         EndPrune, Die
  <2>. QED BY <2>1 DEF ManifestClosed
<1>. QED BY <1>2, <1>3, <1>4, <1>5

\* The editor and the world change neither a tool, nor the mutex, nor what is
\* on disk.
LEMMA EditorKeeps ==
  ASSUME TypeOK, ManifestClosed, JobsInvariant, EditorOrWorld
  PROVE  ManifestClosed' /\ JobsInvariant'
<1>1. Others
  BY TypeParts
<1>2. /\ tool' = tool /\ mutex' = mutex
      /\ cache'.manifest = cache.manifest /\ cache'.blobs = cache.blobs
      /\ cache'.last = cache.last
  BY <1>1 DEF Others, EditorOrWorld, EditorLoads, EditorStamps, EditorReads,
       EditorReplaces, EditorUses, EditorRecordsFailure, Ages, IndexLost
<1>. QED BY <1>2 DEF ManifestClosed, JobsInvariant, JobSound

LEMMA InitInvariant == Init => CacheInvariant
<1>. SUFFICES ASSUME Init PROVE ManifestClosed /\ JobsInvariant
  BY InitTyped DEF CacheInvariant
<1>1. \A t \in Tool : tool[t].at = "idle" /\ tool[t].job = "none"
  BY DEF Init, IdleTool
<1>2. \A a \in Asset : cache.manifest[a].blobs = {}
  BY DEF Init
<1>. QED BY <1>1, <1>2 DEF ManifestClosed, JobsInvariant, JobSound

LEMMA NextInvariant == CacheInvariant /\ [Next]_vars => CacheInvariant'
<1>. SUFFICES ASSUME CacheInvariant, [Next]_vars PROVE CacheInvariant'
  OBVIOUS
<1>1. TypeOK /\ ManifestClosed /\ JobsInvariant
  BY DEF CacheInvariant
<1>2. ASSUME NEW t \in Tool, ToolMoves(t) PROVE CacheInvariant'
  <2>1. TypeOK'
    BY <1>1, <1>2, ToolTyped DEF ToolMoves
  <2>2. JobsInvariant'
    BY <1>1, <1>2, OwnSound, OthersSound DEF JobsInvariant
  <2>3. ManifestClosed'
    BY <1>1, <1>2, ToolKeepsManifests
  <2>. QED BY <2>1, <2>2, <2>3 DEF CacheInvariant
<1>3. CASE EditorOrWorld
  BY <1>1, <1>3, EditorTyped, EditorKeeps DEF CacheInvariant
<1>4. CASE UNCHANGED vars
  BY <1>1, <1>4 DEF CacheInvariant, vars, TypeOK, ManifestClosed, JobsInvariant, JobSound
<1>. QED BY <1>2, <1>3, <1>4, NextMoves

\* The cache's invariant holds for any number of assets, contents and tools:
\* only the holder of the cache mutex works, a bake has made or found every blob
\* it will list, and a prune is after none that a manifest lists.
THEOREM CacheInvariantHolds == Spec => []CacheInvariant
<1>. QED BY InitInvariant, NextInvariant, PTL DEF Spec

\* A manifest on disk never lists a missing blob (CacheMutationLock around bakes
\* and prunes), whatever process dies when.
THEOREM ManifestsStayWhole == Spec => []ManifestClosed
<1>1. CacheInvariant => ManifestClosed
  BY DEF CacheInvariant
<1>. QED BY <1>1, CacheInvariantHolds, PTL

-----------------------------------------------------------------------------
(* Honest records: a record's stamp was never issued later than the last     *)
(* one, and a record with the current stamp lists what the manifest lists.   *)

Dated(r) == r # NoRecord => r.stamp <= cache.last

HonestRecord(r, a) ==
  r # NoRecord => /\ r.stamp <= cache.last
                  /\ r.stamp = cache.manifest[a].version
                        => r.blobs = cache.manifest[a].blobs

HonestRecords(records) == \A a \in Asset : HonestRecord(records[a], a)

\* Stamps grow; a manifest never published lists nothing; the copies of the
\* index are honest, the editor's while it has only stamps excepted.
RecordsInvariant ==
  /\ \A a \in Asset : /\ cache.manifest[a].version <= cache.last
                      /\ cache.manifest[a].version = 0 => cache.manifest[a].blobs = {}
  /\ index # NoIndex => HonestRecords(index)
  /\ IF editor.at = "stamped" THEN \A a \in Asset : Dated(editor.records[a])
                              ELSE HonestRecords(editor.records)
  /\ \A t \in Tool : HonestRecords(tool[t].records)

LEMMA NoRecordsHonest == HonestRecords(NoRecords)
BY DEF HonestRecords, HonestRecord, NoRecords

LEMMA RebuiltHonest ==
  ASSUME RecordsInvariant PROVE HonestRecords(Rebuilt)
BY DEF RecordsInvariant, HonestRecords, HonestRecord, Rebuilt

LEMMA RefreshedHonest ==
  ASSUME RecordsInvariant, NEW records \in Records, NEW a \in Asset,
         HonestRecords(records)
  PROVE  HonestRecords(Refreshed(records, a))
BY DEF RecordsInvariant, HonestRecords, HonestRecord, Refreshed, Records

LEMMA MergedHonest ==
  ASSUME NEW a \in Asset, NEW local \in Record, NEW disk \in Record,
         local # NoRecord, disk # NoRecord,
         HonestRecord(local, a), HonestRecord(disk, a)
  PROVE  HonestRecord(Merged(local, disk, a), a)
<1>1. \/ /\ Merged(local, disk, a).stamp = local.stamp
         /\ Merged(local, disk, a).blobs = local.blobs
      \/ /\ Merged(local, disk, a).stamp = disk.stamp
         /\ Merged(local, disk, a).blobs = disk.blobs
  BY DEF Merged, Record
<1>. QED BY <1>1 DEF HonestRecord

LEMMA SavedIndexHonest ==
  ASSUME RecordsInvariant, index \in Records \cup {NoIndex},
         NEW records \in Records, NEW dirty, HonestRecords(records)
  PROVE  HonestRecords(SavedIndex(records, dirty))
<1>. DEFINE disk == IF index = NoIndex THEN NoRecords ELSE index
<1>1. disk \in Records /\ HonestRecords(disk)
  BY NoRecordsTyped, NoRecordsHonest DEF RecordsInvariant
<1>2. ASSUME NEW a \in Asset
      PROVE  HonestRecord(IF a \notin dirty \/ records[a] = NoRecord THEN disk[a]
                          ELSE IF disk[a] = NoRecord THEN records[a]
                          ELSE Merged(records[a], disk[a], a), a)
  <2>1. records[a] \in Record \cup {NoRecord} /\ disk[a] \in Record \cup {NoRecord}
    BY <1>1 DEF Records
  <2>2. HonestRecord(records[a], a) /\ HonestRecord(disk[a], a)
    BY <1>1 DEF HonestRecords
  <2>3. CASE a \notin dirty \/ records[a] = NoRecord
    BY <2>2, <2>3
  <2>4. CASE ~ (a \notin dirty \/ records[a] = NoRecord) /\ disk[a] = NoRecord
    BY <2>2, <2>4
  <2>5. CASE ~ (a \notin dirty \/ records[a] = NoRecord) /\ disk[a] # NoRecord
    <3>1. HonestRecord(Merged(records[a], disk[a], a), a)
      BY <2>1, <2>2, <2>5, MergedHonest
    <3>. QED BY <2>5, <3>1
  <2>. QED BY <2>3, <2>4, <2>5
<1>. QED BY <1>2 DEF SavedIndex, HonestRecords

\* A step that publishes no manifest keeps the invariant when what it writes
\* is honest.
LEMMA StillHonest ==
  ASSUME RecordsInvariant,
         cache'.manifest = cache.manifest, cache'.last = cache.last,
         index' # NoIndex => HonestRecords(index'),
         IF editor'.at = "stamped" THEN \A a \in Asset : Dated(editor'.records[a])
                                   ELSE HonestRecords(editor'.records),
         \A t \in Tool : HonestRecords(tool'[t].records)
  PROVE  RecordsInvariant'
BY DEF RecordsInvariant, HonestRecords, HonestRecord, Dated

\* A record dated before a publication cannot carry its stamp.
LEMMA PublishedHonest ==
  ASSUME TypeOK, NEW t \in Tool, PublishManifest(t),
         NEW records \in Records, HonestRecords(records)
  PROVE  \A a \in Asset :
            records[a] # NoRecord =>
               /\ records[a].stamp <= cache'.last
               /\ records[a].stamp = cache'.manifest[a].version
                     => records[a].blobs = cache'.manifest[a].blobs
<1>1. Others
  BY TypeParts
<1>. SUFFICES ASSUME NEW a \in Asset, records[a] # NoRecord
              PROVE  /\ records[a].stamp <= cache'.last
                     /\ records[a].stamp = cache'.manifest[a].version
                           => records[a].blobs = cache'.manifest[a].blobs
  OBVIOUS
<1>2. /\ records[a].stamp \in Nat /\ records[a].stamp <= cache.last
      /\ records[a].stamp = cache.manifest[a].version
            => records[a].blobs = cache.manifest[a].blobs
  BY DEF HonestRecords, HonestRecord, Records, Record
<1>3. cache.last \in Nat /\ cache'.last = cache.last + 1
  BY <1>1 DEF Others, PublishManifest
<1>4. CASE a = tool[t].asset
  <2>1. cache'.manifest[a].version = cache.last + 1
    BY <1>1, <1>4 DEF Others, PublishManifest
  <2>. QED BY <1>2, <1>3, <2>1
<1>5. CASE a # tool[t].asset
  <2>1. cache'.manifest[a] = cache.manifest[a]
    BY <1>1, <1>5 DEF Others, PublishManifest
  <2>. QED BY <1>2, <1>3, <2>1
<1>. QED BY <1>4, <1>5

LEMMA PublishKeepsRecords ==
  ASSUME TypeOK, RecordsInvariant, NEW t \in Tool, PublishManifest(t)
  PROVE  RecordsInvariant'
<1>1. Others /\ tool \in [Tool -> ToolRecord]
  BY TypeParts
<1>2. /\ index' = index /\ editor' = editor
      /\ cache.last \in Nat /\ cache'.last = cache.last + 1
  BY <1>1 DEF Others, PublishManifest
<1>3. \A u \in Tool : tool'[u].records = tool[u].records
  BY <1>1 DEF PublishManifest, Goes, ToolRecord
<1>4. \A a \in Asset : /\ cache'.manifest[a].version <= cache'.last
                       /\ cache'.manifest[a].version = 0
                             => cache'.manifest[a].blobs = {}
  <2>. TAKE a \in Asset
  <2>0. cache.manifest[a].version \in Nat
    BY <1>1 DEF Others, Manifest
  <2>1. CASE a = tool[t].asset
    <3>1. cache'.manifest[a].version = cache.last + 1
      BY <1>1, <2>1 DEF Others, PublishManifest
    <3>. QED BY <1>2, <3>1
  <2>2. CASE a # tool[t].asset
    <3>1. cache'.manifest[a] = cache.manifest[a]
      BY <1>1, <2>2 DEF Others, PublishManifest
    <3>. QED BY <1>2, <2>0, <3>1 DEF RecordsInvariant
  <2>. QED BY <2>1, <2>2
<1>5. (index # NoIndex => HonestRecords(index))'
  <2>. SUFFICES ASSUME index # NoIndex PROVE HonestRecords(index)'
    BY <1>2
  <2>1. index \in Records /\ HonestRecords(index)
    BY <1>1 DEF Others, RecordsInvariant
  <2>. QED BY <1>2, <2>1, PublishedHonest DEF HonestRecords, HonestRecord
<1>6. (\A u \in Tool : HonestRecords(tool[u].records))'
  <2>. SUFFICES ASSUME NEW u \in Tool PROVE HonestRecords(tool[u].records)'
    OBVIOUS
  <2>1. tool[u].records \in Records /\ HonestRecords(tool[u].records)
    BY <1>1 DEF ToolRecord, RecordsInvariant
  <2>. QED BY <1>3, <2>1, PublishedHonest DEF HonestRecords, HonestRecord
<1>7. CASE editor.at = "stamped"
  <2>1. \A a \in Asset : editor.records[a] # NoRecord
                           => editor.records[a].stamp <= cache'.last
    BY <1>1, <1>2, <1>7 DEF Others, Records, Record, RecordsInvariant, Dated
  <2>. QED BY <1>2, <1>4, <1>5, <1>6, <1>7, <2>1 DEF RecordsInvariant, Dated
<1>8. CASE editor.at # "stamped"
  <2>1. editor.records \in Records /\ HonestRecords(editor.records)
    BY <1>1, <1>8 DEF Others, RecordsInvariant
  <2>2. HonestRecords(editor.records)'
    BY <1>2, <2>1, PublishedHonest DEF HonestRecords, HonestRecord
  <2>. QED BY <1>2, <1>4, <1>5, <1>6, <1>8, <2>2 DEF RecordsInvariant
<1>. QED BY <1>7, <1>8

\* Every other step of a tool writes records it computed by refresh, rebuild or
\* save.
LEMMA ToolKeepsRecords ==
  ASSUME TypeOK, JobsInvariant, RecordsInvariant, NEW t \in Tool, ToolMoves(t)
  PROVE  RecordsInvariant'
<1>1. Others /\ tool \in [Tool -> ToolRecord] /\ JobSound(t)
  BY TypeParts DEF JobsInvariant
<1>2. /\ tool[t].records \in Records /\ HonestRecords(tool[t].records)
      /\ index # NoIndex => index \in Records /\ HonestRecords(index)
      /\ HonestRecords(Rebuilt) /\ HonestRecords(NoRecords)
  BY <1>1, RebuiltHonest, NoRecordsHonest DEF ToolRecord, Others, RecordsInvariant
<1>3. CASE PublishManifest(t)
  BY <1>3, PublishKeepsRecords
<1>. SUFFICES ASSUME ~ PublishManifest(t) PROVE RecordsInvariant'
  BY <1>3
<1>4. cache'.manifest = cache.manifest /\ cache'.last = cache.last /\ editor' = editor
  <2>1. CASE EncodeBlob(t)
    BY <1>1, <2>1 DEF Others, EncodeBlob
  <2>2. CASE DeleteBlob(t)
    BY <1>1, <2>2 DEF Others, DeleteBlob
  <2>3. CASE ~ (EncodeBlob(t) \/ DeleteBlob(t))
    BY <2>3 DEF ToolMoves, ToolStep, StartBake, StartMaintenance, Acquire, GiveUp,
       PlanBake, LoadIndex, RebuildIndex, ReplaceIndex, SaveIndex, ScanForPrune,
       EndPrune, Die
  <2>. QED BY <2>1, <2>2, <2>3
<1>5. \A u \in Tool : HonestRecords(tool'[u].records)
  <2>1. \A u \in Tool \ {t} : HonestRecords(tool'[u].records)
    BY ToolFrame DEF RecordsInvariant
  <2>2. HonestRecords(tool'[t].records)
    <3>1. CASE tool' = [tool EXCEPT ![t] = IdleTool]
      BY <1>1, <1>2, <3>1 DEF IdleTool
    <3>2. ASSUME NEW a \in Asset, NEW need \in SUBSET Blob, StartBake(t, a, need)
          PROVE  tool'[t].records = NoRecords
      BY <1>1, <3>2 DEF StartBake, IdleTool
    <3>3. ASSUME NEW job \in {"prune", "rebuild"}, StartMaintenance(t, job)
          PROVE  tool'[t].records = NoRecords
      BY <1>1, <3>3 DEF StartMaintenance, IdleTool
    <3>4. CASE LoadIndex(t)
      <4>1. tool'[t].records = IF index = NoIndex THEN Rebuilt ELSE index
        BY <1>1, <3>4 DEF LoadIndex, ToolRecord
      <4>. QED BY <1>2, <4>1
    <3>5. CASE RebuildIndex(t)
      BY <1>1, <1>2, <3>5 DEF RebuildIndex, ToolRecord
    <3>6. CASE \/ Acquire(t) \/ PlanBake(t) \/ EncodeBlob(t)
               \/ ScanForPrune(t) \/ DeleteBlob(t)
      <4>1. CASE Acquire(t)
        BY <1>1, <1>2, <4>1 DEF Acquire, Goes, ToolRecord
      <4>2. CASE PlanBake(t)
        BY <1>1, <1>2, <4>2 DEF PlanBake, ToolRecord
      <4>3. CASE EncodeBlob(t)
        BY <1>1, <1>2, <4>3 DEF EncodeBlob, ToolRecord
      <4>4. CASE ScanForPrune(t)
        BY <1>1, <1>2, <4>4 DEF ScanForPrune, ToolRecord
      <4>5. CASE DeleteBlob(t)
        BY <1>1, <1>2, <4>5 DEF DeleteBlob, ToolRecord
      <4>. QED BY <3>6, <4>1, <4>2, <4>3, <4>4, <4>5
    <3>7. CASE ReplaceIndex(t)
      <4>1. tool' = [tool EXCEPT ![t] = IdleTool]
            \/ tool' = [tool EXCEPT ![t] = [@ EXCEPT !.at = "loaded"]]
        BY <3>7 DEF ReplaceIndex, Goes, Ends
      <4>2. tool'[t].records = tool[t].records \/ tool'[t].records = NoRecords
        BY <1>1, <4>1 DEF ToolRecord, IdleTool
      <4>. QED BY <1>2, <4>2
    <3>8. CASE GiveUp(t) \/ SaveIndex(t) \/ EndPrune(t) \/ Die(t)
      BY <3>1, <3>8 DEF GiveUp, SaveIndex, EndPrune, Die, Ends
    <3>. QED BY <1>2, <3>2, <3>3, <3>4, <3>5, <3>6, <3>7, <3>8 DEF ToolMoves, ToolStep
  <2>. QED BY <2>1, <2>2
<1>6. index' # NoIndex => HonestRecords(index')
  <2>1. CASE ReplaceIndex(t)
    BY <1>2, <2>1 DEF ReplaceIndex
  <2>2. CASE SaveIndex(t)
    <3>1. tool[t].asset \in Asset /\ ManifestTyped
      BY <1>1, <2>2 DEF JobSound, SaveIndex, Others, ManifestTyped
    <3>2. /\ Refreshed(tool[t].records, tool[t].asset) \in Records
          /\ HonestRecords(Refreshed(tool[t].records, tool[t].asset))
      BY <1>2, <3>1, RefreshedTyped, RefreshedHonest
    <3>. QED BY <1>1, <2>2, <3>2, SavedIndexHonest DEF SaveIndex, Others
  <2>3. CASE ~ (ReplaceIndex(t) \/ SaveIndex(t))
    <3>1. index' = index
      BY <2>3 DEF ToolMoves, ToolStep, StartBake, StartMaintenance, Acquire, GiveUp,
         PlanBake, EncodeBlob, LoadIndex, RebuildIndex, ScanForPrune, DeleteBlob,
         EndPrune, Die
    <3>. QED BY <1>2, <3>1
  <2>. QED BY <2>1, <2>2, <2>3
<1>. QED BY <1>4, <1>5, <1>6, StillHonest DEF RecordsInvariant

\* What the editor computes is honest too: its rebuild takes the stamps before
\* the contents, so a manifest published between the two makes a stale record,
\* not a wrong one.
LEMMA EditorKeepsRecords ==
  ASSUME TypeOK, RecordsInvariant, EditorOrWorld
  PROVE  RecordsInvariant'
<1>1. Others /\ ManifestTyped
  BY TypeParts DEF Others, ManifestTyped
<1>2. /\ tool' = tool /\ cache'.manifest = cache.manifest /\ cache'.last = cache.last
  BY <1>1 DEF Others, EditorOrWorld, EditorLoads, EditorStamps, EditorReads,
       EditorReplaces, EditorUses, EditorRecordsFailure, Ages, IndexLost
<1>3. /\ \A t \in Tool : HonestRecords(tool'[t].records)
      /\ index # NoIndex => HonestRecords(index)
      /\ editor.at # "stamped" => HonestRecords(editor.records)
  BY <1>2 DEF RecordsInvariant
<1>. SUFFICES
       /\ index' # NoIndex => HonestRecords(index')
       /\ IF editor'.at = "stamped" THEN \A a \in Asset : Dated(editor'.records[a])
                                    ELSE HonestRecords(editor'.records)
  BY <1>2, <1>3, StillHonest
<1>4. CASE EditorLoads
  <2>1. /\ index # NoIndex /\ index' = index
        /\ editor'.at = "idle" /\ editor'.records = index
    BY <1>1, <1>4 DEF Others, EditorLoads
  <2>. QED BY <1>3, <2>1
<1>5. CASE EditorStamps
  <2>0. /\ index' = NoIndex /\ editor'.at = "stamped"
        /\ editor'.records = [a \in Asset |->
                                IF Rebuilt[a] = NoRecord THEN NoRecord
                                ELSE [Rebuilt[a] EXCEPT !.blobs = {}]]
    BY <1>5 DEF EditorStamps
  <2>1. ASSUME NEW a \in Asset
        PROVE  \/ editor'.records[a] = NoRecord
               \/ /\ editor'.records[a].stamp = Rebuilt[a].stamp
                  /\ Rebuilt[a] # NoRecord
    <3>1. Rebuilt[a] \in Record \cup {NoRecord}
      BY <1>1, RebuiltTyped DEF Records
    <3>. QED BY <2>0, <3>1 DEF Record
  <2>2. \A a \in Asset : Dated(Rebuilt[a])
    BY RebuiltHonest DEF HonestRecords, HonestRecord, Dated
  <2>. QED BY <2>0, <2>1, <2>2 DEF Dated
<1>6. CASE EditorReads
  <2>1. \A a \in Asset : Dated(editor.records[a])
    BY <1>6 DEF RecordsInvariant, EditorReads
  <2>2. /\ index' = index /\ editor'.at = "rebuilt"
        /\ \A a \in Asset : editor'.records[a] = NoRecord
                            \/ /\ editor.records[a] # NoRecord
                               /\ editor'.records[a].stamp = editor.records[a].stamp
                               /\ editor'.records[a].blobs = cache.manifest[a].blobs
    BY <1>1, <1>6 DEF Others, EditorReads, Records, Record
  <2>. QED BY <1>3, <2>1, <2>2 DEF Dated, HonestRecords, HonestRecord
<1>7. CASE EditorReplaces
  <2>1. index' = editor.records /\ editor'.at = "idle" /\ editor'.records = editor.records
    BY <1>1, <1>7 DEF Others, EditorReplaces
  <2>2. HonestRecords(editor.records)
    BY <1>3, <1>7 DEF EditorReplaces
  <2>. QED BY <2>1, <2>2
<1>8. ASSUME NEW records \in Records, NEW a \in Asset, HonestRecords(records),
             index' = SavedIndex(records, {a}), editor.at = "idle",
             editor' = [editor EXCEPT !.records = SavedIndex(records, {a})]
      PROVE  /\ index' # NoIndex => HonestRecords(index')
             /\ IF editor'.at = "stamped" THEN \A b \in Asset : Dated(editor'.records[b])
                                          ELSE HonestRecords(editor'.records)
  <2>1. HonestRecords(SavedIndex(records, {a}))
    BY <1>1, <1>8, SavedIndexHonest DEF Others
  <2>2. editor'.at = "idle" /\ editor'.records = SavedIndex(records, {a})
    BY <1>1, <1>8 DEF Others
  <2>. QED BY <1>8, <2>1, <2>2
<1>9. ASSUME NEW a \in Asset, EditorUses(a) \/ EditorRecordsFailure(a)
      PROVE  /\ index' # NoIndex => HonestRecords(index')
             /\ IF editor'.at = "stamped" THEN \A b \in Asset : Dated(editor'.records[b])
                                          ELSE HonestRecords(editor'.records)
  <2>. DEFINE known == IF editor.records[a] = NoRecord
                       THEN [stamp |-> 0, blobs |-> {}, told |-> 0]
                       ELSE editor.records[a]
              told == [editor.records EXCEPT ![a] = [known EXCEPT !.told = clock + 1]]
  <2>1. clock + 1 \in 0 .. MaxClock /\ editor.at = "idle"
    BY <1>1, <1>9, BoundsAssumption DEF Others, EditorUses, EditorRecordsFailure
  <2>2. editor.records \in Records /\ HonestRecords(editor.records)
    BY <1>1, <1>3, <2>1 DEF Others
  <2>3. /\ known \in Record
        /\ known.stamp <= cache.last
        /\ known.stamp = cache.manifest[a].version => known.blobs = cache.manifest[a].blobs
    <3>1. CASE editor.records[a] = NoRecord
      <4>1. known = [stamp |-> 0, blobs |-> {}, told |-> 0]
        BY <3>1
      <4>2. 0 <= cache.last
        BY <1>1 DEF Others
      <4>3. 0 = cache.manifest[a].version => cache.manifest[a].blobs = {}
        BY DEF RecordsInvariant
      <4>4. known \in Record
        BY <4>1, BoundsAssumption DEF Record
      <4>5. known.stamp = 0 /\ known.blobs = {}
        BY <4>1
      <4>. HIDE DEF known
      <4>. QED BY <4>2, <4>3, <4>4, <4>5
    <3>2. CASE editor.records[a] # NoRecord
      <4>1. known = editor.records[a]
        BY <3>2
      <4>2. editor.records[a] \in Record /\ HonestRecord(editor.records[a], a)
        BY <2>2, <3>2 DEF Records, HonestRecords
      <4>. HIDE DEF known
      <4>. QED BY <3>2, <4>1, <4>2 DEF HonestRecord
    <3>. QED BY <3>1, <3>2
  <2>4. /\ [known EXCEPT !.told = clock + 1] \in Record
        /\ [known EXCEPT !.told = clock + 1].stamp = known.stamp
        /\ [known EXCEPT !.told = clock + 1].blobs = known.blobs
    BY <2>1, <2>3 DEF Record
  <2>5. told \in Records /\ HonestRecords(told)
    <3>. HIDE DEF known
    <3>1. told \in Records
      BY <2>2, <2>4 DEF Records
    <3>2. HonestRecord(told[a], a)
      <4>1. told[a] = [known EXCEPT !.told = clock + 1]
        BY <2>2 DEF Records
      <4>. HIDE DEF told
      <4>2. told[a].stamp = known.stamp /\ told[a].blobs = known.blobs
        BY <2>4, <4>1
      <4>. QED BY <2>3, <4>2 DEF HonestRecord
    <3>3. \A b \in Asset \ {a} : told[b] = editor.records[b]
      BY <2>2 DEF Records
    <3>. QED BY <2>2, <3>1, <3>2, <3>3 DEF HonestRecords
  <2>6. CASE EditorUses(a)
    <3>1. told = [editor.records EXCEPT ![a].told = clock + 1]
      BY <2>2, <2>6 DEF EditorUses
    <3>2. /\ index' = SavedIndex(told, {a})
          /\ editor' = [editor EXCEPT !.records = SavedIndex(told, {a})]
      BY <2>6, <3>1 DEF EditorUses
    <3>. HIDE DEF told
    <3>. QED BY <1>8, <2>1, <2>5, <3>2
  <2>7. CASE EditorRecordsFailure(a)
    <3>1. /\ index' = SavedIndex(told, {a})
          /\ editor' = [editor EXCEPT !.records = SavedIndex(told, {a})]
      BY <2>7 DEF EditorRecordsFailure
    <3>. HIDE DEF told
    <3>. QED BY <1>8, <2>1, <2>5, <3>1
  <2>. QED BY <1>9, <2>6, <2>7
<1>10. CASE Ages \/ IndexLost
  BY <1>3, <1>10 DEF Ages, IndexLost, RecordsInvariant
<1>. QED BY <1>4, <1>5, <1>6, <1>7, <1>9, <1>10 DEF EditorOrWorld

LEMMA InitRecords == Init => RecordsInvariant
<1>. SUFFICES ASSUME Init PROVE RecordsInvariant
  OBVIOUS
<1>1. /\ \A a \in Asset : /\ cache.manifest[a].version = 0
                          /\ cache.manifest[a].blobs = {}
      /\ cache.last = 0
  BY DEF Init
<1>2. \A t \in Tool : tool[t].records = NoRecords
  BY DEF Init, IdleTool
<1>3. editor.at = "idle" /\ editor.records = NoRecords /\ index = NoRecords
  BY DEF Init
<1>. QED BY <1>1, <1>2, <1>3, NoRecordsHonest DEF RecordsInvariant

\* A record with the stamp of the current manifest lists what that manifest
\* lists (ArtifactIndex::refreshRecord, rebuild and save): however the editor's
\* unguarded rebuild, its late saves and the tools' publications interleave,
\* query never calls an asset Ready for blobs its manifest does not list.
THEOREM RecordsStayHonest == Spec => []RecordsHonest
<1>1. CacheInvariant /\ RecordsInvariant /\ [Next]_vars => RecordsInvariant'
  <2>. SUFFICES ASSUME CacheInvariant, RecordsInvariant, [Next]_vars
                PROVE  RecordsInvariant'
    OBVIOUS
  <2>1. TypeOK /\ JobsInvariant
    BY DEF CacheInvariant
  <2>2. CASE UNCHANGED vars
    BY <2>2 DEF vars, RecordsInvariant, HonestRecords, HonestRecord, Dated
  <2>3. CASE Next
    BY <2>1, <2>3, NextMoves, ToolKeepsRecords, EditorKeepsRecords
  <2>. QED BY <2>2, <2>3
<1>2. RecordsInvariant => RecordsHonest
  BY DEF RecordsInvariant, RecordsHonest, HonestRecords, HonestRecord
<1>. QED BY <1>1, <1>2, InitRecords, CacheInvariantHolds, PTL DEF Spec

-----------------------------------------------------------------------------
(* What a save keeps, and what a tool that replaces the file knows.        *)

\* Record old stays known: new is a record, no older in its telemetry, and of
\* the current manifest if old is.
Keeps(new, old, a) ==
  /\ new # NoRecord
  /\ cache.manifest[a].version > 0 /\ old.stamp = cache.manifest[a].version
       => new.stamp = old.stamp
  /\ new.told >= old.told

\* A rebuild of a tool that has not reached the file yet is of the manifests of now.
RebuiltCurrent ==
  \A t \in Tool : tool[t].at = "rebuilt" =>
    \A a \in Asset : cache.manifest[a].version > 0 =>
      /\ tool[t].records[a] # NoRecord
      /\ tool[t].records[a].stamp = cache.manifest[a].version

LEMMA MergedKeeps ==
  ASSUME NEW local \in Record, NEW disk \in Record, NEW a \in Asset
  PROVE  Keeps(Merged(local, disk, a), disk, a)
<1>. DEFINE m == Merged(local, disk, a)
<1>1. m \in Record
  BY MergedTyped
<1>2. /\ m.stamp = IF disk.stamp = cache.manifest[a].version
                      /\ local.stamp # cache.manifest[a].version
                   THEN disk.stamp ELSE local.stamp
      /\ m.told = IF disk.told > local.told THEN disk.told ELSE local.told
  BY DEF Merged, Record
<1>3. disk.told \in 0 .. MaxClock /\ local.told \in 0 .. MaxClock
  BY DEF Record
<1>. HIDE DEF m
<1>4. m.told >= disk.told
  BY <1>2, <1>3, BoundsAssumption
<1>5. m # NoRecord
  BY <1>1, NoRecordAssumption
<1>6. disk.stamp = cache.manifest[a].version => m.stamp = disk.stamp
  BY <1>2
<1>7. Keeps(m, disk, a)
  BY <1>4, <1>5, <1>6 DEF Keeps
<1>. QED BY <1>7 DEF m

LEMMA SavedIndexKeeps ==
  ASSUME index \in Records, index # NoIndex, NEW records \in Records, NEW dirty,
         NEW a \in Asset, index[a] # NoRecord
  PROVE  Keeps(SavedIndex(records, dirty)[a], index[a], a)
<1>1. index[a] \in Record /\ records[a] \in Record \cup {NoRecord}
  BY DEF Records
<1>2. SavedIndex(records, dirty)[a] =
        IF a \notin dirty \/ records[a] = NoRecord THEN index[a]
        ELSE Merged(records[a], index[a], a)
  BY DEF SavedIndex
<1>3. Keeps(index[a], index[a], a)
  BY <1>1, BoundsAssumption DEF Keeps, Record
<1>. QED BY <1>1, <1>2, <1>3, MergedKeeps

\* Only the holder of the mutex publishes a manifest, so a rebuild under the mutex
\* stays current until it is written.
LEMMA ToolKeepsRebuilt ==
  ASSUME TypeOK, JobsInvariant, RebuiltCurrent, NEW t \in Tool, ToolMoves(t)
  PROVE  RebuiltCurrent'
<1>1. Others /\ tool \in [Tool -> ToolRecord] /\ JobSound(t)
  BY TypeParts DEF JobsInvariant
<1>2. \/ cache'.manifest = cache.manifest
      \/ PublishManifest(t)
  <2>1. CASE EncodeBlob(t)
    BY <1>1, <2>1 DEF Others, EncodeBlob
  <2>2. CASE DeleteBlob(t)
    BY <1>1, <2>2 DEF Others, DeleteBlob
  <2>3. CASE ~ (EncodeBlob(t) \/ DeleteBlob(t) \/ PublishManifest(t))
    BY <2>3 DEF ToolMoves, ToolStep, StartBake, StartMaintenance, Acquire, GiveUp,
       PlanBake, LoadIndex, RebuildIndex, ReplaceIndex, SaveIndex, ScanForPrune,
       EndPrune, Die
  <2>. QED BY <2>1, <2>2, <2>3
<1>3. ASSUME tool'[t].at = "rebuilt"
      PROVE  tool'[t].records = Rebuilt /\ cache' = cache
  <2>1. CASE LoadIndex(t)
    BY <1>1, <1>3, <2>1 DEF LoadIndex, ToolRecord
  <2>2. CASE RebuildIndex(t)
    BY <1>1, <2>2 DEF RebuildIndex, ToolRecord
  <2>3. ASSUME NEW a \in Asset, NEW need \in SUBSET Blob, StartBake(t, a, need)
        PROVE  FALSE
    BY <1>1, <1>3, <2>3 DEF StartBake, IdleTool
  <2>4. ASSUME NEW job \in {"prune", "rebuild"}, StartMaintenance(t, job)
        PROVE  FALSE
    BY <1>1, <1>3, <2>4 DEF StartMaintenance, IdleTool
  <2>5. CASE Acquire(t) \/ PublishManifest(t) \/ ReplaceIndex(t)
    BY <1>1, <1>3, <2>5 DEF Acquire, PublishManifest, ReplaceIndex, Goes, Ends, IdleTool,
       ToolRecord
  <2>6. CASE GiveUp(t) \/ SaveIndex(t) \/ EndPrune(t) \/ Die(t)
    BY <1>1, <1>3, <2>6 DEF GiveUp, SaveIndex, EndPrune, Die, Ends, IdleTool
  <2>7. CASE PlanBake(t) \/ EncodeBlob(t) \/ ScanForPrune(t) \/ DeleteBlob(t)
    <3>1. CASE PlanBake(t)
      BY <1>1, <1>3, <3>1 DEF PlanBake, ToolRecord
    <3>2. CASE EncodeBlob(t)
      BY <1>1, <1>3, <3>2 DEF EncodeBlob, ToolRecord
    <3>3. CASE ScanForPrune(t)
      BY <1>1, <1>3, <3>3 DEF ScanForPrune, ToolRecord
    <3>4. CASE DeleteBlob(t)
      BY <1>1, <1>3, <3>4 DEF DeleteBlob, ToolRecord
    <3>. QED BY <2>7, <3>1, <3>2, <3>3, <3>4
  <2>. QED BY <2>1, <2>2, <2>3, <2>4, <2>5, <2>6, <2>7 DEF ToolMoves, ToolStep
<1>4. ASSUME NEW u \in Tool, tool'[u].at = "rebuilt",
             NEW a \in Asset, cache'.manifest[a].version > 0
      PROVE  /\ tool'[u].records[a] # NoRecord
             /\ tool'[u].records[a].stamp = cache'.manifest[a].version
  <2>1. CASE u = t
    <3>1. /\ tool'[u].records = Rebuilt /\ cache' = cache
          /\ cache.manifest[a] \in Manifest
      BY <1>1, <1>3, <1>4, <2>1 DEF Others
    <3>2. cache.manifest[a].version # 0
      BY <1>4, <3>1
    <3>3. Rebuilt[a] = [stamp |-> cache.manifest[a].version,
                        blobs |-> cache.manifest[a].blobs, told |-> 0]
      BY <3>2 DEF Rebuilt
    <3>4. Rebuilt[a] \in Record
      BY <3>1, <3>3, BoundsAssumption DEF Manifest, Record
    <3>. QED BY <3>1, <3>3, <3>4, NoRecordAssumption
  <2>2. CASE u # t
    <3>1. tool'[u] = tool[u] /\ tool[u].at = "rebuilt"
      BY <1>4, <2>2, ToolFrame
    <3>2. mutex = u
      BY <3>1 DEF JobsInvariant, JobSound
    <3>3. ~ PublishManifest(t)
      BY <1>1, <2>2, <3>2 DEF JobSound, PublishManifest
    <3>. QED BY <1>2, <1>4, <3>1, <3>3 DEF RebuiltCurrent
  <2>. QED BY <2>1, <2>2
<1>. QED BY <1>4 DEF RebuiltCurrent

\* A tool's save merges, and its rebuild is current.
LEMMA ToolKeepsIndex ==
  ASSUME TypeOK, JobsInvariant, RebuiltCurrent, NEW t \in Tool, ToolMoves(t),
         index # NoIndex, NEW a \in Asset, index[a] # NoRecord
  PROVE  \/ Keeps(index'[a], index[a], a)
         \/ /\ tool[t].at = "rebuilt"
            /\ cache.manifest[a].version > 0 =>
                 /\ index'[a] # NoRecord
                 /\ index'[a].stamp = cache.manifest[a].version
<1>1. Others /\ tool \in [Tool -> ToolRecord] /\ JobSound(t)
  BY TypeParts DEF JobsInvariant
<1>2. index \in Records /\ index[a] \in Record
  BY <1>1 DEF Others, Records
<1>3. CASE ReplaceIndex(t)
  BY <1>3 DEF ReplaceIndex, RebuiltCurrent
<1>4. CASE SaveIndex(t)
  <2>1. tool[t].asset \in Asset /\ ManifestTyped /\ tool[t].records \in Records
    BY <1>1, <1>4 DEF JobSound, SaveIndex, Others, ManifestTyped, ToolRecord
  <2>. DEFINE mine == Refreshed(tool[t].records, tool[t].asset)
  <2>2. mine \in Records /\ index' = SavedIndex(mine, {tool[t].asset})
    BY <1>4, <2>1, RefreshedTyped DEF SaveIndex
  <2>. HIDE DEF mine
  <2>3. Keeps(SavedIndex(mine, {tool[t].asset})[a], index[a], a)
    BY <1>2, <2>2, SavedIndexKeeps
  <2>. QED BY <2>2, <2>3
<1>5. CASE ~ (ReplaceIndex(t) \/ SaveIndex(t))
  <2>1. index' = index
    BY <1>5 DEF ToolMoves, ToolStep, StartBake, StartMaintenance, Acquire, GiveUp,
       PlanBake, EncodeBlob, PublishManifest, LoadIndex, RebuildIndex, ScanForPrune,
       DeleteBlob, EndPrune, Die
  <2>. QED BY <1>2, <2>1, BoundsAssumption DEF Keeps, Record
<1>. QED BY <1>3, <1>4, <1>5

\* The editor's saves merge.
LEMMA EditorKeepsIndex ==
  ASSUME TypeOK, EditorOrWorld, index # NoIndex, index' # NoIndex,
         editor.at # "rebuilt", NEW a \in Asset, index[a] # NoRecord
  PROVE  Keeps(index'[a], index[a], a)
<1>1. Others
  BY TypeParts
<1>2. index \in Records /\ index[a] \in Record
  BY <1>1 DEF Others, Records
<1>3. ASSUME index' = index PROVE Keeps(index'[a], index[a], a)
  BY <1>2, <1>3, BoundsAssumption DEF Keeps, Record
<1>4. ASSUME NEW b \in Asset, EditorUses(b) \/ EditorRecordsFailure(b)
      PROVE  Keeps(index'[a], index[a], a)
  <2>1. clock + 1 \in 0 .. MaxClock /\ editor.records \in Records
    BY <1>1, <1>4, BoundsAssumption DEF Others, EditorUses, EditorRecordsFailure
  <2>2. PICK records \in Records : index' = SavedIndex(records, {b})
    <3>1. CASE EditorUses(b)
      <4>1. [editor.records EXCEPT ![b].told = clock + 1] \in Records
        BY <2>1, <3>1 DEF EditorUses, Records, Record
      <4>. QED BY <3>1, <4>1 DEF EditorUses
    <3>2. CASE EditorRecordsFailure(b)
      <4>. DEFINE known == IF editor.records[b] = NoRecord
                           THEN [stamp |-> 0, blobs |-> {}, told |-> 0]
                           ELSE editor.records[b]
                  told == [editor.records EXCEPT ![b] = [known EXCEPT !.told = clock + 1]]
      <4>1. known \in Record
        BY <2>1, BoundsAssumption DEF Record, Records
      <4>2. index' = SavedIndex(told, {b})
        BY <3>2 DEF EditorRecordsFailure
      <4>. HIDE DEF known
      <4>3. [known EXCEPT !.told = clock + 1] \in Record
        BY <2>1, <4>1 DEF Record
      <4>4. told \in Records
        BY <2>1, <4>3 DEF Records
      <4>. QED BY <4>2, <4>4
    <3>. QED BY <1>4, <3>1, <3>2
  <2>. QED BY <1>2, <2>2, SavedIndexKeeps
<1>5. CASE ~ (\E b \in Asset : EditorUses(b) \/ EditorRecordsFailure(b))
  <2>1. index' = index
    BY <1>5 DEF EditorOrWorld, EditorLoads, EditorStamps, EditorReads, EditorReplaces,
       Ages, IndexLost
  <2>. QED BY <1>3, <2>1
<1>. QED BY <1>4, <1>5

LEMMA EditorKeepsRebuilt ==
  ASSUME TypeOK, RebuiltCurrent, EditorOrWorld
  PROVE  RebuiltCurrent'
<1>1. Others
  BY TypeParts
<1>2. tool' = tool /\ cache'.manifest = cache.manifest
  BY <1>1 DEF Others, EditorOrWorld, EditorLoads, EditorStamps, EditorReads,
     EditorReplaces, EditorUses, EditorRecordsFailure, Ages, IndexLost
<1>. QED BY <1>2 DEF RebuiltCurrent

\* A save of the index loses nothing (ArtifactIndex::save): no process, however old its
\* copy of the index, replaces the record of the current manifest by an older one or
\* takes telemetry back; a tool's rebuild, under the mutex, forgets telemetry only.
THEOREM SavesLoseNothing == Spec => RecordsKept
<1>1. Init => RebuiltCurrent
  BY DEF Init, IdleTool, RebuiltCurrent
<1>2. CacheInvariant /\ RebuiltCurrent /\ [Next]_vars => RebuiltCurrent'
  <2>. SUFFICES ASSUME CacheInvariant, RebuiltCurrent, [Next]_vars PROVE RebuiltCurrent'
    OBVIOUS
  <2>1. CASE UNCHANGED vars
    BY <2>1 DEF vars, RebuiltCurrent
  <2>2. CASE Next
    BY <2>2, NextMoves, ToolKeepsRebuilt, EditorKeepsRebuilt DEF CacheInvariant
  <2>. QED BY <2>1, <2>2
<1>. DEFINE Kept(a) ==
       /\ index # NoIndex /\ index' # NoIndex
       /\ index[a] # NoRecord
       /\ editor.at # "rebuilt"
       => /\ /\ cache.manifest[a].version > 0
             /\ index[a].stamp = cache.manifest[a].version
             /\ cache'.manifest[a] = cache.manifest[a]
             => index'[a] # NoRecord /\ index'[a].stamp = index[a].stamp
          /\ (\A t \in Tool : tool[t].at # "rebuilt")
             => index'[a] # NoRecord /\ index'[a].told >= index[a].told
<1>3. CacheInvariant /\ RebuiltCurrent /\ [Next]_vars => [\A a \in Asset : Kept(a)]_vars
  <2>. SUFFICES ASSUME CacheInvariant, RebuiltCurrent, Next, NEW a \in Asset,
                       index # NoIndex, index' # NoIndex, index[a] # NoRecord,
                       editor.at # "rebuilt"
                PROVE  Kept(a)
    OBVIOUS
  <2>1. TypeOK /\ JobsInvariant
    BY DEF CacheInvariant
  <2>2. CASE Keeps(index'[a], index[a], a)
    BY <2>2 DEF Keeps
  <2>3. ASSUME NEW t \in Tool, ToolMoves(t) PROVE Kept(a)
    BY <2>1, <2>2, <2>3, ToolKeepsIndex
  <2>4. CASE EditorOrWorld
    BY <2>1, <2>2, <2>4, EditorKeepsIndex
  <2>. QED BY <2>3, <2>4, NextMoves
<1>. QED BY <1>1, <1>2, <1>3, CacheInvariantHolds, PTL DEF Spec, RecordsKept

-----------------------------------------------------------------------------
(* Sequences and numbers.                                                   *)

LEMMA LargestIsIn ==
  ASSUME NEW n \in Nat, NEW S \in SUBSET (0 .. n), S # {}
  PROVE  Max(S) \in S /\ \A y \in S : y <= Max(S)
<1>. DEFINE R == OpToRel(<, Nat)
            T == {n - x : x \in S}
<1>1. IsWellFoundedOn(R, Nat)
  BY NatLessThanWellFounded
<1>2. \A k, m \in Nat : <<k, m>> \in R <=> k < m
  BY DEF OpToRel
<1>3. T \subseteq Nat /\ T # {}
  <2>1. \A x \in S : x \in 0 .. n /\ n - x \in Nat
    OBVIOUS
  <2>. QED BY <2>1
<1>. HIDE DEF R
<1>4. PICK m \in T : \A k \in T : ~(<<k, m>> \in R)
  BY <1>1, <1>3, WFMin
<1>5. PICK x \in S : m = n - x
  OBVIOUS
<1>6. ASSUME NEW y \in S PROVE x >= y
  <2>1. n - y \in T /\ n - y \in Nat /\ m \in Nat
    OBVIOUS
  <2>2. ~(n - y < m)
    BY <1>2, <1>4, <2>1
  <2>. QED BY <2>2, <1>5
<1>7. \A z \in S : (\A y \in S : z >= y) => \A y \in S : y <= z
  OBVIOUS
<1>. QED BY <1>6, <1>7 DEF Max

LEMMA SmallestIsIn ==
  ASSUME NEW F \in SUBSET Nat, F # {}
  PROVE  Min(F) \in F
<1>. DEFINE R == OpToRel(<, Nat)
<1>1. IsWellFoundedOn(R, Nat)
  BY NatLessThanWellFounded
<1>2. \A k, m \in Nat : <<k, m>> \in R <=> k < m
  BY DEF OpToRel
<1>. HIDE DEF R
<1>3. PICK m \in F : \A k \in F : ~(<<k, m>> \in R)
  BY <1>1, WFMin
<1>4. ASSUME NEW k \in F PROVE m <= k
  <2>1. k \in Nat /\ m \in Nat
    OBVIOUS
  <2>2. ~(k < m)
    BY <1>2, <1>3, <2>1
  <2>. QED BY <2>1, <2>2
<1>. QED BY <1>4 DEF Min

LEMMA PartOfSequence ==
  ASSUME NEW S, NEW s \in Seq(S), NEW a \in Nat \ {0}, NEW b \in Nat, b <= Len(s)
  PROVE  SubSeq(s, a, b) \in Seq(S) /\ ToSet(SubSeq(s, a, b)) \subseteq ToSet(s)
<1>1. \A i \in a .. b : i \in DOMAIN s /\ s[i] \in S /\ s[i] \in ToSet(s)
  BY DEF ToSet
<1>2. SubSeq(s, a, b) \in Seq(S)
  BY <1>1, SubSeqProperties
<1>3. SubSeq(s, a, b) \in Seq(ToSet(s))
  BY <1>1, SubSeqProperties
<1>4. \A q \in Seq(ToSet(s)) : ToSet(q) \subseteq ToSet(s)
  BY DEF ToSet
<1>. QED BY <1>2, <1>3, <1>4

LEMMA SequenceWithout ==
  ASSUME NEW S, NEW s \in Seq(S), NEW k \in DOMAIN s
  PROVE  RemoveAt(s, k) \in Seq(S)
<1>1. k \in Nat \ {0} /\ k <= Len(s) /\ k - 1 \in Nat /\ k + 1 \in Nat \ {0} /\ Len(s) \in Nat
  OBVIOUS
<1>2. SubSeq(s, 1, k - 1) \in Seq(S)
  BY <1>1, PartOfSequence
<1>3. SubSeq(s, k + 1, Len(s)) \in Seq(S)
  BY <1>1, PartOfSequence
<1>. QED BY <1>2, <1>3, ConcatProperties DEF RemoveAt

LEMMA AppendedSet ==
  ASSUME NEW S, NEW s \in Seq(S), NEW x \in S
  PROVE  Append(s, x) \in Seq(S) /\ ToSet(Append(s, x)) = ToSet(s) \cup {x}
<1>1. /\ Append(s, x) \in Seq(S) /\ Len(Append(s, x)) = Len(s) + 1
      /\ \A i \in 1 .. Len(s) : Append(s, x)[i] = s[i]
      /\ Append(s, x)[Len(s) + 1] = x
  BY AppendProperties
<1>. DEFINE t == Append(s, x)
<1>2. DOMAIN s = 1 .. Len(s) /\ DOMAIN t = 1 .. (Len(s) + 1) /\ Len(s) \in Nat
  BY <1>1
<1>. HIDE DEF t
<1>3. ToSet(t) \subseteq ToSet(s) \cup {x}
  BY <1>1, <1>2 DEF ToSet, t
<1>4. x \in ToSet(t)
  BY <1>1, <1>2 DEF ToSet, t
<1>5. ToSet(s) \subseteq ToSet(t)
  BY <1>1, <1>2 DEF ToSet, t
<1>. QED BY <1>1, <1>3, <1>4, <1>5 DEF t

LEMMA FiniteSetAsSequence ==
  ASSUME NEW S, IsFiniteSet(S)
  PROVE  SetToSeq(S) \in Seq(S) /\ ToSet(SetToSeq(S)) = S
<1>. DEFINE n == Cardinality(S)
<1>1. n \in Nat /\ ExistsBijection(1 .. n, S)
  BY FS_CardinalityType
<1>. HIDE DEF n
<1>2. PICK f : f \in Bijection(1 .. n, S)
  BY <1>1 DEF ExistsBijection
<1>3. f \in [1 .. n -> S] /\ IsInjective(f)
  BY <1>2 DEF Bijection, Injection
<1>. DEFINE g == SetToSeq(S)
<1>4. g \in [1 .. n -> S] /\ IsInjective(g)
  BY <1>3 DEF SetToSeq, n
<1>. HIDE DEF g
<1>5. g \in Injection(1 .. n, S)
  BY <1>4 DEF Injection
<1>6. IsFiniteSet(1 .. n) /\ Cardinality(1 .. n) = n
  BY <1>1, FS_Interval
<1>7. g \in Surjection(1 .. n, S)
  BY <1>5, <1>6, FS_Injection DEF n
<1>8. g \in Seq(S)
  BY <1>1, <1>4
<1>9. ToSet(g) = S
  BY <1>1, <1>4, <1>7 DEF Surjection, ToSet
<1>. QED BY <1>8, <1>9 DEF g

-----------------------------------------------------------------------------
(* The import queue.                                                        *)

LEMMA PrunedIs ==
  ASSUME NEW h \in Seq(Tasks), NEW s
  PROVE  Pruned(h, s) \in Seq(Tasks) /\ ToSet(Pruned(h, s)) \subseteq ToSet(h)
<1>. DEFINE droppable == {n \in 0 .. Len(h) : /\ Len(h) - n >= MaxHistory
                                              /\ \A i \in 1 .. n : s[h[i]] \in Terminal}
            n == Max(droppable)
<1>1. CASE Len(h) <= MaxHistory
  BY <1>1 DEF Pruned
<1>2. CASE ~(Len(h) <= MaxHistory)
  <2>1. Len(h) \in Nat /\ MaxHistory \in Nat
    BY ImportAssumption
  <2>2. 0 \in droppable
    BY <1>2, <2>1
  <2>3. n \in droppable
    BY <2>1, <2>2, LargestIsIn
  <2>4. n \in 0 .. Len(h) /\ n + 1 \in Nat \ {0}
    BY <2>1, <2>3
  <2>5. Pruned(h, s) = SubSeq(h, n + 1, Len(h))
    BY <1>2 DEF Pruned
  <2>. HIDE DEF n
  <2>. QED BY <2>1, <2>4, <2>5, PartOfSequence
<1>. QED BY <1>1, <1>2

ImportSound == ImportTypeOK /\ QueueSound /\ WorkerSound /\ NoTaskForgotten

LEMMA QueuedAreTasks ==
  ASSUME ImportTypeOK
  PROVE  ToSet(pending) \subseteq Tasks /\ ToSet(history) \subseteq Tasks /\ NoTask \notin Tasks
<1>1. \A s \in Seq(Tasks) : ToSet(s) \subseteq Tasks
  BY DEF ToSet
<1>2. NoTask \notin Tasks
  BY DEF NoTask, Tasks
<1>. QED BY <1>1, <1>2 DEF ImportTypeOK

LEMMA ImportInitSound == ImportInit => ImportSound
<1>. SUFFICES ASSUME ImportInit PROVE ImportSound
  OBVIOUS
<1>. USE DEF ImportInit
<1>1. ImportTypeOK
  <2>1. worker \in [step : Steps, task : Tasks \cup {NoTask}, progress : Progress,
                    exit : {"none", "good", "bad"}, verdict : Terminal \cup {"none"}]
    BY DEF IdleWorker, Steps, Progress
  <2>2. issued \in 0 .. MaxTasks
    BY ImportAssumption
  <2>3. stopping \in BOOLEAN /\ "Queued" \in States
    BY DEF States
  <2>. QED BY <2>1, <2>2, <2>3 DEF ImportTypeOK
<1>2. ToSet(pending) = {} /\ ToSet(history) = {} /\ IsInjective(pending)
  BY DEF ToSet, IsInjective
<1>3. \A t \in Tasks : ~Done(t)
  BY DEF Done, Terminal
<1>. QED BY <1>1, <1>2, <1>3 DEF ImportSound, QueueSound, WorkerSound, NoTaskForgotten, IdleWorker

\* A request joins a task that has not ended, or appends the next one.
LEMMA RequestSteps ==
  ASSUME ImportSound, NEW k \in Keys, Request(k), NEW t, t = TaskFor(k)
  PROVE  /\ MutexFree
         /\ UNCHANGED <<state, cancelled, report, active, stopping, canceller, worker>>
         /\ t \in 1 .. issued' /\ ~Done(t) /\ key'[t] = k
         /\ \/ UNCHANGED <<key, issued, pending, history>> /\ t \in ToSet(history)
            \/ /\ t = issued + 1 /\ issued' = issued + 1 /\ issued' \in 1 .. MaxTasks
               /\ key' = [key EXCEPT ![t] = k]
               /\ pending' = Append(pending, t)
               /\ history' = Pruned(Append(history, t), state)
<1>1. /\ MutexFree /\ (Mergeable(k) # {} \/ issued < MaxTasks)
      /\ UNCHANGED <<state, cancelled, report, active, stopping, canceller, worker>>
      /\ IF Mergeable(k) # {}
           THEN UNCHANGED <<key, issued, pending, history>>
           ELSE /\ issued' = issued + 1
                /\ key' = [key EXCEPT ![issued + 1] = k]
                /\ pending' = Append(pending, issued + 1)
                /\ history' = Pruned(Append(history, issued + 1), state)
  BY DEF Request, CanRequest
<1>2. /\ issued \in 0 .. MaxTasks /\ MaxTasks \in Nat /\ key \in [Tasks -> Keys \cup {NoKey}]
      /\ ToSet(history) \subseteq 1 .. issued
      /\ \A u \in Tasks : u > issued => ~Done(u)
  BY ImportAssumption DEF ImportSound, ImportTypeOK, QueueSound
<1>3. CASE Mergeable(k) # {}
  <2>1. t \in Mergeable(k)
    BY <1>3 DEF TaskFor
  <2>2. t \in ToSet(history) /\ key[t] = k /\ ~Done(t)
    BY <2>1 DEF Mergeable
  <2>. QED BY <1>1, <1>2, <1>3, <2>2
<1>4. CASE Mergeable(k) = {}
  <2>1. t = issued + 1
    BY <1>4 DEF TaskFor
  <2>2. issued + 1 \in Tasks /\ issued + 1 > issued /\ issued + 1 \in 1 .. MaxTasks
    BY <1>1, <1>2, <1>4 DEF Tasks
  <2>3. ~Done(t) /\ key'[t] = k
    BY <1>1, <1>2, <1>4, <2>1, <2>2
  <2>. QED BY <1>1, <1>2, <1>4, <2>1, <2>2, <2>3
<1>. QED BY <1>3, <1>4

LEMMA RequestKeeps ==
  ASSUME ImportSound, NEW k \in Keys, Request(k)
  PROVE  ImportSound'
<1>1. PICK t : t = TaskFor(k)
  OBVIOUS
<1>2. /\ UNCHANGED <<state, cancelled, report, active, stopping, canceller, worker>>
      /\ \/ UNCHANGED <<key, issued, pending, history>>
         \/ /\ t = issued + 1 /\ issued' = issued + 1 /\ issued' \in 1 .. MaxTasks
            /\ key' = [key EXCEPT ![t] = k]
            /\ pending' = Append(pending, t)
            /\ history' = Pruned(Append(history, t), state)
  BY <1>1, RequestSteps
<1>3. CASE UNCHANGED <<key, issued, pending, history>>
  BY <1>2, <1>3 DEF ImportSound, ImportTypeOK, QueueSound, WorkerSound, NoTaskForgotten, Done
<1>4. CASE /\ t = issued + 1 /\ issued' = issued + 1 /\ issued' \in 1 .. MaxTasks
           /\ key' = [key EXCEPT ![t] = k]
           /\ pending' = Append(pending, t)
           /\ history' = Pruned(Append(history, t), state)
  <2>1. ImportTypeOK /\ QueueSound /\ WorkerSound /\ NoTaskForgotten
    BY DEF ImportSound
  <2>2. t \in Tasks /\ issued \in Nat /\ MaxTasks \in Nat /\ pending \in Seq(Tasks) /\ history \in Seq(Tasks)
    BY <1>4, <2>1, ImportAssumption DEF ImportTypeOK, Tasks
  <2>3. pending' \in Seq(Tasks) /\ ToSet(pending') = ToSet(pending) \cup {t}
    BY <1>4, <2>2, AppendedSet
  <2>4. Append(history, t) \in Seq(Tasks) /\ ToSet(Append(history, t)) = ToSet(history) \cup {t}
    BY <2>2, AppendedSet
  <2>5. history' \in Seq(Tasks) /\ ToSet(history') \subseteq ToSet(history) \cup {t}
    BY <1>4, <2>4, PrunedIs
  <2>6. ImportTypeOK'
    BY <1>2, <1>4, <2>1, <2>2, <2>3, <2>5 DEF ImportTypeOK, Tasks
  <2>7. IsInjective(pending')
    <3>1. t \notin ToSet(pending) /\ IsInjective(pending)
      BY <1>4, <2>1, <2>2 DEF QueueSound
    <3>2. /\ Len(pending') = Len(pending) + 1 /\ Len(pending) \in Nat
          /\ \A i \in 1 .. Len(pending) : pending'[i] = pending[i]
          /\ pending'[Len(pending) + 1] = t
      BY <1>4, <2>2, AppendProperties
    <3>3. DOMAIN pending = 1 .. Len(pending) /\ DOMAIN pending' = 1 .. Len(pending) + 1
      BY <2>2, <2>3, <3>2
    <3>4. \A i \in 1 .. Len(pending) : pending'[i] # t
      BY <3>1, <3>2, <3>3 DEF ToSet
    <3>. QED BY <3>1, <3>2, <3>3, <3>4 DEF IsInjective
  <2>8. QueueSound'
    <3>1. \A u \in Tasks : Done(u)' = Done(u)
      BY <1>2 DEF Done
    <3>2. /\ \A u \in 1 .. issued' : key'[u] \in Keys
          /\ \A u \in Tasks : u > issued' => ~Done(u)
          /\ ~Done(t) /\ {active', canceller'} \subseteq (1 .. issued') \cup {NoTask} /\ active' # t
      BY <1>2, <1>4, <2>1, <2>2 DEF QueueSound, ImportTypeOK, Tasks, NoTask
    <3>3. ToSet(pending') \cup ToSet(history') \subseteq 1 .. issued'
      BY <1>4, <2>1, <2>2, <2>3, <2>5 DEF QueueSound
    <3>4. \A u \in ToSet(pending') : u \in Tasks
      BY <2>1, <2>2, <2>3 DEF QueueSound, ToSet
    <3>. QED BY <1>2, <2>1, <2>3, <2>7, <3>1, <3>2, <3>3, <3>4 DEF QueueSound
  <2>9. WorkerSound' /\ NoTaskForgotten'
    BY <1>2, <2>1, <2>3, <2>5 DEF WorkerSound, NoTaskForgotten, Done
  <2>. QED BY <2>6, <2>8, <2>9 DEF ImportSound
<1>. QED BY <1>2, <1>3, <1>4

\* cancel() and shutdown().
LEMMA CancelKeeps ==
  ASSUME ImportSound,
         \/ \E t : CancelBegin(t)
         \/ CancelEnd
         \/ StopImports
         \/ UNCHANGED importVars
  PROVE  ImportSound'
<1>1. ImportTypeOK /\ QueueSound /\ WorkerSound /\ NoTaskForgotten
  BY DEF ImportSound
<1>2. UNCHANGED <<key, report, issued, pending, active, history, worker>>
  BY DEF CancelBegin, CancelEnd, StopImports, importVars, taskVars, queueVars
<1>3. ASSUME NEW t, CancelBegin(t) PROVE ImportSound'
  <2>1. /\ t \in ToSet(history) /\ canceller' = t /\ UNCHANGED <<state, stopping>>
        /\ cancelled' = [cancelled EXCEPT ![t] = TRUE]
    BY <1>3 DEF CancelBegin
  <2>2. t \in Tasks
    BY <1>1, <2>1 DEF ImportTypeOK, ToSet
  <2>3. ImportTypeOK'
    BY <1>1, <1>2, <2>1, <2>2 DEF ImportTypeOK
  <2>4. \A u \in Tasks : cancelled[u] => cancelled'[u]
    BY <1>1, <2>1 DEF ImportTypeOK
  <2>5. ToSet(pending) \subseteq Tasks /\ ToSet(history) \subseteq Tasks /\ cancelled'[t] /\ NoTask \notin Tasks
    BY <1>1, <2>1, <2>2, QueuedAreTasks DEF ImportTypeOK
  <2>6. QueueSound' /\ NoTaskForgotten'
    BY <1>1, <1>2, <2>1, <2>4, <2>5 DEF QueueSound, NoTaskForgotten, Done
  <2>7. WorkerSound'
    BY <1>1, <1>2, <2>1, <2>4, <2>5 DEF WorkerSound, Done, ImportTypeOK
  <2>. QED BY <2>3, <2>6, <2>7 DEF ImportSound
<1>4. CASE CancelEnd
  <2>1. /\ canceller # NoTask /\ canceller' = NoTask /\ UNCHANGED <<cancelled, stopping>>
        /\ state' = [state EXCEPT ![canceller] =
                       IF canceller = active THEN "Cancelling" ELSE "Cancelled"]
    BY <1>4 DEF CancelEnd
  <2>2. canceller \in Tasks /\ cancelled[canceller]
    BY <1>1, <2>1 DEF ImportTypeOK, WorkerSound
  <2>3. ImportTypeOK'
    BY <1>1, <1>2, <2>1, <2>2 DEF ImportTypeOK, States, Terminal
  <2>4. \A u \in Tasks : u # canceller => (Done(u)' <=> Done(u))
    <3>1. \A u \in Tasks : u # canceller => state'[u] = state[u]
      BY <1>1, <2>1 DEF ImportTypeOK
    <3>. QED BY <3>1 DEF Done
  <2>5. canceller = active => ~Done(active)'
    <3>1. canceller = active => state'[active'] = "Cancelling"
      BY <1>1, <1>2, <2>1, <2>2 DEF ImportTypeOK
    <3>. QED BY <3>1 DEF Done, Terminal
  <2>6. ToSet(pending) \subseteq Tasks /\ ToSet(history) \subseteq Tasks /\ NoTask \notin Tasks
    BY <1>1, QueuedAreTasks
  <2>7. canceller \in 1 .. issued /\ issued \in Nat
    BY <1>1, <2>1 DEF QueueSound, ImportTypeOK
  <2>8. QueueSound'
    <3>1. \A u \in Tasks : u > issued => ~Done(u)'
      BY <1>1, <2>4, <2>7 DEF QueueSound
    <3>2. \A u \in ToSet(pending) : cancelled[u] \/ ~Done(u)'
      BY <1>1, <2>2, <2>4, <2>6 DEF QueueSound
    <3>. QED BY <1>1, <1>2, <2>1, <3>1, <3>2 DEF QueueSound
  <2>9. NoTaskForgotten'
    BY <1>1, <1>2, <2>1, <2>2, <2>4, <2>6 DEF NoTaskForgotten
  <2>10. WorkerSound'
    <3>1. worker.step \in {"running", "judging", "storing"} => ~Done(active)'
      <4>1. worker.step \in {"running", "judging", "storing"} => ~Done(active) /\ active \in Tasks
        BY <1>1 DEF WorkerSound, ImportTypeOK
      <4>. QED BY <4>1, <2>4, <2>5, <1>2 DEF Done
    <3>2. worker.step = "finishing" => Done(active)' \/ cancelled[active]
      <4>1. worker.step = "finishing" => active \in Tasks /\ (Done(active) \/ cancelled[active])
        BY <1>1 DEF WorkerSound, ImportTypeOK
      <4>. QED BY <4>1, <2>2, <2>4, <1>2 DEF Done
    <3>. QED BY <1>1, <1>2, <2>1, <3>1, <3>2 DEF WorkerSound
  <2>. QED BY <2>3, <2>8, <2>9, <2>10 DEF ImportSound
<1>5. CASE StopImports
  <2>1. /\ cancelled' = [t \in Tasks |-> cancelled[t] \/ (t \in ToSet(history) /\ ~Done(t))]
        /\ stopping' = TRUE /\ UNCHANGED <<state, canceller>>
    BY <1>5 DEF StopImports
  <2>2. cancelled' \in [Tasks -> BOOLEAN] /\ stopping' \in BOOLEAN
    BY <1>1, <2>1 DEF ImportTypeOK
  <2>3. ImportTypeOK'
    BY <1>1, <1>2, <2>1, <2>2 DEF ImportTypeOK
  <2>4. \A u \in Tasks : cancelled[u] => cancelled'[u]
    BY <1>1, <2>1 DEF ImportTypeOK
  <2>5. ToSet(pending) \subseteq Tasks /\ ToSet(history) \subseteq Tasks /\ NoTask \notin Tasks
    BY <1>1, QueuedAreTasks
  <2>6. QueueSound' /\ NoTaskForgotten'
    BY <1>1, <1>2, <2>1, <2>4, <2>5 DEF QueueSound, NoTaskForgotten, Done
  <2>7. WorkerSound'
    BY <1>1, <1>2, <2>1, <2>4, <2>5 DEF WorkerSound, Done, ImportTypeOK
  <2>. QED BY <2>3, <2>6, <2>7 DEF ImportSound
<1>6. CASE UNCHANGED importVars
  BY <1>1, <1>6 DEF ImportSound, ImportTypeOK, QueueSound, WorkerSound, NoTaskForgotten, Done,
                    importVars, taskVars, queueVars
<1>. QED BY <1>3, <1>4, <1>5, <1>6

\* What a task's end says of the others.
LEMMA OthersKeepTheirState ==
  ASSUME NEW t, NEW x, state' = [state EXCEPT ![t] = x], state \in [Tasks -> States]
  PROVE  /\ \A u \in Tasks \ {t} : Done(u)' <=> Done(u)
         /\ t \in Tasks => (Done(t)' <=> x \in Terminal)
<1>1. \A u \in Tasks \ {t} : state'[u] = state[u]
  OBVIOUS
<1>2. t \in Tasks => state'[t] = x
  OBVIOUS
<1>. QED BY <1>1, <1>2 DEF Done

LEMMA HeadOfTheQueue ==
  ASSUME ImportTypeOK, QueueSound, pending # <<>>, NEW t, t = Head(pending), NEW q, q = Tail(pending)
  PROVE  /\ t \in Tasks /\ t \in ToSet(pending) /\ q \in Seq(Tasks)
         /\ ToSet(q) \subseteq ToSet(pending) /\ IsInjective(q)
         /\ t \notin ToSet(q)
         /\ \A u \in ToSet(pending) : u = t \/ u \in ToSet(q)
<1>1. pending \in Seq(Tasks) /\ IsInjective(pending)
  BY DEF ImportTypeOK, QueueSound
<1>2. /\ t \in Tasks /\ q \in Seq(Tasks) /\ t = pending[1] /\ Len(pending) \in Nat \ {0}
      /\ Len(q) = Len(pending) - 1 /\ \A i \in 1 .. Len(q) : q[i] = pending[i + 1]
  BY <1>1
<1>3. DOMAIN pending = 1 .. Len(pending) /\ DOMAIN q = 1 .. Len(q) /\ Len(q) \in Nat
  BY <1>1, <1>2
<1>4. ToSet(q) \subseteq ToSet(pending) /\ t \in ToSet(pending)
  BY <1>2, <1>3 DEF ToSet
<1>5. \A i, j \in 1 .. Len(pending) : pending[i] = pending[j] => i = j
  BY <1>1, <1>3 DEF IsInjective
<1>6. IsInjective(q)
  <2>1. \A i, j \in 1 .. Len(q) : q[i] = q[j] => i = j
    <3>. SUFFICES ASSUME NEW i \in 1 .. Len(q), NEW j \in 1 .. Len(q), q[i] = q[j] PROVE i = j
      OBVIOUS
    <3>1. i + 1 \in 1 .. Len(pending) /\ j + 1 \in 1 .. Len(pending)
      BY <1>2, <1>3
    <3>. QED BY <3>1, <1>2, <1>5, <1>3
  <2>. QED BY <2>1, <1>3 DEF IsInjective
<1>7. t \notin ToSet(q)
  <2>1. ASSUME NEW i \in 1 .. Len(q), q[i] = t PROVE FALSE
    <3>1. i + 1 \in 1 .. Len(pending) /\ 1 \in 1 .. Len(pending) /\ i + 1 # 1
      BY <1>2, <1>3
    <3>. QED BY <3>1, <1>2, <1>5, <2>1
  <2>. QED BY <2>1, <1>3 DEF ToSet
<1>8. \A i \in DOMAIN pending : pending[i] = t \/ pending[i] \in ToSet(q)
  <2>. SUFFICES ASSUME NEW i \in 1 .. Len(pending), i # 1 PROVE pending[i] \in ToSet(q)
    BY <1>2, <1>3
  <2>1. i - 1 \in 1 .. Len(q) /\ (i - 1) + 1 = i
    BY <1>2, <1>3
  <2>2. q[i - 1] = pending[i]
    BY <2>1, <1>2
  <2>. QED BY <2>1, <2>2, <1>3 DEF ToSet
<1>. QED BY <1>2, <1>4, <1>6, <1>7, <1>8 DEF ToSet

\* The worker's look at the queue.
LEMMA TakeKeeps ==
  ASSUME ImportSound, Take
  PROVE  ImportSound' /\ \A t \in Tasks : Done(t) => Done(t)'
<1>1. ImportTypeOK /\ QueueSound /\ WorkerSound /\ NoTaskForgotten
  BY DEF ImportSound
<1>2. PICK t : t = Head(pending)
  OBVIOUS
<1>3. /\ worker.step = "waiting" /\ MutexFree /\ pending # <<>> /\ pending' = Tail(pending)
      /\ UNCHANGED <<key, cancelled, report, issued, history, stopping, canceller>>
      /\ \/ cancelled[t] /\ UNCHANGED <<state, active, worker>>
         \/ /\ ~cancelled[t] /\ active' = t /\ state' = [state EXCEPT ![t] = "Importing"]
            /\ worker' = [IdleWorker EXCEPT !.step = "running", !.task = t]
  BY <1>2 DEF Take
<1>4. /\ t \in Tasks /\ t \in ToSet(pending) /\ pending' \in Seq(Tasks)
      /\ ToSet(pending') \subseteq ToSet(pending) /\ IsInjective(pending')
      /\ t \notin ToSet(pending')
      /\ \A u \in ToSet(pending) : u = t \/ u \in ToSet(pending')
  BY <1>1, <1>2, <1>3, HeadOfTheQueue
<1>5. ToSet(pending) \subseteq Tasks /\ ToSet(history) \subseteq Tasks /\ NoTask \notin Tasks
  BY <1>1, QueuedAreTasks
<1>6. t \in 1 .. issued /\ issued \in Nat /\ (cancelled[t] \/ ~Done(t)) /\ canceller = NoTask
  BY <1>1, <1>3, <1>4 DEF QueueSound, ImportTypeOK, MutexFree
<1>7. CASE cancelled[t] /\ UNCHANGED <<state, active, worker>>
  <2>1. ImportTypeOK'
    BY <1>1, <1>3, <1>4, <1>7 DEF ImportTypeOK
  <2>2. QueueSound'
    BY <1>1, <1>3, <1>4, <1>7 DEF QueueSound, Done
  <2>3. WorkerSound' /\ NoTaskForgotten'
    BY <1>1, <1>3, <1>4, <1>7 DEF WorkerSound, NoTaskForgotten, Done
  <2>4. \A u \in Tasks : Done(u) => Done(u)'
    BY <1>7 DEF Done
  <2>. QED BY <2>1, <2>2, <2>3, <2>4 DEF ImportSound
<1>8. CASE /\ ~cancelled[t] /\ active' = t /\ state' = [state EXCEPT ![t] = "Importing"]
           /\ worker' = [IdleWorker EXCEPT !.step = "running", !.task = t]
  <2>1. \A u \in Tasks : Done(u)' <=> Done(u)
    <3>1. state \in [Tasks -> States] /\ "Importing" \notin Terminal /\ ~Done(t)
      BY <1>1, <1>6, <1>8 DEF ImportTypeOK, Terminal
    <3>. QED BY <1>4, <1>8, <3>1, OthersKeepTheirState
  <2>2. /\ worker' \in [step : Steps, task : Tasks \cup {NoTask}, progress : Progress,
                        exit : {"none", "good", "bad"}, verdict : Terminal \cup {"none"}]
        /\ worker'.step = "running" /\ worker'.task = t
    BY <1>4, <1>8 DEF IdleWorker, Steps, Progress
  <2>3. ImportTypeOK'
    <3>1. state' \in [Tasks -> States]
      BY <1>1, <1>4, <1>8 DEF ImportTypeOK, States
    <3>. QED BY <1>1, <1>3, <1>4, <1>8, <2>2, <3>1 DEF ImportTypeOK
  <2>4. QueueSound'
    BY <1>1, <1>3, <1>4, <1>5, <1>6, <1>8, <2>1 DEF QueueSound, Tasks, ImportTypeOK
  <2>5. active = NoTask
    BY <1>1, <1>3 DEF WorkerSound
  <2>6. NoTaskForgotten'
    BY <1>1, <1>3, <1>4, <1>5, <1>8, <2>1, <2>5 DEF NoTaskForgotten
  <2>7. WorkerSound'
    <3>1. t # NoTask /\ ~Done(t)'
      BY <1>4, <1>5, <1>6, <1>8, <2>1
    <3>2. ~Done(active)'
      BY <3>1, <1>8 DEF Done
    <3>. QED BY <1>3, <1>6, <1>8, <2>2, <3>1, <3>2 DEF WorkerSound
  <2>. QED BY <2>1, <2>3, <2>4, <2>6, <2>7 DEF ImportSound
<1>. QED BY <1>3, <1>7, <1>8

\* The tool's lines and its end, and what the worker makes of them.
LEMMA RunKeeps ==
  ASSUME ImportSound,
         ToolPublishes \/ ToolCompletes \/ (\E exit \in {"good", "bad"} : ToolExits(exit))
           \/ CancelPoll \/ Judge \/ StoreVerdict \/ Stop
  PROVE  ImportSound' /\ \A t \in Tasks : Done(t) => Done(t)'
<1>1. ImportTypeOK /\ QueueSound /\ WorkerSound /\ NoTaskForgotten
  BY DEF ImportSound
<1>2. UNCHANGED <<key, cancelled, issued, pending, active, history, stopping, canceller>>
  BY DEF ToolPublishes, ToolCompletes, ToolExits, CancelPoll, Judge, StoreVerdict, Stop, taskVars, queueVars
<1>. DEFINE WorkerRecord ==
              [step : Steps, task : Tasks \cup {NoTask}, progress : Progress,
               exit : {"none", "good", "bad"}, verdict : Terminal \cup {"none"}]
<1>3. worker \in WorkerRecord
  BY <1>1 DEF ImportTypeOK
<1>4. worker.step \in {"running", "judging", "storing"} =>
         worker.task = active /\ active \in Tasks /\ ~Done(active)
  BY <1>1 DEF WorkerSound, ImportTypeOK
<1>5. /\ worker' \in WorkerRecord
      /\ worker'.step \in {"waiting", "stopped"} <=> worker.step \in {"waiting", "stopped"}
      /\ worker'.step \notin {"waiting", "stopped"} => worker'.task = worker.task
      /\ worker'.step \in {"running", "judging", "storing"} => worker.step \in {"running", "judging"}
      /\ worker'.step = "storing" => worker'.verdict \in Terminal
      /\ worker'.step = "finishing" => worker.step = "storing" /\ state' = [state EXCEPT ![worker.task] = worker.verdict]
  <2>1. CASE ToolPublishes
    BY <1>3, <2>1 DEF ToolPublishes, Running, Progress
  <2>2. CASE ToolCompletes
    BY <1>3, <2>2 DEF ToolCompletes, Running, Progress
  <2>3. CASE \E exit \in {"good", "bad"} : ToolExits(exit)
    BY <1>3, <2>3 DEF ToolExits, Running, Steps
  <2>4. CASE CancelPoll
    BY <1>3, <2>4 DEF CancelPoll, Running, Steps
  <2>5. CASE Judge
    BY <1>3, <2>5 DEF Judge, Steps, IdleWorker, Verdict, Progress, Terminal
  <2>6. CASE StoreVerdict
    BY <1>3, <2>6 DEF StoreVerdict, Steps
  <2>7. CASE Stop
    BY <1>3, <2>7 DEF Stop, Steps
  <2>. QED BY <2>1, <2>2, <2>3, <2>4, <2>5, <2>6, <2>7
<1>. HIDE DEF WorkerRecord
<1>6. report' \in [Tasks -> BOOLEAN]
  <2>1. report \in [Tasks -> BOOLEAN]
    BY <1>1 DEF ImportTypeOK
  <2>2. UNCHANGED report \/ report' = [report EXCEPT ![worker.task] = TRUE]
    BY DEF ToolPublishes, ToolCompletes, ToolExits, CancelPoll, Judge, StoreVerdict, Stop, taskVars, queueVars
  <2>. QED BY <2>1, <2>2
<1>7. \/ UNCHANGED state /\ (worker'.step = "finishing" => worker.step = "storing")
      \/ worker.step = "running" /\ worker'.step = "running" /\ state' = [state EXCEPT ![worker.task] = "Publishing"]
      \/ worker.step = "storing" /\ worker'.step = "finishing" /\ state' = [state EXCEPT ![worker.task] = worker.verdict]
  <2>1. CASE ToolPublishes
    BY <1>3, <2>1 DEF ToolPublishes, Running, WorkerRecord
  <2>2. CASE StoreVerdict
    BY <1>3, <2>2 DEF StoreVerdict, WorkerRecord
  <2>3. CASE ToolCompletes \/ (\E exit \in {"good", "bad"} : ToolExits(exit)) \/ CancelPoll \/ Judge \/ Stop
    BY <1>5, <2>3 DEF ToolCompletes, ToolExits, CancelPoll, Judge, Stop, taskVars
  <2>. QED BY <2>1, <2>2, <2>3
<1>8. worker.step = "storing" => worker.verdict \in Terminal
  BY <1>1 DEF WorkerSound
<1>9. state' \in [Tasks -> States]
  BY <1>1, <1>7, <1>8 DEF ImportTypeOK, States
<1>10. /\ \A u \in Tasks \ {active} : Done(u)' <=> Done(u)
       /\ worker'.step \in {"running", "judging", "storing"} => ~Done(active)'
       /\ worker'.step = "finishing" => Done(active)'
  <2>1. CASE UNCHANGED state /\ (worker'.step = "finishing" => worker.step = "storing")
    <3>1. \A u : Done(u)' <=> Done(u')
      BY <2>1 DEF Done
    <3>2. worker'.step = "finishing" => state'[active] = worker.verdict
      BY <1>1, <1>2, <1>4, <1>5 DEF ImportTypeOK
    <3>3. worker'.step = "finishing" => state'[active'] \in Terminal
      BY <1>2, <1>5, <1>8, <3>2
    <3>. QED BY <1>2, <1>4, <1>5, <2>1, <3>3 DEF Done
  <2>2. CASE worker.step = "running" /\ worker'.step = "running" /\ state' = [state EXCEPT ![worker.task] = "Publishing"]
    <3>1. "Publishing" \notin Terminal /\ state \in [Tasks -> States]
      BY <1>1 DEF Terminal, ImportTypeOK
    <3>2. /\ \A u \in Tasks \ {active} : Done(u)' <=> Done(u)
          /\ state'[active] \notin Terminal
      BY <1>4, <2>2, <3>1, OthersKeepTheirState
    <3>. QED BY <1>2, <2>2, <3>2 DEF Done
  <2>3. CASE worker.step = "storing" /\ worker'.step = "finishing" /\ state' = [state EXCEPT ![worker.task] = worker.verdict]
    <3>1. state \in [Tasks -> States]
      BY <1>1 DEF ImportTypeOK
    <3>2. /\ \A u \in Tasks \ {active} : Done(u)' <=> Done(u)
          /\ state'[active] \in Terminal
      BY <1>4, <1>8, <2>3, <3>1, OthersKeepTheirState
    <3>. QED BY <1>2, <2>3, <3>2 DEF Done
  <2>. QED BY <1>7, <2>1, <2>2, <2>3
<1>11. \A u \in Tasks : Done(u) => Done(u)'
  <2>1. active \in Tasks /\ Done(active) => Done(active)'
    <3>1. Done(active) => UNCHANGED state
      BY <1>4, <1>7
    <3>. QED BY <1>2, <3>1 DEF Done
  <2>. QED BY <1>2, <1>10, <2>1 DEF Done
<1>12. ToSet(pending) \subseteq Tasks /\ ToSet(history) \subseteq Tasks /\ NoTask \notin Tasks
  BY <1>1, QueuedAreTasks
<1>13. ImportTypeOK'
  BY <1>1, <1>2, <1>5, <1>6, <1>9 DEF ImportTypeOK, WorkerRecord
<1>14. active = NoTask \/ active \in 1 .. issued
  BY <1>1 DEF QueueSound
<1>15. QueueSound'
  <2>1. \A u \in Tasks : u > issued => ~Done(u)'
    <3>1. issued \in Nat /\ (active # NoTask => ~(active > issued))
      BY <1>1, <1>14 DEF ImportTypeOK
    <3>. QED BY <1>1, <1>10, <1>12, <3>1 DEF QueueSound
  <2>2. \A u \in ToSet(pending) : cancelled[u] \/ ~Done(u)'
    BY <1>1, <1>10, <1>12 DEF QueueSound
  <2>. QED BY <1>1, <1>2, <2>1, <2>2 DEF QueueSound
<1>16. NoTaskForgotten'
  BY <1>1, <1>2, <1>11, <1>12 DEF NoTaskForgotten
<1>17. WorkerSound'
  <2>2. worker'.step = "finishing" => Done(active)'
    BY <1>5, <1>10
  <2>3. active = NoTask <=> worker'.step \in {"waiting", "stopped"}
    BY <1>1, <1>5 DEF WorkerSound
  <2>4. active # NoTask => worker'.task = active
    BY <1>1, <1>5, <2>3 DEF WorkerSound
  <2>. QED BY <1>1, <1>2, <1>5, <1>10, <2>2, <2>3, <2>4 DEF WorkerSound
<1>. QED BY <1>11, <1>13, <1>15, <1>16, <1>17 DEF ImportSound

LEMMA FinishKeeps ==
  ASSUME ImportSound, Finish
  PROVE  ImportSound' /\ \A t \in Tasks : Done(t) => Done(t)'
<1>1. ImportTypeOK /\ QueueSound /\ WorkerSound /\ NoTaskForgotten
  BY DEF ImportSound
<1>2. /\ worker.step = "finishing" /\ active' = NoTask /\ worker' = IdleWorker
      /\ history' = Pruned(history, state)
      /\ UNCHANGED <<key, state, cancelled, report, issued, pending, stopping, canceller>>
  BY DEF Finish, taskVars
<1>3. history' \in Seq(Tasks) /\ ToSet(history') \subseteq ToSet(history)
  BY <1>1, <1>2, PrunedIs DEF ImportTypeOK
<1>4. worker' \in [step : Steps, task : Tasks \cup {NoTask}, progress : Progress,
                   exit : {"none", "good", "bad"}, verdict : Terminal \cup {"none"}]
  BY <1>2 DEF IdleWorker, Steps, Progress
<1>5. ImportTypeOK'
  BY <1>1, <1>2, <1>3, <1>4 DEF ImportTypeOK
<1>6. \A u : Done(u)' <=> state[u'] \in Terminal
  BY <1>2 DEF Done
<1>7. ToSet(pending) \subseteq Tasks /\ ToSet(history) \subseteq Tasks /\ NoTask \notin Tasks
  BY <1>1, QueuedAreTasks
<1>8. QueueSound'
  <2>1. NoTask \notin ToSet(pending)
    BY <1>7
  <2>. QED BY <1>1, <1>2, <1>3, <2>1 DEF QueueSound, Done
<1>9. NoTaskForgotten'
  BY <1>1, <1>2, <1>3 DEF NoTaskForgotten, WorkerSound, Done
<1>10. WorkerSound'
  BY <1>1, <1>2 DEF WorkerSound, IdleWorker, Done
<1>. QED BY <1>2, <1>5, <1>8, <1>9, <1>10 DEF ImportSound, Done

-----------------------------------------------------------------------------
(* The controller's members, c, and the manager's tasks, v.                 *)

\* What the parts of the handlers need of the tasks: the history holds tasks
\* that were requested, which are n.
TasksAre(v, n) ==
  /\ n \in 0 .. MaxTasks
  /\ ToSet(v.history) \subseteq 1 .. n
  /\ \A t \in 1 .. n : v.key[t] \in WorkflowKeys

\* The invariants of the controller, of members c and tasks v.
ProcessedEnded(c, v) == \A t \in c.processed : v.state[t] \in Terminal

Shown(c) ==
  \A m \in AllModels, p \in Profiles :
     c.status[<<m, p>>] # "none" => m \in ToSet(c.entries) /\ p = c.limit

Awaited(c, v, n) ==
  \A m \in AllModels, p \in Profiles :
     c.status[<<m, p>>] = "importing" =>
       \E t \in 1 .. n : v.key[t] = TextureKey(m, p) /\ t \notin c.processed

StatusesSound(c, v, n) ==
  c \in Controller /\ ProcessedEnded(c, v) /\ Shown(c) /\ Awaited(c, v, n)

Waiting(c, v, n, w, hasMoved) ==
  \A t \in Tasks : \A k \in DOMAIN c.consumers[t] :
     LET x == c.consumers[t][k]
     IN /\ x.generation <= c.generation
        /\ x.generation = c.generation =>
             /\ IsModel(w)
             /\ t <= n /\ v.key[t][2] = w
             /\ ~hasMoved => x.index \in DOMAIN c.entries /\ c.entries[x.index] = w

LEMMA SameKeys ==
  ASSUME NEW m, NEW p, NEW q, NEW r, TextureKey(m, p) = TextureKey(q, r)
  PROVE  m = q /\ p = r
BY DEF TextureKey

LEMMA TextureKeyIs ==
  ASSUME NEW m, NEW p
  PROVE  /\ TextureKey(m, p) # SourceKey /\ TextureKey(m, p)[2] = m /\ TextureKey(m, p)[3] = p
         /\ m \in AllModels /\ p \in Profiles => TextureKey(m, p) \in WorkflowKeys
<1>1. TextureKey(m, p)[2] = m /\ TextureKey(m, p)[3] = p /\ TextureKey(m, p)[1] = "textures"
  BY DEF TextureKey
<1>2. SourceKey[1] = "validation"
  BY DEF SourceKey
<1>3. m \in AllModels /\ p \in Profiles => TextureKey(m, p) \in WorkflowKeys
  BY DEF WorkflowKeys
<1>. QED BY <1>1, <1>2, <1>3

LEMMA TextureKeys ==
  ASSUME NEW k \in WorkflowKeys
  PROVE  /\ k # SourceKey => k[2] \in AllModels /\ k[3] \in Profiles /\ k = TextureKey(k[2], k[3])
         /\ k[1] # "validation" => k # SourceKey
<1>1. CASE k = SourceKey
  BY <1>1 DEF SourceKey
<1>2. CASE k # SourceKey
  <2>1. PICK m \in AllModels, p \in Profiles : k = TextureKey(m, p)
    BY <1>2 DEF WorkflowKeys
  <2>. QED BY <1>2, <2>1, TextureKeyIs
<1>. QED BY <1>1, <1>2

LEMMA InspectedIs ==
  ASSUME NEW m, NEW p, NEW v, NEW n, TasksAre(v, n)
  PROVE  /\ Inspected(m, p, v) \in Statuses
         /\ Inspected(m, p, v) = "importing" =>
              \E t \in 1 .. n : v.key[t] = TextureKey(m, p) /\ v.state[t] \notin Terminal
BY DEF Inspected, Statuses, TasksAre

LEMMA RefreshAllSound ==
  ASSUME NEW v, NEW n, TasksAre(v, n), v = Now, NEW c \in Controller, ProcessedEnded(c, v),
         NEW d, d = RefreshAll(c)
  PROVE  /\ StatusesSound(d, v, n)
         /\ d.entries = c.entries /\ d.limit = c.limit /\ d.generation = c.generation
         /\ d.consumers = c.consumers /\ d.processed = c.processed
         /\ d.validation = c.validation /\ d.dialog = c.dialog
<1>. DEFINE st == [a \in AllModels \X Profiles |->
                     IF a[1] \in ToSet(c.entries) /\ a[2] = c.limit
                       THEN Inspected(a[1], a[2], Now) ELSE "none"]
<1>1. d = [c EXCEPT !.status = st]
  BY DEF RefreshAll
<1>2. \A m, p : Inspected(m, p, v) \in Statuses
  BY InspectedIs
<1>3. st \in [AllModels \X Profiles -> Statuses]
  BY <1>2 DEF Statuses
<1>4. \A m \in AllModels, p \in Profiles :
         st[<<m, p>>] = IF m \in ToSet(c.entries) /\ p = c.limit THEN Inspected(m, p, v) ELSE "none"
  OBVIOUS
<1>. HIDE DEF st
<1>5. /\ d.entries = c.entries /\ d.limit = c.limit /\ d.generation = c.generation
      /\ d.consumers = c.consumers /\ d.processed = c.processed
      /\ d.validation = c.validation /\ d.dialog = c.dialog /\ d.status = st
  BY <1>1 DEF Controller
<1>6. d \in Controller
  BY <1>1, <1>3 DEF Controller
<1>7. Shown(d)
  BY <1>4, <1>5 DEF Shown
<1>8. ProcessedEnded(d, v)
  BY <1>5 DEF ProcessedEnded
<1>9. Awaited(d, v, n)
  <2>. SUFFICES ASSUME NEW m \in AllModels, NEW p \in Profiles, d.status[<<m, p>>] = "importing"
                PROVE  \E t \in 1 .. n : v.key[t] = TextureKey(m, p) /\ t \notin d.processed
    BY DEF Awaited
  <2>1. Inspected(m, p, v) = "importing"
    BY <1>4, <1>5
  <2>2. PICK t \in 1 .. n : v.key[t] = TextureKey(m, p) /\ v.state[t] \notin Terminal
    BY <2>1, InspectedIs
  <2>. QED BY <1>8, <2>2 DEF ProcessedEnded
<1>. QED BY <1>5, <1>6, <1>7, <1>8, <1>9 DEF StatusesSound

LEMMA RefreshStatusSound ==
  ASSUME NEW v, NEW n, TasksAre(v, n), NEW c, StatusesSound(c, v, n), NEW i,
         NEW d, d = RefreshStatus(c, i, v)
  PROVE  /\ StatusesSound(d, v, n)
         /\ d.entries = c.entries /\ d.limit = c.limit /\ d.generation = c.generation
         /\ d.consumers = c.consumers /\ d.processed = c.processed
         /\ d.validation = c.validation /\ d.dialog = c.dialog
<1>0. c \in Controller /\ ProcessedEnded(c, v) /\ Shown(c) /\ Awaited(c, v, n)
  BY DEF StatusesSound
<1>1. CASE ~(i \in DOMAIN c.entries /\ IsModel(c.entries[i]))
  BY <1>1 DEF RefreshStatus
<1>2. CASE i \in DOMAIN c.entries /\ IsModel(c.entries[i])
  <2>. DEFINE e == c.entries[i]
              x == Inspected(e, c.limit, v)
  <2>1. d = [c EXCEPT !.status = [c.status EXCEPT ![<<e, c.limit>>] = x]]
    BY <1>2 DEF RefreshStatus
  <2>2. e \in AllModels /\ e \in ToSet(c.entries) /\ c.limit \in Profiles /\ x \in Statuses
        /\ c.status \in [AllModels \X Profiles -> Statuses]
    BY <1>0, <1>2, InspectedIs DEF IsModel, ToSet, Controller
  <2>3. x = "importing" =>
          \E t \in 1 .. n : v.key[t] = TextureKey(e, c.limit) /\ v.state[t] \notin Terminal
    BY InspectedIs
  <2>. HIDE DEF x, e
  <2>. DEFINE st == [c.status EXCEPT ![<<e, c.limit>>] = x]
  <2>4. st \in [AllModels \X Profiles -> Statuses]
    BY <2>2
  <2>5. \A m \in AllModels, p \in Profiles :
           st[<<m, p>>] = IF m = e /\ p = c.limit THEN x ELSE c.status[<<m, p>>]
    BY <2>2
  <2>. HIDE DEF st
  <2>6. /\ d.entries = c.entries /\ d.limit = c.limit /\ d.generation = c.generation
        /\ d.consumers = c.consumers /\ d.processed = c.processed
        /\ d.validation = c.validation /\ d.dialog = c.dialog /\ d.status = st
    BY <1>0, <2>1 DEF Controller, st
  <2>7. d \in Controller
    BY <1>0, <2>1, <2>4 DEF Controller, st
  <2>8. Shown(d)
    BY <1>0, <2>2, <2>5, <2>6 DEF Shown
  <2>9. ProcessedEnded(d, v)
    BY <1>0, <2>6 DEF ProcessedEnded
  <2>10. Awaited(d, v, n)
    <3>. SUFFICES ASSUME NEW m \in AllModels, NEW p \in Profiles, d.status[<<m, p>>] = "importing"
                  PROVE  \E t \in 1 .. n : v.key[t] = TextureKey(m, p) /\ t \notin d.processed
      BY DEF Awaited
    <3>1. CASE m = e /\ p = c.limit
      <4>1. PICK t \in 1 .. n : v.key[t] = TextureKey(m, p) /\ v.state[t] \notin Terminal
        BY <2>3, <2>5, <2>6, <3>1
      <4>. QED BY <2>9, <4>1 DEF ProcessedEnded
    <3>2. CASE ~(m = e /\ p = c.limit)
      BY <1>0, <2>5, <2>6, <3>2 DEF Awaited
    <3>. QED BY <3>1, <3>2
  <2>. QED BY <2>6, <2>7, <2>8, <2>9, <2>10 DEF StatusesSound
<1>. QED BY <1>1, <1>2

\* A pump looks at the tasks that have ended since the last.
LEMMA ProcessedSound ==
  ASSUME NEW v, NEW n, TasksAre(v, n), NEW c, StatusesSound(c, v, n),
         NEW d, d = Processed(c, v)
  PROVE  /\ StatusesSound(d, v, n)
         /\ d.entries = c.entries /\ d.limit = c.limit /\ d.generation = c.generation
         /\ \A t \in Tasks : d.consumers[t] = c.consumers[t] \/ d.consumers[t] = <<>>
<1>. DEFINE models == {v.key[t][2] : t \in EndedImports(c, v)} \cap ToSet(c.entries)
            done == c.processed \cup Ended(c, v)
            st == [a \in AllModels \X Profiles |->
                     IF a[1] \in models /\ a[2] = c.limit THEN Inspected(a[1], a[2], v) ELSE c.status[a]]
            waiting == [t \in Tasks |-> IF t \in EndedImports(c, v) THEN <<>> ELSE c.consumers[t]]
<1>0. c \in Controller /\ ProcessedEnded(c, v) /\ Shown(c) /\ Awaited(c, v, n)
  BY DEF StatusesSound
<1>1. d = [c EXCEPT !.processed = done, !.status = st, !.consumers = waiting]
  BY <1>0 DEF Processed, Controller
<1>2. \A m, p : Inspected(m, p, v) \in Statuses
  BY InspectedIs
<1>3. st \in [AllModels \X Profiles -> Statuses]
  BY <1>0, <1>2 DEF Controller
<1>4. \A m \in AllModels, p \in Profiles :
         st[<<m, p>>] = IF m \in models /\ p = c.limit THEN Inspected(m, p, v) ELSE c.status[<<m, p>>]
  OBVIOUS
<1>5. waiting \in [Tasks -> Seq(Consumer)]
  BY <1>0 DEF Controller
<1>6. \A t \in Tasks : waiting[t] = c.consumers[t] \/ waiting[t] = <<>>
  OBVIOUS
<1>7. done \in SUBSET Tasks
  <2>1. Ended(c, v) \subseteq 1 .. n
    BY DEF Ended, TasksAre
  <2>2. 1 .. n \subseteq Tasks
    BY ImportAssumption DEF TasksAre, Tasks
  <2>. QED BY <1>0, <2>1, <2>2 DEF Controller
<1>8. \A t \in ToSet(v.history) : v.state[t] \in Terminal /\ v.key[t] # SourceKey /\ v.key[t][2] \in ToSet(c.entries) =>
         t \in c.processed \/ v.key[t][2] \in models
  BY DEF EndedImports, Ended
<1>9. models \subseteq ToSet(c.entries)
  OBVIOUS
<1>10. \A t \in done : t \in c.processed \/ (t \in ToSet(v.history) /\ v.state[t] \in Terminal)
  BY DEF Ended
<1>. HIDE DEF models, done, st, waiting
<1>11. d \in Controller
  BY <1>0, <1>1, <1>3, <1>5, <1>7 DEF Controller
<1>12. /\ d.entries = c.entries /\ d.limit = c.limit /\ d.generation = c.generation
       /\ d.consumers = waiting /\ d.processed = done /\ d.status = st
  BY <1>0, <1>1 DEF Controller
<1>13. ProcessedEnded(d, v)
  BY <1>0, <1>10, <1>12 DEF ProcessedEnded
<1>14. Shown(d)
  BY <1>0, <1>4, <1>9, <1>12 DEF Shown
<1>15. Awaited(d, v, n)
  <2>. SUFFICES ASSUME NEW m \in AllModels, NEW p \in Profiles, d.status[<<m, p>>] = "importing"
                PROVE  \E t \in 1 .. n : v.key[t] = TextureKey(m, p) /\ t \notin d.processed
    BY DEF Awaited
  <2>1. CASE m \in models /\ p = c.limit
    <3>1. PICK t \in 1 .. n : v.key[t] = TextureKey(m, p) /\ v.state[t] \notin Terminal
      BY <1>4, <1>12, <2>1, InspectedIs
    <3>. QED BY <1>13, <3>1 DEF ProcessedEnded
  <2>2. CASE ~(m \in models /\ p = c.limit)
    <3>1. c.status[<<m, p>>] = "importing"
      BY <1>4, <1>12, <2>2
    <3>2. PICK t \in 1 .. n : v.key[t] = TextureKey(m, p) /\ t \notin c.processed
      BY <1>0, <3>1 DEF Awaited
    <3>3. m \in ToSet(c.entries) /\ p = c.limit
      BY <1>0, <3>1 DEF Shown
    <3>4. v.key[t][2] = m /\ v.key[t] # SourceKey
      BY <3>2, TextureKeyIs
    <3>5. t \notin done
      BY <1>8, <1>10, <2>2, <3>2, <3>3, <3>4
    <3>. QED BY <1>12, <3>2, <3>5
  <2>. QED BY <2>1, <2>2
<1>. QED BY <1>6, <1>11, <1>12, <1>13, <1>14, <1>15 DEF StatusesSound

LEMMA FewerWait ==
  ASSUME NEW v, NEW n, NEW w, NEW hasMoved, NEW c, NEW d, Waiting(c, v, n, w, hasMoved),
         d.entries = c.entries, d.generation = c.generation,
         \A t \in Tasks : d.consumers[t] = c.consumers[t] \/ d.consumers[t] = <<>>
  PROVE  Waiting(d, v, n, w, hasMoved)
BY DEF Waiting

\* What a load waits for.
LEMMA LoadingIs ==
  ASSUME NEW v, NEW n, TasksAre(v, n), NEW c \in Controller, NEW t \in Loading(c, v)
  PROVE  /\ t \in Tasks /\ v.state[t] \in Terminal
         /\ \E k \in DOMAIN c.consumers[t] :
               /\ c.consumers[t][k].generation = c.generation
               /\ c.consumers[t][k].index = LatestScene(c, t)
<1>1. /\ t \in ToSet(v.history) /\ v.state[t] \in Terminal
      /\ LatestScene(c, t) \in DOMAIN c.entries
  BY DEF Loading, EndedImports, Ended
<1>2. t \in Tasks
  <2>1. 1 .. n \subseteq Tasks
    BY ImportAssumption DEF TasksAre, Tasks
  <2>. QED BY <1>1, <2>1 DEF TasksAre
<1>. DEFINE mine == {k \in DOMAIN c.consumers[t] : c.consumers[t][k].generation = c.generation}
            k == Max(mine)
<1>3. LatestScene(c, t) # 0
  BY <1>1 DEF Controller
<1>4. mine # {}
  BY <1>3 DEF LatestScene
<1>5. c.consumers[t] \in Seq(Consumer)
  BY <1>2 DEF Controller
<1>6. Len(c.consumers[t]) \in Nat /\ mine \in SUBSET (0 .. Len(c.consumers[t]))
  BY <1>5
<1>7. k \in mine
  BY <1>4, <1>6, LargestIsIn
<1>8. LatestScene(c, t) = c.consumers[t][k].index
  BY <1>4 DEF LatestScene
<1>. QED BY <1>1, <1>2, <1>7, <1>8

\* The rest of the types.
RestTypeOK ==
  /\ catalog \in Seq(AllModels)
  /\ copy \in [step : {"none", "copying", "succeeded", "failed"},
               loadAfter : BOOLEAN]
  /\ cooked \in SUBSET (AllModels \X Profiles)
  /\ load.import \in Tasks \cup {NoTask}
  /\ wanted \in AllModels \cup {Scene, NoTask}
  /\ moved \in BOOLEAN
  /\ changes \in 0 .. MaxChanges
  /\ main \in {"running", "closing", "waiting", "joining", "exited"}

\* The invariant, by the predicates above.
LEMMA InvariantGives ==
  ASSUME WorkflowInvariant
  PROVE  /\ ImportSound /\ RestTypeOK /\ ctl \in Controller
         /\ StatusesSound(ctl, Now, issued)
         /\ \A t \in ctl.processed : t # canceller
         /\ Waiting(ctl, Now, issued, wanted, moved)
         /\ EntriesStayInPlace
<1>1. ImportSound /\ RestTypeOK /\ ctl \in Controller /\ EntriesStayInPlace
  BY DEF WorkflowInvariant, WorkflowTypeOK, RestTypeOK, ImportSound
<1>2. Shown(ctl)
  BY DEF WorkflowInvariant, StatusIsShown, Shown
<1>3. ProcessedEnded(ctl, Now) /\ \A t \in ctl.processed : t # canceller
  BY DEF WorkflowInvariant, ProcessedIsDone, ProcessedEnded, Now, Done
<1>4. Awaited(ctl, Now, issued)
  BY DEF WorkflowInvariant, ImportingIsCurrent, Awaited, Now
<1>5. Waiting(ctl, Now, issued, wanted, moved)
  BY DEF WorkflowInvariant, ConsumersOfTheChoice, Waiting, Now
<1>. QED BY <1>1, <1>2, <1>3, <1>4, <1>5 DEF StatusesSound

LEMMA InvariantFollows ==
  ASSUME ImportSound', RestTypeOK',
         StatusesSound(ctl', After, issued'),
         \A t \in ctl'.processed : t # canceller',
         Waiting(ctl', After, issued', wanted', moved'),
         EntriesStayInPlace'
  PROVE  WorkflowInvariant'
<1>1. ctl' \in Controller
  BY DEF StatusesSound
<1>2. StatusIsShown'
  BY DEF StatusesSound, StatusIsShown, Shown
<1>3. ProcessedIsDone'
  BY DEF StatusesSound, ProcessedIsDone, ProcessedEnded, After, Done
<1>4. ImportingIsCurrent'
  BY DEF StatusesSound, ImportingIsCurrent, Awaited, After
<1>5. ConsumersOfTheChoice'
  BY DEF ConsumersOfTheChoice, Waiting, After
<1>6. WorkflowTypeOK'
  BY <1>1 DEF WorkflowTypeOK, RestTypeOK, ImportSound
<1>. QED BY <1>2, <1>3, <1>4, <1>5, <1>6 DEF WorkflowInvariant, ImportSound

\* What the threads may do to the queue.
ImportStep ==
  \/ \E k \in Keys : Request(k)
  \/ \E t : CancelBegin(t)
  \/ CancelEnd
  \/ StopImports
  \/ WorkerStep
  \/ ToolSays
  \/ UNCHANGED importVars

LEMMA ImportSteps ==
  ASSUME ImportSound, ImportStep
  PROVE  /\ ImportSound'
         /\ \A t \in Tasks : Done(t) /\ t # canceller => state'[t] \in Terminal /\ t # canceller'
         /\ issued <= issued' /\ \A t \in 1 .. issued : key'[t] = key[t]
         /\ TasksAre(Now, issued) /\ TasksAre(After, issued')
<1>1. ImportTypeOK /\ QueueSound
  BY DEF ImportSound
<1>2. ASSUME NEW k \in Keys, Request(k)
      PROVE  /\ ImportSound'
             /\ \A t \in Tasks : Done(t) /\ t # canceller => state'[t] \in Terminal /\ t # canceller'
             /\ issued <= issued' /\ \A t \in 1 .. issued : key'[t] = key[t]
  <2>1. ImportSound'
    BY <1>2, RequestKeeps
  <2>2. PICK t : t = TaskFor(k)
    OBVIOUS
  <2>3. /\ UNCHANGED <<state, canceller>>
        /\ \/ UNCHANGED <<key, issued>>
           \/ t = issued + 1 /\ issued' = issued + 1 /\ key' = [key EXCEPT ![t] = k]
    BY <1>2, <2>2, RequestSteps
  <2>4. issued \in Nat /\ key \in [Tasks -> Keys \cup {NoKey}] /\ 1 .. issued \subseteq Tasks
    BY <1>1, ImportAssumption DEF ImportTypeOK, Tasks
  <2>5. \A u \in 1 .. issued : key'[u] = key[u]
    BY <2>3, <2>4
  <2>. QED BY <2>1, <2>3, <2>4, <2>5 DEF Done
<1>3. ASSUME \/ \E t : CancelBegin(t)
             \/ CancelEnd
             \/ StopImports
             \/ UNCHANGED importVars
      PROVE  /\ ImportSound'
             /\ \A t \in Tasks : Done(t) /\ t # canceller => state'[t] \in Terminal /\ t # canceller'
             /\ UNCHANGED <<issued, key>>
  <2>1. ImportSound'
    BY <1>3, CancelKeeps
  <2>2. UNCHANGED <<issued, key>>
    BY <1>3 DEF CancelBegin, CancelEnd, StopImports, importVars, taskVars, queueVars
  <2>3. ASSUME NEW t, CancelBegin(t)
        PROVE  \A u \in Tasks : Done(u) /\ u # canceller => state'[u] \in Terminal /\ u # canceller'
    BY <2>3 DEF CancelBegin, Done
  <2>4. CASE CancelEnd
    <3>1. canceller' = NoTask /\ NoTask \notin Tasks
      BY <1>1, <2>4, QueuedAreTasks DEF CancelEnd
    <3>2. \A u \in Tasks \ {canceller} : state'[u] = state[u]
      BY <1>1, <2>4 DEF CancelEnd, ImportTypeOK
    <3>. QED BY <2>1, <2>2, <3>1, <3>2 DEF Done
  <2>5. CASE StopImports \/ UNCHANGED importVars
    BY <2>1, <2>2, <2>5 DEF StopImports, importVars, taskVars, Done
  <2>. QED BY <1>3, <2>1, <2>2, <2>3, <2>4, <2>5
<1>4. ASSUME WorkerStep \/ ToolSays
      PROVE  /\ ImportSound'
             /\ \A t \in Tasks : Done(t) /\ t # canceller => state'[t] \in Terminal /\ t # canceller'
             /\ UNCHANGED <<issued, key>>
  <2>1. \/ Take
        \/ ToolPublishes \/ ToolCompletes \/ (\E exit \in {"good", "bad"} : ToolExits(exit))
             \/ CancelPoll \/ Judge \/ StoreVerdict \/ Stop
        \/ Finish
    BY <1>4 DEF WorkerStep, ToolSays
  <2>2. ImportSound' /\ \A t \in Tasks : Done(t) => Done(t)'
    BY <2>1, TakeKeeps, RunKeeps, FinishKeeps
  <2>3. UNCHANGED <<issued, key, canceller>>
    BY <2>1 DEF Take, ToolPublishes, ToolCompletes, ToolExits, CancelPoll, Judge, StoreVerdict, Stop,
                Finish, taskVars
  <2>. QED BY <2>2, <2>3 DEF Done
<1>5. /\ ImportSound'
      /\ \A t \in Tasks : Done(t) /\ t # canceller => state'[t] \in Terminal /\ t # canceller'
      /\ issued <= issued' /\ \A t \in 1 .. issued : key'[t] = key[t]
  <2>1. issued \in Nat
    BY <1>1, ImportAssumption DEF ImportTypeOK
  <2>. QED BY <1>2, <1>3, <1>4, <2>1 DEF ImportStep
<1>6. TasksAre(Now, issued)
  BY <1>1, WorkflowAssumption DEF ImportTypeOK, QueueSound, TasksAre, Now
<1>7. TasksAre(After, issued')
  <2>1. ImportTypeOK' /\ QueueSound'
    BY <1>5 DEF ImportSound
  <2>. QED BY <2>1, WorkflowAssumption DEF ImportTypeOK, QueueSound, TasksAre, After
<1>. QED BY <1>5, <1>6, <1>7

LEMMA LaterTasks ==
  ASSUME ImportSound, ImportStep, NEW c, StatusesSound(c, Now, issued),
         \A t \in c.processed : t # canceller
  PROVE  StatusesSound(c, After, issued') /\ \A t \in c.processed : t # canceller'
<1>1. c \in Controller /\ ProcessedEnded(c, Now) /\ Shown(c) /\ Awaited(c, Now, issued)
  BY DEF StatusesSound
<1>2. /\ \A t \in Tasks : Done(t) /\ t # canceller => state'[t] \in Terminal /\ t # canceller'
      /\ issued <= issued' /\ \A t \in 1 .. issued : key'[t] = key[t]
      /\ issued \in Nat /\ issued' \in Nat
  BY ImportSteps, ImportAssumption DEF TasksAre
<1>3. c.processed \subseteq Tasks
  BY <1>1 DEF Controller
<1>4. ProcessedEnded(c, After) /\ \A t \in c.processed : t # canceller'
  BY <1>1, <1>2, <1>3 DEF ProcessedEnded, Now, After, Done
<1>5. Awaited(c, After, issued')
  <2>1. \A t \in 1 .. issued : t \in 1 .. issued'
    BY <1>2
  <2>. QED BY <1>1, <1>2, <2>1 DEF Awaited, Now, After
<1>. QED BY <1>1, <1>4, <1>5 DEF StatusesSound

LEMMA LaterConsumers ==
  ASSUME ImportSound, ImportStep, NEW c, NEW w, NEW hasMoved, Waiting(c, Now, issued, w, hasMoved)
  PROVE  Waiting(c, After, issued', w, hasMoved)
<1>1. /\ issued <= issued' /\ \A t \in 1 .. issued : key'[t] = key[t]
      /\ issued \in Nat /\ issued' \in Nat
  BY ImportSteps, ImportAssumption DEF TasksAre
<1>2. \A t \in Tasks : t <= issued => t <= issued' /\ key'[t] = key[t]
  BY <1>1, ImportAssumption DEF Tasks
<1>3. Now.key = key /\ After.key = key'
  BY DEF Now, After
<1>. QED BY <1>2, <1>3 DEF Waiting

\* What a validation's end changes is no part of it.
LEMMA SameStatuses ==
  ASSUME NEW c, NEW d \in Controller, NEW v, NEW n, NEW w, NEW hasMoved,
         d.entries = c.entries, d.limit = c.limit, d.status = c.status,
         d.generation = c.generation, d.consumers = c.consumers, d.processed = c.processed
  PROVE  /\ StatusesSound(c, v, n) => StatusesSound(d, v, n)
         /\ Waiting(c, v, n, w, hasMoved) => Waiting(d, v, n, w, hasMoved)
<1>1. StatusesSound(c, v, n) => StatusesSound(d, v, n)
  BY DEF StatusesSound, ProcessedEnded, Shown, Awaited
<1>2. Waiting(c, v, n, w, hasMoved) => Waiting(d, v, n, w, hasMoved)
  BY DEF Waiting
<1>. QED BY <1>1, <1>2

LEMMA ValidationSeenIs ==
  ASSUME NEW c \in Controller, NEW d \in ValidationSeen(c)
  PROVE  /\ d \in Controller
         /\ d.entries = c.entries /\ d.limit = c.limit /\ d.status = c.status
         /\ d.generation = c.generation /\ d.consumers = c.consumers /\ d.processed = c.processed
<1>. DEFINE taken == [c EXCEPT !.validation = NoTask]
<1>1. d = c \/ d = taken \/ d = [taken EXCEPT !.dialog = TRUE]
  BY DEF ValidationSeen
<1>2. CASE d = c
  BY <1>2
<1>3. CASE d = taken
  BY <1>3 DEF Controller
<1>4. CASE d = [taken EXCEPT !.dialog = TRUE]
  BY <1>4 DEF Controller
<1>. QED BY <1>1, <1>2, <1>3, <1>4

LEMMA CatalogEntries ==
  ASSUME NEW models \in Seq(AllModels)
  PROVE  /\ Entries(models) \in Seq(AllModels \cup {Scene})
         /\ ToSet(Entries(models)) = ToSet(models) \cup {Scene}
         /\ Len(Entries(models)) = Len(models) + 1
         /\ \A i \in DOMAIN models : i \in DOMAIN Entries(models) /\ Entries(models)[i] = models[i]
         /\ \A i \in DOMAIN Entries(models) : IsModel(Entries(models)[i]) => i \in DOMAIN models
<1>1. models \in Seq(AllModels \cup {Scene}) /\ Scene \in AllModels \cup {Scene}
  OBVIOUS
<1>2. Entries(models) \in Seq(AllModels \cup {Scene}) /\ ToSet(Entries(models)) = ToSet(models) \cup {Scene}
  BY <1>1, AppendedSet DEF Entries
<1>3. /\ Len(Entries(models)) = Len(models) + 1
      /\ \A i \in 1 .. Len(models) : Entries(models)[i] = models[i]
      /\ Entries(models)[Len(models) + 1] = Scene
  BY <1>1, AppendProperties DEF Entries
<1>4. Scene \notin AllModels
  BY WorkflowAssumption DEF AllModels
<1>5. DOMAIN models = 1 .. Len(models) /\ DOMAIN Entries(models) = 1 .. (Len(models) + 1) /\ Len(models) \in Nat
  BY <1>2, <1>3
<1>. QED BY <1>2, <1>3, <1>4, <1>5 DEF IsModel

LEMMA FreshIs ==
  ASSUME NEW c, c = Fresh(Models)
  PROVE  /\ c \in Controller /\ Shown(c) /\ c.processed = {} /\ c.generation = 0
         /\ SetToSeq(Models) \in Seq(AllModels) /\ c.entries = Entries(SetToSeq(Models))
         /\ \A t \in Tasks : c.consumers[t] = <<>>
         /\ \A m \in AllModels, p \in Profiles : c.status[<<m, p>>] # "importing"
<1>. DEFINE models == SetToSeq(Models)
            st == [a \in AllModels \X Profiles |->
                     IF a[1] \in Models /\ a[2] = FirstProfile THEN "missing" ELSE "none"]
            waiting == [t \in Tasks |-> <<>>]
<1>1. models \in Seq(Models) /\ ToSet(models) = Models
  BY WorkflowAssumption, FiniteSetAsSequence
<1>2. models \in Seq(AllModels)
  <2>1. Models \subseteq AllModels
    BY DEF AllModels
  <2>. HIDE DEF models
  <2>. QED BY <1>1, <2>1
<1>3. Entries(models) \in Seq(AllModels \cup {Scene}) /\ ToSet(Entries(models)) = Models \cup {Scene}
  BY <1>1, <1>2, CatalogEntries
<1>4. FirstProfile \in Profiles
  BY WorkflowAssumption DEF FirstProfile
<1>5. st \in [AllModels \X Profiles -> Statuses]
  BY DEF Statuses
<1>6. \A m \in AllModels, p \in Profiles :
         st[<<m, p>>] = IF m \in Models /\ p = FirstProfile THEN "missing" ELSE "none"
  OBVIOUS
<1>7. waiting \in [Tasks -> Seq(Consumer)] /\ \A t \in Tasks : waiting[t] = <<>>
  OBVIOUS
<1>8. /\ c = [entries |-> Entries(models), limit |-> FirstProfile, status |-> st, generation |-> 0,
              consumers |-> waiting, processed |-> {}, validation |-> NoTask, dialog |-> FALSE]
  BY DEF Fresh
<1>. HIDE DEF models, st, waiting
<1>9. 0 \in 0 .. MaxOperations + 1 /\ MaxOperations \in Nat
  BY WorkflowAssumption
<1>10. c \in Controller
  BY <1>3, <1>4, <1>5, <1>7, <1>8, <1>9 DEF Controller
<1>11. Shown(c)
  BY <1>3, <1>6, <1>8 DEF Shown
<1>12. \A m \in AllModels, p \in Profiles : c.status[<<m, p>>] # "importing"
  <2>1. c.status = st
    BY <1>8
  <2>. QED BY <1>6, <2>1
<1>. QED BY <1>2, <1>7, <1>8, <1>10, <1>11, <1>12 DEF models

LEMMA ReloadedSound ==
  ASSUME NEW v, NEW n, TasksAre(v, n), v = Now, NEW c \in Controller, ProcessedEnded(c, v),
         NEW models \in Seq(AllModels), NEW d, d = Reloaded(c, models)
  PROVE  /\ StatusesSound(d, v, n)
         /\ d.entries = Entries(models) /\ d.limit = c.limit /\ d.generation = c.generation
         /\ d.consumers = c.consumers /\ d.processed = c.processed
         /\ d.validation = c.validation /\ d.dialog = c.dialog
<1>1. PICK e : e = [c EXCEPT !.entries = Entries(models)]
  OBVIOUS
<1>2. Entries(models) \in Seq(AllModels \cup {Scene})
  BY CatalogEntries
<1>3. /\ e \in Controller /\ e.entries = Entries(models) /\ e.limit = c.limit
      /\ e.generation = c.generation /\ e.consumers = c.consumers /\ e.processed = c.processed
      /\ e.validation = c.validation /\ e.dialog = c.dialog
  BY <1>1, <1>2 DEF Controller
<1>4. ProcessedEnded(e, v)
  BY <1>3 DEF ProcessedEnded
<1>5. d = RefreshAll(e)
  BY <1>1 DEF Reloaded
<1>. QED BY <1>3, <1>4, <1>5, RefreshAllSound

\* The controller is left alone, or what is changed of it is no part of the
\* invariants, while the queue goes on.
LEMMA ControllerLeftAlone ==
  ASSUME WorkflowInvariant, ImportStep, UNCHANGED <<wanted, moved>>, ctl' \in Controller,
         ctl'.entries = ctl.entries, ctl'.limit = ctl.limit, ctl'.status = ctl.status,
         ctl'.generation = ctl.generation, ctl'.consumers = ctl.consumers,
         ctl'.processed = ctl.processed,
         RestTypeOK', EntriesStayInPlace'
  PROVE  WorkflowInvariant'
<1>1. /\ ImportSound /\ StatusesSound(ctl, Now, issued)
      /\ \A t \in ctl.processed : t # canceller
      /\ Waiting(ctl, Now, issued, wanted, moved)
  BY InvariantGives
<1>2. ImportSound'
  BY <1>1, ImportSteps
<1>3. StatusesSound(ctl, After, issued') /\ \A t \in ctl.processed : t # canceller'
  BY <1>1, LaterTasks
<1>4. Waiting(ctl, After, issued', wanted, moved)
  BY <1>1, LaterConsumers
<1>5. StatusesSound(ctl', After, issued') /\ \A t \in ctl'.processed : t # canceller'
  BY <1>3, SameStatuses
<1>6. Waiting(ctl', After, issued', wanted', moved')
  BY <1>4, SameStatuses
<1>. QED BY <1>2, <1>5, <1>6, InvariantFollows

\* requestEntry.
LEMMA RequestedSound ==
  ASSUME ImportSound, MutexFree, NEW c, StatusesSound(c, Now, issued),
         \A t \in c.processed : t # canceller,
         NEW w, NEW hasMoved, Waiting(c, Now, issued, w, hasMoved),
         NEW r, r.index \in DOMAIN c.entries, RequestImport(c, r),
         NEW d, d = Requested(c, r, After)
  PROVE  /\ ImportStep /\ UNCHANGED <<state, canceller>>
         /\ wanted' \in AllModels \cup {Scene, NoTask} /\ moved' \in BOOLEAN
         /\ StatusesSound(d, After, issued') /\ d.entries = c.entries
         /\ \A t \in c.processed : t # canceller'
         /\ d.processed = c.processed
         /\ Waiting(d, After, issued', wanted', moved')
         /\ \A t \in Tasks : \A k \in DOMAIN d.consumers[t] :
               d.consumers[t][k].generation = d.generation => ~Done(t)
<1>. DEFINE m == c.entries[r.index]
            k == TextureKey(m, c.limit)
            g == c.generation + 1
            begun == [c EXCEPT !.generation = g]
<1>1. c \in Controller /\ c.generation < MaxOperations
  BY DEF StatusesSound, RequestImport
<1>2. m \in AllModels \cup {Scene} /\ c.limit \in Profiles /\ c.generation \in Nat
  BY <1>1, WorkflowAssumption DEF Controller
<1>3. ~Direct(c, r) => IsModel(m) /\ ~r.source /\ k \in Keys /\ Request(k)
  <2>1. ~Direct(c, r) => IsModel(m) /\ ~r.source
    BY DEF Direct
  <2>2. ~Direct(c, r) => Request(k)
    BY DEF RequestImport
  <2>3. IsModel(m) => k \in Keys
    BY <1>2, TextureKeyIs, WorkflowAssumption DEF IsModel
  <2>. QED BY <2>1, <2>2, <2>3
<1>4. ImportStep
  BY <1>3 DEF ImportStep, RequestImport
<1>5. UNCHANGED <<state, canceller>>
  BY <1>3 DEF RequestImport, Request, importVars, taskVars
<1>6. /\ wanted' = IF ~Direct(c, r) /\ r.loadAfter THEN m ELSE NoTask
      /\ moved' = FALSE
  BY DEF RequestImport
<1>7. StatusesSound(c, After, issued') /\ \A t \in c.processed : t # canceller'
  BY <1>4, LaterTasks
<1>8. Waiting(c, After, issued', w, hasMoved)
  BY <1>4, LaterConsumers
<1>9. TasksAre(After, issued')
  BY <1>4, ImportSteps
<1>10. /\ begun \in Controller /\ begun.entries = c.entries /\ begun.limit = c.limit
       /\ begun.status = c.status /\ begun.consumers = c.consumers /\ begun.processed = c.processed
       /\ begun.generation = g
  <2>1. g \in 0 .. MaxOperations + 1
    BY <1>1, <1>2, WorkflowAssumption
  <2>. HIDE DEF g
  <2>. QED BY <1>1, <2>1 DEF Controller
<1>11. \A t \in Tasks : \A i \in DOMAIN c.consumers[t] : c.consumers[t][i].generation <= c.generation
  BY <1>8 DEF Waiting
<1>12. \A t \in Tasks : \A i \in DOMAIN c.consumers[t] :
          c.consumers[t][i] \in Consumer
  BY <1>1 DEF Controller
<1>13. \A t \in Tasks : \A i \in DOMAIN c.consumers[t] :
          c.consumers[t][i].generation <= g /\ c.consumers[t][i].generation # g
  BY <1>2, <1>11, <1>12 DEF Consumer
<1>14. StatusesSound(begun, After, issued')
  <2>1. ProcessedEnded(c, After) /\ Shown(c) /\ Awaited(c, After, issued')
    BY <1>7 DEF StatusesSound
  <2>. HIDE DEF begun
  <2>. QED BY <1>10, <2>1 DEF StatusesSound, ProcessedEnded, Shown, Awaited
<1>. HIDE DEF begun, g
<1>15. Waiting(begun, After, issued', wanted', moved')
  BY <1>10, <1>13 DEF Waiting
<1>16. \A t \in Tasks : \A i \in DOMAIN begun.consumers[t] : begun.consumers[t][i].generation # begun.generation
  BY <1>10, <1>13
<1>17. CASE ~IsModel(m) \/ r.source
  <2>1. d = begun
    BY <1>17 DEF Requested, begun, g
  <2>. QED BY <1>2, <1>4, <1>5, <1>6, <1>7, <1>10, <1>14, <1>15, <1>16, <2>1
<1>18. CASE ~(~IsModel(m) \/ r.source) /\ (Direct(c, r) \/ ~r.loadAfter)
  <2>1. d = RefreshStatus(begun, r.index, After)
    BY <1>18 DEF Requested, begun, g
  <2>2. /\ StatusesSound(d, After, issued')
        /\ d.entries = c.entries /\ d.generation = begun.generation
        /\ d.consumers = begun.consumers /\ d.processed = c.processed
    BY <1>9, <1>10, <1>14, <2>1, RefreshStatusSound
  <2>3. Waiting(d, After, issued', wanted', moved')
    BY <1>10, <1>15, <2>2, FewerWait
  <2>. QED BY <1>2, <1>4, <1>5, <1>6, <1>7, <1>16, <2>2, <2>3
<1>19. CASE ~(~IsModel(m) \/ r.source) /\ ~Direct(c, r) /\ r.loadAfter
  <2>1. PICK t : t = TaskFor(k)
    OBVIOUS
  <2>2. t \in 1 .. issued' /\ ~Done(t) /\ key'[t] = k /\ t \in Tasks /\ t <= issued'
    <3>1. t \in 1 .. issued' /\ ~Done(t) /\ key'[t] = k
      BY <1>3, <1>19, <2>1, RequestSteps
    <3>. QED BY <1>9, <3>1, ImportAssumption DEF TasksAre, Tasks
  <2>. DEFINE x == [generation |-> g, index |-> r.index]
              q == Append(c.consumers[t], x)
              attached == [begun EXCEPT !.consumers = [begun.consumers EXCEPT ![t] = q]]
  <2>3. d = RefreshStatus(attached, r.index, After)
    BY <1>10, <1>19, <2>1 DEF Requested, begun, g
  <2>4. x \in Consumer /\ x.generation = g /\ x.index = r.index
    BY <1>1, <1>2 DEF Consumer, g, Controller
  <2>. HIDE DEF x
  <2>5. /\ q \in Seq(Consumer) /\ \A i \in DOMAIN q : q[i] = x \/ (i \in DOMAIN c.consumers[t] /\ q[i] = c.consumers[t][i])
    <3>1. c.consumers[t] \in Seq(Consumer)
      BY <1>1, <2>2 DEF Controller
    <3>. QED BY <2>4, <3>1, AppendProperties
  <2>. HIDE DEF q
  <2>6. /\ attached \in Controller /\ attached.entries = c.entries /\ attached.limit = c.limit
        /\ attached.status = c.status /\ attached.processed = c.processed
        /\ attached.generation = g
        /\ attached.consumers = [begun.consumers EXCEPT ![t] = q]
    BY <1>10, <2>5 DEF Controller
  <2>7. \A u \in Tasks : attached.consumers[u] = IF u = t THEN q ELSE c.consumers[u]
    <3>1. begun.consumers \in [Tasks -> Seq(Consumer)]
      BY <1>10 DEF Controller
    <3>. QED BY <1>10, <2>2, <2>6, <3>1
  <2>. HIDE DEF attached
  <2>8. StatusesSound(attached, After, issued')
    <3>1. ProcessedEnded(c, After) /\ Shown(c) /\ Awaited(c, After, issued')
      BY <1>7 DEF StatusesSound
    <3>. QED BY <2>6, <3>1 DEF StatusesSound, ProcessedEnded, Shown, Awaited
  <2>9. \A u \in Tasks : \A i \in DOMAIN attached.consumers[u] :
           \/ u = t /\ attached.consumers[u][i] = x
           \/ attached.consumers[u][i].generation <= g /\ attached.consumers[u][i].generation # g
    BY <1>13, <2>5, <2>7
  <2>10. IsModel(m) /\ wanted' = m /\ After.key[t][2] = m /\ moved' = FALSE /\ m = attached.entries[x.index]
         /\ x.index \in DOMAIN attached.entries /\ g <= g
    <3>1. After.key[t][2] = m
      BY <2>2, TextureKeyIs DEF After
    <3>. QED BY <1>2, <1>6, <1>19, <2>4, <2>6, <3>1 DEF g
  <2>11. Waiting(attached, After, issued', wanted', moved')
    BY <2>2, <2>4, <2>6, <2>9, <2>10 DEF Waiting
  <2>12. /\ StatusesSound(d, After, issued')
         /\ d.entries = attached.entries /\ d.generation = attached.generation
         /\ d.consumers = attached.consumers /\ d.processed = attached.processed
    BY <1>9, <2>3, <2>8, RefreshStatusSound
  <2>13. Waiting(d, After, issued', wanted', moved')
    BY <2>11, <2>12, FewerWait
  <2>14. \A u \in Tasks : \A i \in DOMAIN d.consumers[u] :
            d.consumers[u][i].generation = d.generation => ~Done(u)
    BY <2>2, <2>6, <2>9, <2>12
  <2>. QED BY <1>2, <1>4, <1>5, <1>6, <1>7, <2>6, <2>12, <2>13, <2>14
<1>. QED BY <1>17, <1>18, <1>19

-----------------------------------------------------------------------------
(* The actions.                                                             *)

LEMMA WorkflowStarts == WorkflowInit => WorkflowInvariant
<1>. SUFFICES ASSUME WorkflowInit PROVE WorkflowInvariant
  OBVIOUS
<1>1. /\ ImportInit /\ catalog = SetToSeq(Models) /\ ctl = Fresh(Models) /\ copy = NoCopy /\ cooked = {}
      /\ load = NoLoad /\ wanted = NoTask /\ moved = FALSE /\ changes = 0 /\ main = "running"
  BY DEF WorkflowInit
<1>2. ImportSound
  BY <1>1, ImportInitSound
<1>3. /\ ctl \in Controller /\ Shown(ctl) /\ ctl.processed = {}
      /\ SetToSeq(Models) \in Seq(AllModels) /\ ctl.entries = Entries(SetToSeq(Models))
      /\ \A t \in Tasks : ctl.consumers[t] = <<>>
      /\ \A m \in AllModels, p \in Profiles : ctl.status[<<m, p>>] # "importing"
  BY <1>1, FreshIs
<1>4. catalog \in Seq(AllModels) /\ ctl.entries = Entries(catalog)
  BY <1>1, <1>3
<1>5. WorkflowTypeOK
  <2>1. copy \in [step : {"none", "copying", "succeeded", "failed"}, loadAfter : BOOLEAN]
    BY <1>1 DEF NoCopy
  <2>2. load.import \in Tasks \cup {NoTask} /\ changes \in 0 .. MaxChanges
    BY <1>1, WorkflowAssumption DEF NoLoad
  <2>. QED BY <1>1, <1>2, <1>3, <1>4, <2>1, <2>2 DEF WorkflowTypeOK, ImportSound
<1>6. ImportingIsCurrent /\ ProcessedIsDone /\ StatusIsShown /\ EntriesStayInPlace
  BY <1>3, <1>4 DEF ImportingIsCurrent, ProcessedIsDone, StatusIsShown, Shown, EntriesStayInPlace
<1>7. ConsumersOfTheChoice
  BY <1>3 DEF ConsumersOfTheChoice
<1>. QED BY <1>2, <1>5, <1>6, <1>7 DEF WorkflowInvariant, ImportSound

\* An entry that was asked for is loaded from no import.
LEMMA LoadRequestedIs ==
  ASSUME NEW c, NEW r
  PROVE  LoadRequested(c, r).import = NoTask
BY DEF LoadRequested, NoLoad

LEMMA PickEntryKeeps ==
  ASSUME WorkflowInvariant, PickEntry
  PROVE  WorkflowInvariant'
<1>1. /\ ImportSound /\ RestTypeOK /\ ctl \in Controller /\ StatusesSound(ctl, Now, issued)
      /\ \A t \in ctl.processed : t # canceller
      /\ Waiting(ctl, Now, issued, wanted, moved) /\ EntriesStayInPlace
  BY InvariantGives
<1>2. PICK i \in DOMAIN ctl.entries :
        \E r \in {Ask(i, FALSE, TRUE, FALSE), Ask(i, TRUE, TRUE, FALSE), Ask(i, FALSE, FALSE, TRUE)} :
           /\ RequestImport(ctl, r)
           /\ ctl' = Requested(ctl, r, After)
           /\ load' = LoadRequested(ctl, r)
  BY DEF PickEntry
<1>3. PICK r : /\ r.index = i /\ RequestImport(ctl, r)
               /\ ctl' = Requested(ctl, r, After)
               /\ load' = LoadRequested(ctl, r)
  BY <1>2 DEF Ask
<1>4. MutexFree /\ UNCHANGED <<catalog, copy, cooked, changes, main>>
  BY DEF PickEntry, MainFree
<1>5. r.index \in DOMAIN ctl.entries
  BY <1>3
<1>6. /\ ImportStep
      /\ wanted' \in AllModels \cup {Scene, NoTask} /\ moved' \in BOOLEAN
      /\ StatusesSound(ctl', After, issued') /\ ctl'.entries = ctl.entries
      /\ \A t \in ctl.processed : t # canceller'
      /\ ctl'.processed = ctl.processed
      /\ Waiting(ctl', After, issued', wanted', moved')
  BY <1>1, <1>3, <1>4, <1>5, RequestedSound
<1>7. ImportSound'
  BY <1>1, <1>6, ImportSteps
<1>8. RestTypeOK'
  BY <1>1, <1>3, <1>4, <1>6, LoadRequestedIs DEF RestTypeOK
<1>9. EntriesStayInPlace'
  BY <1>1, <1>4, <1>6 DEF EntriesStayInPlace
<1>. QED BY <1>6, <1>7, <1>8, <1>9, InvariantFollows

LEMMA ProcessedLoadIs ==
  ASSUME NEW v, NEW n, TasksAre(v, n), NEW c \in Controller, NEW l, l.import = NoTask,
         NEW d, d = ProcessedLoad(c, l, v)
  PROVE  /\ d.import \in Tasks \cup {NoTask}
         /\ d.import # NoTask =>
              /\ d.import \in Loading(c, v)
              /\ d.entry = c.entries[LatestScene(c, d.import)]
              /\ d.generation = c.generation
<1>1. CASE Loading(c, v) = {}
  BY <1>1 DEF ProcessedLoad
<1>2. CASE Loading(c, v) # {}
  <2>1. Loading(c, v) \subseteq Tasks
    BY LoadingIs
  <2>2. Loading(c, v) \in SUBSET Nat
    BY <2>1, ImportAssumption DEF Tasks
  <2>3. PICK t : t = Min(Loading(c, v))
    OBVIOUS
  <2>4. t \in Loading(c, v)
    BY <1>2, <2>2, <2>3, SmallestIsIn
  <2>5. d = [entry |-> c.entries[LatestScene(c, t)], generation |-> c.generation, import |-> t]
    BY <1>2, <2>3 DEF ProcessedLoad
  <2>. QED BY <2>1, <2>4, <2>5
<1>. QED BY <1>1, <1>2

\* processAssetTasks, after whatever came before it in the pump: d are the
\* controller's members after it.
LEMMA ProcessKeeps ==
  ASSUME ImportSound, ImportStep, MutexFree, UNCHANGED canceller,
         NEW v, v = After, NEW c, StatusesSound(c, v, issued'),
         Waiting(c, v, issued', wanted', moved'),
         NEW l, l.import = NoTask, ProcessAssetTasks(c, l, v)
  PROVE  /\ ImportSound' /\ StatusesSound(ctl', After, issued')
         /\ \A t \in ctl'.processed : t # canceller'
         /\ Waiting(ctl', After, issued', wanted', moved')
         /\ ctl'.entries = c.entries
         /\ load'.import \in Tasks \cup {NoTask}
<1>1. ImportSound' /\ TasksAre(v, issued')
  BY ImportSteps
<1>2. ctl' = Processed(c, v) /\ load' = ProcessedLoad(c, l, v)
  BY DEF ProcessAssetTasks
<1>3. /\ StatusesSound(ctl', v, issued')
      /\ ctl'.entries = c.entries /\ ctl'.limit = c.limit /\ ctl'.generation = c.generation
      /\ \A t \in Tasks : ctl'.consumers[t] = c.consumers[t] \/ ctl'.consumers[t] = <<>>
  BY <1>1, <1>2, ProcessedSound
<1>4. Waiting(ctl', v, issued', wanted', moved')
  BY <1>3, FewerWait
<1>5. \A t \in ctl'.processed : t # canceller'
  <2>1. ctl'.processed \subseteq Tasks
    BY <1>3 DEF StatusesSound, Controller
  <2>2. canceller' = NoTask /\ NoTask \notin Tasks
    BY QueuedAreTasks DEF MutexFree, ImportSound
  <2>. QED BY <2>1, <2>2
<1>6. c \in Controller
  BY DEF StatusesSound
<1>7. load'.import \in Tasks \cup {NoTask}
  BY <1>1, <1>2, <1>6, ProcessedLoadIs
<1>. QED BY <1>1, <1>3, <1>4, <1>5, <1>7

\* What the pump starts from.
LEMMA SeenIs ==
  ASSUME WorkflowInvariant, NEW c \in ValidationSeen(ctl)
  PROVE  /\ c \in Controller /\ c.entries = ctl.entries /\ c.generation = ctl.generation
         /\ c.consumers = ctl.consumers /\ c.processed = ctl.processed
         /\ StatusesSound(c, Now, issued) /\ Waiting(c, Now, issued, wanted, moved)
         /\ \A t \in c.processed : t # canceller
<1>1. /\ ctl \in Controller /\ StatusesSound(ctl, Now, issued)
      /\ \A t \in ctl.processed : t # canceller
      /\ Waiting(ctl, Now, issued, wanted, moved)
  BY InvariantGives
<1>2. /\ c \in Controller
      /\ c.entries = ctl.entries /\ c.limit = ctl.limit /\ c.status = ctl.status
      /\ c.generation = ctl.generation /\ c.consumers = ctl.consumers /\ c.processed = ctl.processed
  BY <1>1, ValidationSeenIs
<1>3. StatusesSound(c, Now, issued)
  BY <1>1, <1>2, SameStatuses
<1>4. Waiting(c, Now, issued, wanted, moved)
  BY <1>1, <1>2, SameStatuses
<1>. QED BY <1>1, <1>2, <1>3, <1>4

LEMMA PumpWithoutCopyKeeps ==
  ASSUME WorkflowInvariant, Pump, PumpWithoutCopy
  PROVE  WorkflowInvariant'
<1>1. ImportSound /\ RestTypeOK /\ EntriesStayInPlace
  BY InvariantGives
<1>2. PICK c \in ValidationSeen(ctl) : ProcessAssetTasks(c, NoLoad, Now)
  BY DEF PumpWithoutCopy
<1>3. /\ UNCHANGED <<importVars, wanted, moved, catalog, cooked, changes, main>> /\ MutexFree
      /\ copy' = IF copy.step = "failed" THEN NoCopy ELSE copy
  BY DEF Pump, PumpWithoutCopy, MainFree
<1>4. Now = After /\ issued' = issued /\ canceller' = canceller
  BY <1>3 DEF Now, After, importVars, taskVars, queueVars
<1>5. ImportStep
  BY <1>3 DEF ImportStep
<1>6. /\ c.entries = ctl.entries /\ StatusesSound(c, Now, issued) /\ Waiting(c, Now, issued, wanted, moved)
  BY SeenIs
<1>7. PICK v : v = Now
  OBVIOUS
<1>8. /\ v = After /\ StatusesSound(c, v, issued') /\ Waiting(c, v, issued', wanted', moved')
      /\ ProcessAssetTasks(c, NoLoad, v)
  BY <1>2, <1>3, <1>4, <1>6, <1>7
<1>9. NoLoad.import = NoTask
  BY DEF NoLoad
<1>10. /\ ImportSound' /\ StatusesSound(ctl', After, issued')
       /\ \A t \in ctl'.processed : t # canceller'
       /\ Waiting(ctl', After, issued', wanted', moved')
       /\ ctl'.entries = c.entries
       /\ load'.import \in Tasks \cup {NoTask}
  BY <1>1, <1>3, <1>4, <1>5, <1>8, <1>9, ProcessKeeps
<1>11. RestTypeOK'
  <2>1. copy' \in [step : {"none", "copying", "succeeded", "failed"}, loadAfter : BOOLEAN]
    BY <1>1, <1>3 DEF RestTypeOK, NoCopy
  <2>. QED BY <1>1, <1>3, <1>10, <2>1 DEF RestTypeOK
<1>12. EntriesStayInPlace'
  BY <1>1, <1>3, <1>6, <1>10 DEF EntriesStayInPlace
<1>. QED BY <1>10, <1>11, <1>12, InvariantFollows

\* The entries read again, for the copied model's profile.
FreshFor(c) ==
  RefreshAll([Reloaded(c, catalog) EXCEPT !.dialog = FALSE, !.limit = NewProfile])

LEMMA FreshForIs ==
  ASSUME WorkflowInvariant, NEW c \in ValidationSeen(ctl), NEW d, d = FreshFor(c)
  PROVE  /\ StatusesSound(d, Now, issued)
         /\ d \in Controller /\ d.entries = Entries(catalog) /\ d.generation = ctl.generation
         /\ d.consumers = ctl.consumers /\ d.processed = ctl.processed
         /\ \A t \in d.processed : t # canceller
         /\ Waiting(d, Now, issued, wanted, wanted # NoTask)
<1>1. /\ c \in Controller /\ c.entries = ctl.entries /\ c.generation = ctl.generation
      /\ c.consumers = ctl.consumers /\ c.processed = ctl.processed
      /\ StatusesSound(c, Now, issued) /\ Waiting(c, Now, issued, wanted, moved)
      /\ \A t \in c.processed : t # canceller
  BY SeenIs
<1>2. PICK v : v = Now
  OBVIOUS
<1>3. ImportSound /\ RestTypeOK
  BY InvariantGives
<1>4. ImportTypeOK /\ QueueSound
  BY <1>3 DEF ImportSound
<1>5. TasksAre(v, issued)
  BY <1>2, <1>4, WorkflowAssumption DEF ImportTypeOK, QueueSound, TasksAre, Now
<1>6. ProcessedEnded(c, v) /\ catalog \in Seq(AllModels)
  BY <1>1, <1>2, <1>3 DEF StatusesSound, RestTypeOK
<1>7. PICK e : e = Reloaded(c, catalog)
  OBVIOUS
<1>8. /\ StatusesSound(e, v, issued) /\ e.entries = Entries(catalog) /\ e.generation = c.generation
      /\ e.consumers = c.consumers /\ e.processed = c.processed
  BY <1>1, <1>2, <1>5, <1>6, <1>7, ReloadedSound
<1>9. PICK f : f = [e EXCEPT !.dialog = FALSE, !.limit = NewProfile]
  OBVIOUS
<1>10. /\ f \in Controller /\ f.entries = e.entries /\ f.generation = e.generation
       /\ f.consumers = e.consumers /\ f.processed = e.processed
  <2>1. e \in Controller /\ NewProfile \in Profiles
    BY <1>8, WorkflowAssumption DEF StatusesSound
  <2>. QED BY <1>9, <2>1 DEF Controller
<1>11. ProcessedEnded(f, v)
  BY <1>8, <1>10 DEF StatusesSound, ProcessedEnded
<1>12. d = RefreshAll(f)
  BY <1>7, <1>9 DEF FreshFor
<1>13. /\ StatusesSound(d, v, issued) /\ d.entries = f.entries /\ d.generation = f.generation
       /\ d.consumers = f.consumers /\ d.processed = f.processed
  BY <1>2, <1>5, <1>10, <1>11, <1>12, RefreshAllSound
<1>14. Waiting(d, Now, issued, wanted, wanted # NoTask)
  <2>1. \A m : IsModel(m) => m # NoTask
    BY WorkflowAssumption DEF IsModel, AllModels
  <2>2. d.generation = c.generation /\ d.consumers = c.consumers
    BY <1>8, <1>10, <1>13
  <2>. QED BY <1>1, <2>1, <2>2 DEF Waiting
<1>15. d \in Controller
  BY <1>13 DEF StatusesSound
<1>. QED BY <1>1, <1>2, <1>8, <1>10, <1>13, <1>14, <1>15

\* The two ends of a copy.
LEMMA PumpCopiedSplits ==
  ASSUME PumpCopied
  PROVE  \E c \in ValidationSeen(ctl) : \E d :
           /\ d = FreshFor(c)
           /\ \/ \E r : /\ r.index \in DOMAIN d.entries
                        /\ RequestImport(d, r)
                        /\ ProcessAssetTasks(Requested(d, r, After), LoadRequested(d, r), After)
              \/ /\ ProcessAssetTasks(d, NoLoad, Now)
                 /\ moved' = (wanted # NoTask)
                 /\ UNCHANGED <<importVars, wanted>>
<1>1. PICK c \in ValidationSeen(ctl) :
        LET i == IndexOf(FreshFor(c), NewModel)
            r == Ask(i, FALSE, copy.loadAfter, FALSE)
        IN \/ /\ i # 0
              /\ RequestImport(FreshFor(c), r)
              /\ ProcessAssetTasks(Requested(FreshFor(c), r, After), LoadRequested(FreshFor(c), r), After)
           \/ /\ ProcessAssetTasks(FreshFor(c), NoLoad, Now)
              /\ moved' = (wanted # NoTask)
              /\ UNCHANGED <<importVars, wanted>>
  BY DEF PumpCopied, FreshFor
<1>2. PICK d : d = FreshFor(c)
  OBVIOUS
<1>3. PICK r : r = Ask(IndexOf(d, NewModel), FALSE, copy.loadAfter, FALSE)
  OBVIOUS
<1>4. r.index = IndexOf(d, NewModel)
  BY <1>3 DEF Ask
<1>5. IndexOf(d, NewModel) # 0 => IndexOf(d, NewModel) \in DOMAIN d.entries
  BY DEF IndexOf, ToSet
<1>. QED BY <1>1, <1>2, <1>3, <1>4, <1>5

\* What precedes processAssetTasks in such a pump leaves b, l and the tasks v.
GoesOnWith(b, l, v) ==
  /\ ImportStep /\ UNCHANGED canceller
  /\ v = After /\ StatusesSound(b, v, issued')
  /\ Waiting(b, v, issued', wanted', moved') /\ b.entries = Entries(catalog)
  /\ wanted' \in AllModels \cup {Scene, NoTask} /\ moved' \in BOOLEAN
  /\ l.import = NoTask /\ ProcessAssetTasks(b, l, v)

LEMMA PumpCopiedKeeps ==
  ASSUME WorkflowInvariant, Pump, PumpCopied
  PROVE  WorkflowInvariant'
<1>1. ImportSound /\ RestTypeOK
  BY InvariantGives
<1>2. PICK c \in ValidationSeen(ctl) : \E d :
        /\ d = FreshFor(c)
        /\ \/ \E r : /\ r.index \in DOMAIN d.entries
                     /\ RequestImport(d, r)
                     /\ ProcessAssetTasks(Requested(d, r, After), LoadRequested(d, r), After)
           \/ /\ ProcessAssetTasks(d, NoLoad, Now)
              /\ moved' = (wanted # NoTask)
              /\ UNCHANGED <<importVars, wanted>>
  BY PumpCopiedSplits
<1>3. PICK d :
        /\ d = FreshFor(c)
        /\ \/ \E r : /\ r.index \in DOMAIN d.entries
                     /\ RequestImport(d, r)
                     /\ ProcessAssetTasks(Requested(d, r, After), LoadRequested(d, r), After)
           \/ /\ ProcessAssetTasks(d, NoLoad, Now)
              /\ moved' = (wanted # NoTask)
              /\ UNCHANGED <<importVars, wanted>>
  BY <1>2
<1>4. /\ StatusesSound(d, Now, issued) /\ d.entries = Entries(catalog)
      /\ \A t \in d.processed : t # canceller
      /\ Waiting(d, Now, issued, wanted, wanted # NoTask)
  BY <1>3, FreshForIs
<1>5. /\ UNCHANGED <<catalog, cooked, changes, main>> /\ MutexFree /\ copy' = NoCopy
  BY DEF Pump, PumpCopied, MainFree
<1>6. \E b, l, v : GoesOnWith(b, l, v)
  <2>1. ASSUME NEW r, r.index \in DOMAIN d.entries, RequestImport(d, r),
               ProcessAssetTasks(Requested(d, r, After), LoadRequested(d, r), After)
        PROVE  \E b, l, v : GoesOnWith(b, l, v)
    <3>1. PICK b : b = Requested(d, r, After)
      OBVIOUS
    <3>2. PICK l : l = LoadRequested(d, r)
      OBVIOUS
    <3>3. PICK v : v = After
      OBVIOUS
    <3>4. /\ ImportStep /\ UNCHANGED canceller
          /\ wanted' \in AllModels \cup {Scene, NoTask} /\ moved' \in BOOLEAN
          /\ StatusesSound(b, After, issued') /\ b.entries = d.entries
          /\ Waiting(b, After, issued', wanted', moved')
      BY <1>1, <1>4, <1>5, <2>1, <3>1, RequestedSound
    <3>5. l.import = NoTask
      BY <3>2, LoadRequestedIs
    <3>. QED BY <1>4, <2>1, <3>1, <3>2, <3>3, <3>4, <3>5 DEF GoesOnWith
  <2>2. ASSUME ProcessAssetTasks(d, NoLoad, Now), moved' = (wanted # NoTask),
               UNCHANGED <<importVars, wanted>>
        PROVE  \E b, l, v : GoesOnWith(b, l, v)
    <3>1. Now = After /\ issued' = issued /\ canceller' = canceller
      BY <2>2 DEF Now, After, importVars, taskVars, queueVars
    <3>2. ImportStep
      BY <2>2 DEF ImportStep
    <3>3. NoLoad.import = NoTask /\ wanted' \in AllModels \cup {Scene, NoTask} /\ moved' \in BOOLEAN
      BY <1>1, <2>2 DEF NoLoad, RestTypeOK
    <3>. QED BY <1>4, <2>2, <3>1, <3>2, <3>3 DEF GoesOnWith
  <2>. QED BY <1>3, <2>1, <2>2
<1>7. PICK b, l, v : GoesOnWith(b, l, v)
  BY <1>6
<1>8. /\ ImportStep /\ UNCHANGED canceller /\ v = After /\ StatusesSound(b, v, issued')
      /\ Waiting(b, v, issued', wanted', moved') /\ b.entries = Entries(catalog)
      /\ wanted' \in AllModels \cup {Scene, NoTask} /\ moved' \in BOOLEAN
      /\ l.import = NoTask /\ ProcessAssetTasks(b, l, v)
  BY <1>7 DEF GoesOnWith
<1>9. /\ ImportSound' /\ StatusesSound(ctl', After, issued')
      /\ \A t \in ctl'.processed : t # canceller'
      /\ Waiting(ctl', After, issued', wanted', moved')
      /\ ctl'.entries = Entries(catalog)
      /\ load'.import \in Tasks \cup {NoTask}
  BY <1>1, <1>5, <1>8, ProcessKeeps
<1>10. RestTypeOK'
  <2>1. copy' \in [step : {"none", "copying", "succeeded", "failed"}, loadAfter : BOOLEAN]
    BY <1>5 DEF NoCopy
  <2>. QED BY <1>1, <1>5, <1>9, <1>8, <2>1 DEF RestTypeOK
<1>11. EntriesStayInPlace'
  BY <1>5, <1>9 DEF EntriesStayInPlace, Entries
<1>. QED BY <1>9, <1>10, <1>11, InvariantFollows

\* The actions in which no import is loaded, and the controller is left alone
\* but for its dialog.
LEMMA OtherActionsKeep ==
  ASSUME WorkflowInvariant, load' = NoLoad,
         \/ BeginModelImport \/ ConfirmModelImport
         \/ DismissModelImport \/ CancelModelImport
         \/ CancelAssetTask \/ CancelReturns
         \/ ShutdownImports \/ Join
         \/ CopyEnds \/ ToolRuns \/ Worker \/ SourceChanges
  PROVE  WorkflowInvariant'
<1>1. ImportSound /\ RestTypeOK /\ ctl \in Controller /\ EntriesStayInPlace
  BY InvariantGives
<1>2. ImportStep
  <2>1. CASE BeginModelImport
    <3>1. SourceKey \in Keys /\ Request(SourceKey)
      BY <2>1, WorkflowAssumption DEF BeginModelImport, WorkflowKeys
    <3>. QED BY <3>1 DEF ImportStep
  <2>2. CASE CancelModelImport \/ CancelAssetTask
    BY <2>2 DEF CancelModelImport, CancelAssetTask, ImportStep
  <2>3. CASE CancelReturns
    BY <2>3 DEF CancelReturns, ImportStep
  <2>4. CASE ShutdownImports
    BY <2>4 DEF ShutdownImports, ImportStep
  <2>5. CASE ToolRuns \/ Worker
    BY <2>5 DEF ToolRuns, Worker, ImportStep
  <2>6. CASE ConfirmModelImport \/ DismissModelImport \/ Join \/ CopyEnds \/ SourceChanges
    BY <2>6 DEF ConfirmModelImport, DismissModelImport, Join, CopyEnds, SourceChanges, ImportStep
  <2>. QED BY <2>1, <2>2, <2>3, <2>4, <2>5, <2>6
<1>3. UNCHANGED <<wanted, moved>>
  BY DEF BeginModelImport, ConfirmModelImport, DismissModelImport, CancelModelImport, CancelAssetTask,
         CancelReturns, ShutdownImports, Join, CopyEnds, ToolRuns, Worker, SourceChanges, workflowVars
<1>4. \/ UNCHANGED ctl
      \/ \E x, y : /\ x \in Tasks \cup {NoTask} /\ y \in BOOLEAN
                   /\ ctl' = [ctl EXCEPT !.validation = x, !.dialog = y]
  <2>1. CASE BeginModelImport
    <3>1. SourceKey \in Keys /\ Request(SourceKey)
      BY <2>1, WorkflowAssumption DEF BeginModelImport, WorkflowKeys
    <3>2. PICK t : t = TaskFor(SourceKey)
      OBVIOUS
    <3>3. t \in 1 .. issued'
      BY <1>1, <3>1, <3>2, RequestSteps
    <3>4. TasksAre(After, issued')
      BY <1>1, <1>2, ImportSteps
    <3>5. t \in Tasks
      BY <3>3, <3>4, ImportAssumption DEF TasksAre, Tasks
    <3>. QED BY <2>1, <3>2, <3>5 DEF BeginModelImport
  <2>2. CASE DismissModelImport
    <3>1. ctl' = [ctl EXCEPT !.dialog = FALSE]
      BY <2>2 DEF DismissModelImport
    <3>2. ctl.validation \in Tasks \cup {NoTask}
      BY <1>1 DEF Controller
    <3>3. [ctl EXCEPT !.dialog = FALSE] = [ctl EXCEPT !.validation = ctl.validation, !.dialog = FALSE]
      BY <1>1 DEF Controller
    <3>. QED BY <3>1, <3>2, <3>3
  <2>3. CASE ~BeginModelImport /\ ~DismissModelImport
    BY <2>3 DEF ConfirmModelImport, CancelModelImport, CancelAssetTask,
         CancelReturns, ShutdownImports, Join, CopyEnds, ToolRuns, Worker, SourceChanges, workflowVars
  <2>. QED BY <2>1, <2>2, <2>3
<1>5. /\ ctl' \in Controller
      /\ ctl'.entries = ctl.entries /\ ctl'.limit = ctl.limit /\ ctl'.status = ctl.status
      /\ ctl'.generation = ctl.generation /\ ctl'.consumers = ctl.consumers
      /\ ctl'.processed = ctl.processed
  BY <1>1, <1>4 DEF Controller
<1>6. \/ UNCHANGED catalog
      \/ catalog' = Append(catalog, NewModel)
  BY DEF BeginModelImport, ConfirmModelImport, DismissModelImport, CancelModelImport, CancelAssetTask,
         CancelReturns, ShutdownImports, Join, CopyEnds, ToolRuns, Worker, SourceChanges, workflowVars
<1>7. main' = main \/ main' \in {"waiting", "joining", "exited"}
  BY DEF BeginModelImport, ConfirmModelImport, DismissModelImport, CancelModelImport, CancelAssetTask,
         CancelReturns, ShutdownImports, Join, CopyEnds, ToolRuns, Worker, SourceChanges, workflowVars
<1>8. catalog \in Seq(AllModels) /\ NewModel \in AllModels
  BY <1>1 DEF RestTypeOK, AllModels
<1>9. catalog' \in Seq(AllModels)
  BY <1>6, <1>8
<1>10. EntriesStayInPlace'
  <2>1. CASE UNCHANGED catalog
    BY <1>1, <1>5, <1>7, <2>1 DEF EntriesStayInPlace, Entries
  <2>2. CASE catalog' = Append(catalog, NewModel)
    <3>1. \A i \in DOMAIN catalog : i \in DOMAIN catalog' /\ catalog'[i] = catalog[i]
      BY <1>8, <2>2, AppendProperties
    <3>2. \A i \in DOMAIN catalog' : i \in DOMAIN Entries(catalog') /\ Entries(catalog')[i] = catalog'[i]
      BY <1>9, CatalogEntries
    <3>3. /\ \A i \in DOMAIN Entries(catalog) : IsModel(Entries(catalog)[i]) => i \in DOMAIN catalog
          /\ \A i \in DOMAIN catalog : Entries(catalog)[i] = catalog[i]
      BY <1>8, CatalogEntries
    <3>4. PICK e : e = Entries(catalog)
      OBVIOUS
    <3>5. PICK f : f = Entries(catalog')
      OBVIOUS
    <3>6. main = "running" => \A i \in DOMAIN ctl.entries : IsModel(ctl.entries[i]) =>
             i \in DOMAIN f /\ f[i] = ctl.entries[i]
      BY <1>1, <3>1, <3>2, <3>3, <3>4, <3>5 DEF EntriesStayInPlace
    <3>7. f = Entries(catalog)'
      BY <3>5 DEF Entries
    <3>. QED BY <1>5, <1>7, <3>6, <3>7 DEF EntriesStayInPlace
  <2>. QED BY <1>6, <2>1, <2>2
<1>11. RestTypeOK'
  <2>1. copy' \in [step : {"none", "copying", "succeeded", "failed"}, loadAfter : BOOLEAN]
    <3>1. copy \in [step : {"none", "copying", "succeeded", "failed"}, loadAfter : BOOLEAN]
      BY <1>1 DEF RestTypeOK
    <3>2. \/ UNCHANGED copy
          \/ \E after \in BOOLEAN : copy' = [step |-> "copying", loadAfter |-> after]
          \/ copy' = [copy EXCEPT !.step = "succeeded"]
          \/ copy' = [copy EXCEPT !.step = "failed"]
      BY DEF BeginModelImport, ConfirmModelImport, DismissModelImport, CancelModelImport, CancelAssetTask,
         CancelReturns, ShutdownImports, Join, CopyEnds, ToolRuns, Worker, SourceChanges, workflowVars
    <3>. QED BY <3>1, <3>2
  <2>2. cooked' \in SUBSET (AllModels \X Profiles)
    <3>1. cooked \in SUBSET (AllModels \X Profiles)
      BY <1>1 DEF RestTypeOK
    <3>2. CASE ToolRuns
      <4>1. PICK k : k = key[worker.task]
        OBVIOUS
      <4>2. \/ cooked' = cooked
            \/ /\ cooked' = cooked \cup {<<k[2], k[3]>>}
               /\ worker'.progress = "published" /\ worker.progress = "started"
        BY <3>2, <4>1 DEF ToolRuns
      <4>3. ASSUME worker'.progress = "published", worker.progress = "started"
            PROVE  k[2] \in AllModels /\ k[3] \in Profiles
        <5>1. ToolPublishes
          <6>1. worker \in [step : Steps, task : Tasks \cup {NoTask}, progress : Progress,
                            exit : {"none", "good", "bad"}, verdict : Terminal \cup {"none"}]
            BY <1>1 DEF ImportSound, ImportTypeOK
          <6>. HIDE <1>1
          <6>. QED BY <3>2, <4>3, <6>1 DEF ToolRuns, ToolSays, ToolCompletes, ToolExits
        <5>2. worker.step = "running" /\ ~Validates(worker.task)
          BY <5>1 DEF ToolPublishes, Running
        <5>3. worker.task \in 1 .. issued
          BY <1>1, <5>2 DEF ImportSound, WorkerSound, QueueSound
        <5>4. k \in WorkflowKeys
          BY <1>1, <4>1, <5>3, WorkflowAssumption DEF ImportSound, QueueSound
        <5>5. k # SourceKey
          BY <4>1, <5>2 DEF Validates, SourceKey
        <5>. QED BY <5>4, <5>5, TextureKeys
      <4>. QED BY <3>1, <4>2, <4>3
    <3>3. CASE ~ToolRuns
      <4>1. UNCHANGED cooked \/ \E a \in cooked : cooked' = cooked \ {a}
        BY <3>3 DEF BeginModelImport, ConfirmModelImport, DismissModelImport, CancelModelImport, CancelAssetTask,
         CancelReturns, ShutdownImports, Join, CopyEnds, Worker, SourceChanges, workflowVars
      <4>. QED BY <3>1, <4>1
    <3>. QED BY <3>2, <3>3
  <2>3. changes' \in 0 .. MaxChanges
    <3>1. changes \in 0 .. MaxChanges /\ MaxChanges \in Nat
      BY <1>1, WorkflowAssumption DEF RestTypeOK
    <3>2. UNCHANGED changes \/ (changes < MaxChanges /\ changes' = changes + 1)
      BY DEF BeginModelImport, ConfirmModelImport, DismissModelImport, CancelModelImport, CancelAssetTask,
         CancelReturns, ShutdownImports, Join, CopyEnds, ToolRuns, Worker, SourceChanges, workflowVars
    <3>. QED BY <3>1, <3>2
  <2>4. load'.import \in Tasks \cup {NoTask}
    BY DEF NoLoad
  <2>. QED BY <1>1, <1>3, <1>7, <1>9, <2>1, <2>2, <2>3, <2>4 DEF RestTypeOK
<1>. QED BY <1>2, <1>3, <1>5, <1>10, <1>11, ControllerLeftAlone

\* The catalog or the limit is changed: every status is inspected again.
LEMMA ChangesKeep ==
  ASSUME WorkflowInvariant, load' = NoLoad, SetTextureLimit \/ RemoveModel
  PROVE  WorkflowInvariant'
<1>1. /\ ImportSound /\ RestTypeOK /\ ctl \in Controller /\ StatusesSound(ctl, Now, issued)
      /\ \A t \in ctl.processed : t # canceller
      /\ Waiting(ctl, Now, issued, wanted, moved) /\ EntriesStayInPlace
  BY InvariantGives
<1>2. UNCHANGED <<importVars, wanted, copy, cooked, main>> /\ changes < MaxChanges /\ changes' = changes + 1
  BY DEF SetTextureLimit, RemoveModel
<1>3. Now = After /\ issued' = issued /\ canceller' = canceller
  BY <1>2 DEF Now, After, importVars, taskVars, queueVars
<1>4. ImportSound' /\ TasksAre(Now, issued)
  <2>1. ImportStep
    BY <1>2 DEF ImportStep
  <2>. QED BY <1>1, <2>1, ImportSteps
<1>5. PICK v : v = Now
  OBVIOUS
<1>6. ProcessedEnded(ctl, v) /\ TasksAre(v, issued)
  BY <1>1, <1>4, <1>5 DEF StatusesSound
<1>7. /\ StatusesSound(ctl', v, issued) /\ ctl'.generation = ctl.generation
      /\ ctl'.consumers = ctl.consumers /\ ctl'.processed = ctl.processed
      /\ catalog' \in Seq(AllModels)
      /\ \/ ctl'.entries = ctl.entries /\ UNCHANGED <<catalog, moved>>
         \/ ctl'.entries = Entries(catalog)' /\ moved' = (wanted # NoTask)
  <2>1. CASE SetTextureLimit
    <3>1. PICK p \in Profiles : ctl' = RefreshAll([ctl EXCEPT !.limit = p])
      BY <2>1 DEF SetTextureLimit
    <3>2. PICK c : c = [ctl EXCEPT !.limit = p]
      OBVIOUS
    <3>3. /\ c \in Controller /\ c.entries = ctl.entries /\ c.generation = ctl.generation
          /\ c.consumers = ctl.consumers /\ c.processed = ctl.processed
      BY <1>1, <3>2 DEF Controller
    <3>4. ProcessedEnded(c, v)
      BY <1>6, <3>3 DEF ProcessedEnded
    <3>5. ctl' = RefreshAll(c)
      BY <3>1, <3>2
    <3>6. /\ StatusesSound(ctl', v, issued) /\ ctl'.entries = c.entries /\ ctl'.generation = c.generation
          /\ ctl'.consumers = c.consumers /\ ctl'.processed = c.processed
      BY <1>5, <1>6, <3>3, <3>4, <3>5, RefreshAllSound
    <3>7. UNCHANGED <<catalog, moved>>
      BY <2>1 DEF SetTextureLimit
    <3>. QED BY <1>1, <3>3, <3>6, <3>7 DEF RestTypeOK
  <2>2. CASE RemoveModel
    <3>1. PICK k \in DOMAIN catalog : catalog' = RemoveAt(catalog, k) /\ ctl' = Reloaded(ctl, catalog')
      BY <2>2 DEF RemoveModel
    <3>2. PICK models : models = catalog'
      OBVIOUS
    <3>3. models \in Seq(AllModels)
      BY <1>1, <3>1, <3>2, SequenceWithout DEF RestTypeOK
    <3>4. ctl' = Reloaded(ctl, models)
      BY <3>1, <3>2
    <3>5. /\ StatusesSound(ctl', v, issued) /\ ctl'.entries = Entries(models) /\ ctl'.generation = ctl.generation
          /\ ctl'.consumers = ctl.consumers /\ ctl'.processed = ctl.processed
      BY <1>1, <1>5, <1>6, <3>3, <3>4, ReloadedSound
    <3>6. moved' = (wanted # NoTask) /\ Entries(models) = Entries(catalog)'
      BY <2>2, <3>2 DEF RemoveModel, Entries
    <3>. QED BY <3>2, <3>3, <3>5, <3>6
  <2>. QED BY <2>1, <2>2
<1>8. StatusesSound(ctl', After, issued') /\ \A t \in ctl'.processed : t # canceller'
  BY <1>1, <1>3, <1>5, <1>7
<1>9. Waiting(ctl', After, issued', wanted', moved')
  <2>1. \A m : IsModel(m) => m # NoTask
    BY WorkflowAssumption DEF IsModel, AllModels
  <2>2. CASE ctl'.entries = ctl.entries /\ UNCHANGED <<catalog, moved>>
    BY <1>1, <1>2, <1>3, <1>7, <2>2 DEF Waiting
  <2>3. CASE moved' = (wanted # NoTask)
    BY <1>1, <1>2, <1>3, <1>7, <2>1, <2>3 DEF Waiting
  <2>. QED BY <1>7, <2>2, <2>3
<1>10. EntriesStayInPlace'
  BY <1>1, <1>2, <1>7 DEF EntriesStayInPlace, Entries
<1>11. RestTypeOK'
  <2>1. changes' \in 0 .. MaxChanges
    BY <1>1, <1>2, WorkflowAssumption DEF RestTypeOK
  <2>2. load'.import \in Tasks \cup {NoTask} /\ moved' \in BOOLEAN
    BY <1>1, <1>7 DEF NoLoad, RestTypeOK
  <2>. QED BY <1>1, <1>2, <1>7, <2>1, <2>2 DEF RestTypeOK
<1>. QED BY <1>4, <1>8, <1>9, <1>10, <1>11, InvariantFollows

LEMMA ShutdownKeeps ==
  ASSUME WorkflowInvariant, load' = NoLoad, Shutdown
  PROVE  WorkflowInvariant'
<1>1. ImportSound /\ RestTypeOK
  BY InvariantGives
<1>2. /\ ctl' = Fresh(Models) /\ wanted' = NoTask /\ moved' = FALSE /\ cooked' = {}
      /\ UNCHANGED <<catalog, copy, changes>> /\ main' \in {"closing", "waiting"}
  BY DEF Shutdown
<1>3. ImportStep
  BY DEF Shutdown, ImportStep
<1>4. ImportSound'
  BY <1>1, <1>3, ImportSteps
<1>5. PICK c : c = Fresh(Models)
  OBVIOUS
<1>6. /\ c \in Controller /\ Shown(c) /\ c.processed = {}
      /\ \A t \in Tasks : c.consumers[t] = <<>>
      /\ \A m \in AllModels, p \in Profiles : c.status[<<m, p>>] # "importing"
  BY <1>5, FreshIs
<1>7. StatusesSound(c, After, issued')
  BY <1>6 DEF StatusesSound, ProcessedEnded, Awaited
<1>8. Waiting(c, After, issued', wanted', moved')
  BY <1>6 DEF Waiting
<1>9. EntriesStayInPlace'
  BY <1>2 DEF EntriesStayInPlace
<1>10. RestTypeOK'
  BY <1>1, <1>2 DEF RestTypeOK, NoLoad
<1>11. c = ctl'
  BY <1>2, <1>5
<1>. QED BY <1>4, <1>6, <1>7, <1>8, <1>9, <1>10, <1>11, InvariantFollows

LEMMA WorkflowStutters ==
  ASSUME WorkflowInvariant, UNCHANGED allVars
  PROVE  WorkflowInvariant'
<1>1. ctl \in Controller /\ RestTypeOK /\ EntriesStayInPlace
  BY InvariantGives
<1>2. /\ ImportStep /\ UNCHANGED <<wanted, moved, ctl, catalog, copy, cooked, load, changes, main>>
  BY DEF allVars, workflowVars, ImportStep
<1>3. RestTypeOK' /\ EntriesStayInPlace'
  BY <1>1, <1>2 DEF RestTypeOK, EntriesStayInPlace, Entries
<1>. QED BY <1>1, <1>2, <1>3, ControllerLeftAlone

LEMMA WorkflowKeeps ==
  ASSUME WorkflowInvariant, [WorkflowNext]_allVars
  PROVE  WorkflowInvariant'
<1>1. CASE PickEntry
  BY <1>1, PickEntryKeeps
<1>2. CASE Pump
  BY <1>2, PumpWithoutCopyKeeps, PumpCopiedKeeps DEF Pump
<1>3. CASE LoadsNothing /\ load' = NoLoad
  BY <1>3, OtherActionsKeep, ChangesKeep, ShutdownKeeps DEF LoadsNothing
<1>4. CASE Exited \/ UNCHANGED allVars
  BY <1>4, WorkflowStutters DEF Exited
<1>. QED BY <1>1, <1>2, <1>3, <1>4 DEF WorkflowNext

\* A load at the end of an import has a consumer of the newest operation.
LEMMA LoadFollowsItsConsumer ==
  ASSUME NEW v, NEW n, TasksAre(v, n), NEW c \in Controller, NEW w, NEW hasMoved,
         Waiting(c, v, n, w, hasMoved), NEW l, l.import = NoTask,
         NEW d, d = ProcessedLoad(c, l, v), d.import # NoTask
  PROVE  /\ v.state[d.import] \in Terminal
         /\ \E k \in DOMAIN c.consumers[d.import] : c.consumers[d.import][k].generation = c.generation
         /\ d.import \in Tasks /\ d.generation = c.generation /\ v.key[d.import][2] = w
         /\ ~hasMoved => d.entry = w
<1>1. /\ d.import \in Loading(c, v)
      /\ d.entry = c.entries[LatestScene(c, d.import)]
      /\ d.generation = c.generation
  BY ProcessedLoadIs
<1>2. PICK t : t = d.import
  OBVIOUS
<1>3. /\ t \in Tasks /\ v.state[t] \in Terminal
      /\ \E k \in DOMAIN c.consumers[t] :
            /\ c.consumers[t][k].generation = c.generation
            /\ c.consumers[t][k].index = LatestScene(c, t)
  BY <1>1, <1>2, LoadingIs
<1>4. PICK k \in DOMAIN c.consumers[t] :
         /\ c.consumers[t][k].generation = c.generation
         /\ c.consumers[t][k].index = LatestScene(c, t)
  BY <1>3
<1>5. /\ v.key[t][2] = w
      /\ ~hasMoved => c.entries[LatestScene(c, t)] = w
  BY <1>3, <1>4 DEF Waiting
<1>. QED BY <1>1, <1>2, <1>3, <1>4, <1>5

\* What the newest operation chose, in a step.
ChosenIsLoaded ==
  load'.import # NoTask /\ ~moved =>
    /\ load'.entry = wanted
    /\ load'.generation = ctl.generation
    /\ key[load'.import][2] = wanted

LEMMA PumpLoadsTheChosen ==
  ASSUME WorkflowInvariant, Pump
  PROVE  ChosenIsLoaded
<1>. SUFFICES ASSUME load'.import # NoTask, ~moved
              PROVE  load'.entry = wanted /\ load'.generation = ctl.generation /\ key[load'.import][2] = wanted
  BY DEF ChosenIsLoaded
<1>1. /\ ImportSound /\ RestTypeOK /\ EntriesStayInPlace
      /\ Waiting(ctl, Now, issued, wanted, moved)
  BY InvariantGives
<1>2. MutexFree /\ main = "running"
  BY DEF Pump, MainFree
<1>3. NoLoad.import = NoTask
  BY DEF NoLoad
<1>4. PICK v : v = Now
  OBVIOUS
<1>5. v.key = key /\ TasksAre(v, issued)
  <2>1. ImportTypeOK /\ QueueSound
    BY <1>1 DEF ImportSound
  <2>. QED BY <1>4, <2>1, WorkflowAssumption DEF ImportTypeOK, QueueSound, TasksAre, Now
<1>6. ASSUME NEW c \in Controller, Waiting(c, v, issued, wanted, moved), c.generation = ctl.generation,
             ProcessAssetTasks(c, NoLoad, v)
      PROVE  load'.entry = wanted /\ load'.generation = ctl.generation /\ key[load'.import][2] = wanted
  <2>1. PICK d : d = load'
    OBVIOUS
  <2>2. d = ProcessedLoad(c, NoLoad, v) /\ d.import # NoTask
    BY <1>6, <2>1 DEF ProcessAssetTasks
  <2>3. d.generation = c.generation /\ v.key[d.import][2] = wanted /\ d.entry = wanted
    BY <1>3, <1>5, <1>6, <2>2, LoadFollowsItsConsumer
  <2>. QED BY <1>5, <1>6, <2>1, <2>3
<1>7. CASE PumpWithoutCopy
  <2>1. PICK c \in ValidationSeen(ctl) : ProcessAssetTasks(c, NoLoad, v)
    BY <1>4, <1>7 DEF PumpWithoutCopy
  <2>2. c \in Controller /\ Waiting(c, v, issued, wanted, moved) /\ c.generation = ctl.generation
    BY <1>4, SeenIs
  <2>. QED BY <1>6, <2>1, <2>2
<1>8. CASE PumpCopied
  <2>1. PICK c \in ValidationSeen(ctl) : \E d :
          /\ d = FreshFor(c)
          /\ \/ \E r : /\ r.index \in DOMAIN d.entries
                       /\ RequestImport(d, r)
                       /\ ProcessAssetTasks(Requested(d, r, After), LoadRequested(d, r), After)
             \/ /\ ProcessAssetTasks(d, NoLoad, Now)
                /\ moved' = (wanted # NoTask)
                /\ UNCHANGED <<importVars, wanted>>
    BY <1>8, PumpCopiedSplits
  <2>2. PICK d :
          /\ d = FreshFor(c)
          /\ \/ \E r : /\ r.index \in DOMAIN d.entries
                       /\ RequestImport(d, r)
                       /\ ProcessAssetTasks(Requested(d, r, After), LoadRequested(d, r), After)
             \/ /\ ProcessAssetTasks(d, NoLoad, Now)
                /\ moved' = (wanted # NoTask)
                /\ UNCHANGED <<importVars, wanted>>
    BY <2>1
  <2>3. /\ StatusesSound(d, Now, issued) /\ d \in Controller /\ d.entries = Entries(catalog)
        /\ d.generation = ctl.generation /\ d.consumers = ctl.consumers
        /\ \A t \in d.processed : t # canceller
        /\ Waiting(d, Now, issued, wanted, wanted # NoTask)
    BY <2>2, FreshForIs
  <2>4. ASSUME NEW r, r.index \in DOMAIN d.entries, RequestImport(d, r),
               ProcessAssetTasks(Requested(d, r, After), LoadRequested(d, r), After)
        PROVE  FALSE
    <3>1. PICK b : b = Requested(d, r, After)
      OBVIOUS
    <3>2. PICK l : l = LoadRequested(d, r)
      OBVIOUS
    <3>3. PICK u : u = After
      OBVIOUS
    <3>4. PICK x : x = load'
      OBVIOUS
    <3>5. /\ ImportStep /\ UNCHANGED state /\ StatusesSound(b, After, issued')
          /\ Waiting(b, After, issued', wanted', moved')
          /\ \A t \in Tasks : \A k \in DOMAIN b.consumers[t] :
                b.consumers[t][k].generation = b.generation => ~Done(t)
      BY <1>1, <1>2, <2>3, <2>4, <3>1, RequestedSound
    <3>6. l.import = NoTask
      BY <3>2, LoadRequestedIs
    <3>7. TasksAre(u, issued')
      BY <1>1, <3>3, <3>5, ImportSteps
    <3>8. b \in Controller /\ Waiting(b, u, issued', wanted', moved')
      BY <3>3, <3>5 DEF StatusesSound
    <3>9. x = ProcessedLoad(b, l, u) /\ x.import # NoTask
      BY <2>4, <3>1, <3>2, <3>3, <3>4 DEF ProcessAssetTasks
    <3>10. /\ u.state[x.import] \in Terminal /\ x.import \in Tasks
           /\ \E k \in DOMAIN b.consumers[x.import] : b.consumers[x.import][k].generation = b.generation
      BY <3>6, <3>7, <3>8, <3>9, LoadFollowsItsConsumer
    <3>11. u.state = state
      BY <3>3, <3>5 DEF After
    <3>. QED BY <3>5, <3>10, <3>11 DEF Done
  <2>5. ASSUME ProcessAssetTasks(d, NoLoad, v)
        PROVE  load'.entry = wanted /\ load'.generation = ctl.generation /\ key[load'.import][2] = wanted
    <3>1. Waiting(d, v, issued, wanted, moved)
      <4>1. \A i \in DOMAIN ctl.entries : IsModel(ctl.entries[i]) =>
               i \in DOMAIN d.entries /\ d.entries[i] = ctl.entries[i]
        BY <1>1, <1>2, <2>3 DEF EntriesStayInPlace
      <4>. QED BY <1>1, <1>4, <2>3, <4>1 DEF Waiting
    <3>. QED BY <1>6, <2>3, <2>5, <3>1
  <2>. QED BY <1>4, <2>2, <2>4, <2>5
<1>. QED BY <1>7, <1>8 DEF Pump

LEMMA StepLoadsTheChosen ==
  ASSUME WorkflowInvariant, [WorkflowNext]_allVars
  PROVE  ChosenIsLoaded \/ UNCHANGED allVars
<1>1. CASE PickEntry
  <2>1. load'.import = NoTask
    BY <1>1, LoadRequestedIs DEF PickEntry
  <2>. QED BY <2>1 DEF ChosenIsLoaded
<1>2. CASE Pump
  BY <1>2, PumpLoadsTheChosen
<1>3. CASE LoadsNothing /\ load' = NoLoad
  BY <1>3 DEF NoLoad, ChosenIsLoaded
<1>4. CASE Exited \/ UNCHANGED allVars
  BY <1>4 DEF Exited
<1>. QED BY <1>1, <1>2, <1>3, <1>4 DEF WorkflowNext

\* The types, and nobody waits for an import that nobody runs: a task that has
\* not ended is queued, run or cancelled, an entry shown as importing has an
\* import that no pump has seen end, and the consumers of the newest operation
\* wait for the entry that was chosen.
THEOREM WorkflowHolds == WorkflowSpec => []WorkflowInvariant
<1>1. WorkflowInvariant /\ [WorkflowNext]_allVars => WorkflowInvariant'
  BY WorkflowKeeps
<1>. QED BY <1>1, WorkflowStarts, PTL DEF WorkflowSpec

\* The end of an import loads the entry the user chose last, and nothing when a
\* newer operation has superseded its own.
THEOREM ChosenEntryIsLoaded == WorkflowSpec => LoadsTheChosenEntry
<1>1. WorkflowInvariant /\ [WorkflowNext]_allVars => [ChosenIsLoaded]_allVars
  BY StepLoadsTheChosen
<1>. QED BY <1>1, WorkflowHolds, PTL DEF WorkflowSpec, LoadsTheChosenEntry, ChosenIsLoaded

=============================================================================
