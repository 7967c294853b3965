---------------------------- MODULE ArtifactCache ----------------------------
(***************************************************************************)
(* The derived-asset cache on disk, shared by asset tool processes (bake,  *)
(* prune, rebuild the index) and by the editor: content-addressed blobs,   *)
(* one manifest per asset that lists its blobs, and the ArtifactIndex, a   *)
(* disposable copy of what the manifests say with the editor's telemetry.  *)
(*                                                                         *)
(* Tools change blobs and manifests under the named mutex of               *)
(* CacheMutationLock; a tool may be killed at any step (a cancelled import *)
(* terminates its process), which abandons the mutex.  The editor never    *)
(* takes that mutex: it loads the index, writes its telemetry by           *)
(* ArtifactIndex::save, which merges under a mutex of its own (one step    *)
(* here), and rebuilds the index when it cannot read it.                   *)
(*                                                                         *)
(* A manifest's version stands for its file stamp (size and time); aged    *)
(* holds the blobs whose file is older than the prune's retention.  A      *)
(* record's told is the latest of the editor's telemetry in it.            *)
(***************************************************************************)
EXTENDS Naturals, FiniteSets

CONSTANTS
    Asset,          \* models and environments of the Catalog
    Blob,           \* contents a bake may produce
    Tool,           \* asset tool processes
    MaxVersion,     \* bound: manifests published
    MaxClock,       \* bound: telemetry the editor writes
    MaxLosses,      \* bound: times the index file becomes unreadable
    NoOne,          \* nobody holds the mutex
    NoRecord,       \* the index does not know the asset
    NoIndex         \* the index file is missing or unreadable

ASSUME BoundsAssumption == MaxVersion \in Nat /\ MaxClock \in Nat /\ MaxLosses \in Nat

ASSUME NoOneAssumption == NoOne \notin Tool

VARIABLES
    cache,      \* manifests, blobs and their age, the last file stamp
    mutex,      \* who holds the cache mutation mutex
    tool,       \* the job of each tool process and where it is
    index,      \* the index file
    editor,     \* the editor's ArtifactIndex and where its call is
    clock,      \* telemetry written so far
    losses      \* times the index file was lost

vars == <<cache, mutex, tool, index, editor, clock, losses>>

Manifest == [version : 0 .. MaxVersion, blobs : SUBSET Blob]
Record == [stamp : 0 .. MaxVersion, blobs : SUBSET Blob, told : 0 .. MaxClock]
Records == [Asset -> Record \cup {NoRecord}]

ASSUME NoRecordAssumption == NoRecord \notin Record

NoRecords == [a \in Asset |-> NoRecord]
IdleTool == [at |-> "idle", job |-> "none", asset |-> NoRecord, need |-> {},
             left |-> {}, records |-> NoRecords]

TypeOK ==
    /\ cache \in [manifest : [Asset -> Manifest], blobs : SUBSET Blob, aged : SUBSET Blob,
                  last : 0 .. MaxVersion]
    /\ cache.aged \subseteq cache.blobs
    /\ mutex \in Tool \cup {NoOne}
    /\ tool \in [Tool -> [at : {"idle", "waiting", "locked", "working", "published",
                                "loaded", "rebuilt"},
                          job : {"none", "bake", "prune", "rebuild"},
                          asset : Asset \cup {NoRecord}, need : SUBSET Blob,
                          left : SUBSET Blob, records : Records]]
    /\ index \in Records \cup {NoIndex}
    /\ editor \in [at : {"idle", "stamped", "rebuilt"}, records : Records]
    /\ clock \in 0 .. MaxClock
    /\ losses \in 0 .. MaxLosses

Init ==
    /\ cache = [manifest |-> [a \in Asset |-> [version |-> 0, blobs |-> {}]],
                blobs |-> {}, aged |-> {}, last |-> 0]
    /\ mutex = NoOne
    /\ tool = [t \in Tool |-> IdleTool]
    /\ index = NoRecords
    /\ editor = [at |-> "idle", records |-> NoRecords]
    /\ clock = 0
    /\ losses = 0

-----------------------------------------------------------------------------
(* ArtifactIndex: what refresh, rebuild and save compute *)

ToldIn(records, a) == IF records[a] = NoRecord THEN 0 ELSE records[a].told

\* refreshRecord: the stamp of the manifest, then what it lists; the telemetry
\* of the record stays.
Refreshed(records, a) ==
    [records EXCEPT ![a] = [stamp |-> cache.manifest[a].version,
                            blobs |-> cache.manifest[a].blobs,
                            told |-> ToldIn(records, a)]]

\* rebuild: one record per published manifest, without telemetry.
Rebuilt ==
    [a \in Asset |->
        IF cache.manifest[a].version = 0 THEN NoRecord
        ELSE [stamp |-> cache.manifest[a].version,
              blobs |-> cache.manifest[a].blobs, told |-> 0]]

\* Mutant: the telemetry on disk is forgotten.
MergedForgetful(local, disk, a) ==
    IF disk.stamp = cache.manifest[a].version /\ local.stamp # cache.manifest[a].version
    THEN [disk EXCEPT !.told = local.told] ELSE local

\* A dirty record against the one on disk: the one of the current manifest
\* wins, the local one otherwise; telemetry is the latest of both.
Merged(local, disk, a) ==
    LET current == cache.manifest[a].version
        selected == IF disk.stamp = current /\ local.stamp # current
                    THEN disk ELSE local
    IN  [selected EXCEPT !.told = IF disk.told > local.told THEN disk.told
                                                            ELSE local.told]

\* save, with these records and these of them dirty.
SavedIndex(records, dirty) ==
    LET disk == IF index = NoIndex THEN NoRecords ELSE index
    IN  [a \in Asset |->
            IF a \notin dirty \/ records[a] = NoRecord THEN disk[a]
            ELSE IF disk[a] = NoRecord THEN records[a]
            ELSE Merged(records[a], disk[a], a)]

-----------------------------------------------------------------------------
(* The tools *)

Held(t) == mutex = t
Goes(t, at) == tool' = [tool EXCEPT ![t] = [@ EXCEPT !.at = at]]
Ends(t) == tool' = [tool EXCEPT ![t] = IdleTool] /\ mutex' = NoOne

StartBake(t, a, need) ==
    /\ tool[t].at = "idle"
    /\ cache.last < MaxVersion
    /\ tool' = [tool EXCEPT ![t] = [IdleTool EXCEPT !.at = "waiting", !.job = "bake",
                                                    !.asset = a, !.need = need]]
    /\ UNCHANGED <<cache, mutex, index, editor, clock, losses>>

StartMaintenance(t, job) ==
    /\ tool[t].at = "idle"
    /\ tool' = [tool EXCEPT ![t] = [IdleTool EXCEPT !.at = "waiting", !.job = job]]
    /\ UNCHANGED <<cache, mutex, index, editor, clock, losses>>

\* Mutant: the prune does not wait for its turn.
AcquireUnlessPrune(t) ==
    /\ tool[t].at = "waiting"
    /\ mutex = NoOne \/ tool[t].job = "prune"
    /\ mutex' = IF tool[t].job = "prune" THEN mutex ELSE t
    /\ Goes(t, "locked")
    /\ UNCHANGED <<cache, index, editor, clock, losses>>

\* The mutex is free, or its owner died.
Acquire(t) ==
    /\ tool[t].at = "waiting"
    /\ mutex = NoOne
    /\ mutex' = t
    /\ Goes(t, "locked")
    /\ UNCHANGED <<cache, index, editor, clock, losses>>

\* Cancelled while it waits.
GiveUp(t) ==
    /\ tool[t].at = "waiting"
    /\ tool' = [tool EXCEPT ![t] = IdleTool]
    /\ UNCHANGED <<cache, mutex, index, editor, clock, losses>>

\* The bake plans which contents exist already and are reused.
PlanBake(t) ==
    /\ tool[t].at = "locked" /\ tool[t].job = "bake"
    /\ cache.last < MaxVersion
    /\ tool' = [tool EXCEPT ![t] = [@ EXCEPT !.at = "working",
                                           !.left = tool[t].need \ cache.blobs]]
    /\ UNCHANGED <<cache, mutex, index, editor, clock, losses>>

\* A blob is encoded beside its name and renamed.
EncodeBlob(t) ==
    /\ tool[t].at = "working" /\ tool[t].job = "bake"
    /\ \E b \in tool[t].left :
        /\ cache' = [cache EXCEPT !.blobs = @ \cup {b}, !.aged = @ \ {b}]
        /\ tool' = [tool EXCEPT ![t] = [@ EXCEPT !.left = tool[t].left \ {b}]]
    /\ UNCHANGED <<mutex, index, editor, clock, losses>>

\* The manifest is replaced when every blob is there.
PublishManifest(t) ==
    /\ tool[t].at = "working" /\ tool[t].job = "bake"
    /\ tool[t].left = {}
    /\ cache' = [cache EXCEPT !.manifest[tool[t].asset] =
                                [version |-> cache.last + 1, blobs |-> tool[t].need],
                              !.last = @ + 1]
    /\ Goes(t, "published")
    /\ UNCHANGED <<mutex, index, editor, clock, losses>>

\* loadOrRebuild by a tool: the index file, or a rebuild that replaces it.
LoadIndex(t) ==
    /\ tool[t].at = "published"
    /\ tool' = [tool EXCEPT ![t] =
                    [@ EXCEPT !.at = IF index = NoIndex THEN "rebuilt" ELSE "loaded",
                              !.records = IF index = NoIndex THEN Rebuilt ELSE index]]
    /\ UNCHANGED <<cache, mutex, index, editor, clock, losses>>

\* cache index rebuild.
RebuildIndex(t) ==
    /\ tool[t].at = "locked" /\ tool[t].job = "rebuild"
    /\ tool' = [tool EXCEPT ![t] = [@ EXCEPT !.at = "rebuilt", !.records = Rebuilt]]
    /\ UNCHANGED <<cache, mutex, index, editor, clock, losses>>

\* A rebuilt index replaces the file as a whole.
ReplaceIndex(t) ==
    /\ tool[t].at = "rebuilt"
    /\ index' = tool[t].records
    /\ IF tool[t].job = "rebuild" THEN Ends(t)
                                  ELSE Goes(t, "loaded") /\ UNCHANGED mutex
    /\ UNCHANGED <<cache, editor, clock, losses>>

\* The baked asset is refreshed and its record saved.
SaveIndex(t) ==
    /\ tool[t].at = "loaded"
    /\ index' = SavedIndex(Refreshed(tool[t].records, tool[t].asset), {tool[t].asset})
    /\ Ends(t)
    /\ UNCHANGED <<cache, editor, clock, losses>>

\* The prune's candidates: old blobs that no manifest lists.
Candidates ==
    {b \in cache.aged : \A a \in Asset : b \notin cache.manifest[a].blobs}

ScanForPrune(t) ==
    /\ tool[t].at = "locked" /\ tool[t].job = "prune"
    /\ tool' = [tool EXCEPT ![t] = [@ EXCEPT !.at = "working", !.left = Candidates]]
    /\ UNCHANGED <<cache, mutex, index, editor, clock, losses>>

DeleteBlob(t) ==
    /\ tool[t].at = "working" /\ tool[t].job = "prune"
    /\ \E b \in tool[t].left :
        /\ cache' = [cache EXCEPT !.blobs = @ \ {b}, !.aged = @ \ {b}]
        /\ tool' = [tool EXCEPT ![t] = [@ EXCEPT !.left = tool[t].left \ {b}]]
    /\ UNCHANGED <<mutex, index, editor, clock, losses>>

\* Everything deleted, or a deletion refused: the prune ends.
EndPrune(t) ==
    /\ tool[t].at = "working" /\ tool[t].job = "prune"
    /\ Ends(t)
    /\ UNCHANGED <<cache, index, editor, clock, losses>>

\* The process fails, is cancelled or killed: what it wrote stays, its mutex is
\* abandoned and the next waiter gets it.
Die(t) ==
    /\ tool[t].at # "idle"
    /\ tool' = [tool EXCEPT ![t] = IdleTool]
    /\ mutex' = IF Held(t) THEN NoOne ELSE mutex
    /\ UNCHANGED <<cache, index, editor, clock, losses>>

-----------------------------------------------------------------------------
(* The editor *)

\* reloadArtifactIndex, the file readable.
EditorLoads ==
    /\ editor.at = "idle"
    /\ index # NoIndex
    /\ editor' = [editor EXCEPT !.records = index]
    /\ UNCHANGED <<cache, mutex, tool, index, clock, losses>>

\* reloadArtifactIndex, the file unreadable: the manifests' stamps first.
EditorStamps ==
    /\ editor.at = "idle"
    /\ index = NoIndex
    /\ editor' = [at |-> "stamped",
                  records |-> [a \in Asset |->
                                IF Rebuilt[a] = NoRecord THEN NoRecord
                                ELSE [Rebuilt[a] EXCEPT !.blobs = {}]]]
    /\ UNCHANGED <<cache, mutex, tool, index, clock, losses>>

\* Mutant: the stamp is taken with the rest already read.
EditorStampsAgain ==
    /\ editor.at = "stamped"
    /\ editor' = [at |-> "rebuilt",
                  records |-> [a \in Asset |->
                                IF editor.records[a] = NoRecord THEN NoRecord
                                ELSE [editor.records[a] EXCEPT
                                        !.stamp = cache.manifest[a].version]]]
    /\ UNCHANGED <<cache, mutex, tool, index, clock, losses>>

\* ... then what they list ...
EditorReads ==
    /\ editor.at = "stamped"
    /\ editor' = [at |-> "rebuilt",
                  records |-> [a \in Asset |->
                                IF editor.records[a] = NoRecord THEN NoRecord
                                ELSE [editor.records[a] EXCEPT
                                        !.blobs = cache.manifest[a].blobs]]]
    /\ UNCHANGED <<cache, mutex, tool, index, clock, losses>>

\* ... and the file is replaced as a whole.
EditorReplaces ==
    /\ editor.at = "rebuilt"
    /\ index' = editor.records
    /\ editor' = [editor EXCEPT !.at = "idle"]
    /\ UNCHANGED <<cache, mutex, tool, clock, losses>>

\* A use or a finished import of a known asset is recorded and saved.
EditorUses(a) ==
    /\ editor.at = "idle"
    /\ editor.records[a] # NoRecord
    /\ clock < MaxClock
    /\ LET told == [editor.records EXCEPT ![a].told = clock + 1]
           saved == SavedIndex(told, {a})
       IN  /\ index' = saved
           /\ editor' = [editor EXCEPT !.records = saved]
    /\ clock' = clock + 1
    /\ UNCHANGED <<cache, mutex, tool, losses>>

\* recordFailure knows no manifest when the asset had no record.
EditorRecordsFailure(a) ==
    /\ editor.at = "idle"
    /\ clock < MaxClock
    /\ LET known == IF editor.records[a] = NoRecord
                    THEN [stamp |-> 0, blobs |-> {}, told |-> 0]
                    ELSE editor.records[a]
           told == [editor.records EXCEPT ![a] = [known EXCEPT !.told = clock + 1]]
           saved == SavedIndex(told, {a})
       IN  /\ index' = saved
           /\ editor' = [editor EXCEPT !.records = saved]
    /\ clock' = clock + 1
    /\ UNCHANGED <<cache, mutex, tool, losses>>

-----------------------------------------------------------------------------
(* The world *)

\* A blob passes the retention period.
Ages ==
    /\ \E b \in cache.blobs \ cache.aged :
        cache' = [cache EXCEPT !.aged = @ \cup {b}]
    /\ UNCHANGED <<mutex, tool, index, editor, clock, losses>>

\* The index file is removed, damaged, or of another schema.
IndexLost ==
    /\ index # NoIndex /\ losses < MaxLosses
    /\ index' = NoIndex
    /\ losses' = losses + 1
    /\ UNCHANGED <<cache, mutex, tool, editor, clock>>

ToolStep(t) ==
    \/ PlanBake(t) \/ EncodeBlob(t) \/ PublishManifest(t)
    \/ LoadIndex(t) \/ RebuildIndex(t) \/ ReplaceIndex(t) \/ SaveIndex(t)
    \/ ScanForPrune(t) \/ DeleteBlob(t) \/ EndPrune(t)

Next ==
    \/ \E t \in Tool :
        \/ \E a \in Asset, need \in SUBSET Blob : StartBake(t, a, need)
        \/ \E job \in {"prune", "rebuild"} : StartMaintenance(t, job)
        \/ Acquire(t) \/ GiveUp(t) \/ ToolStep(t) \/ Die(t)
    \/ EditorLoads \/ EditorStamps \/ EditorReads \/ EditorReplaces
    \/ \E a \in Asset : EditorUses(a) \/ EditorRecordsFailure(a)
    \/ Ages \/ IndexLost

Spec == Init /\ [][Next]_vars
-----------------------------------------------------------------------------
(* Properties *)

\* Every blob a manifest lists is on disk, whatever bakes, prunes and kills
\* interleave: a load that trusts a manifest finds its blobs.
ManifestClosed ==
    \A a \in Asset : cache.manifest[a].blobs \subseteq cache.blobs

\* A record with the stamp of the current manifest lists what that manifest
\* lists, in the file and in the editor's memory: ArtifactIndex::query answers
\* Ready by that stamp alone.  (While the editor rebuilds, it has stamps only.)
RecordsHonest ==
    \A a \in Asset :
        \A r \in ({IF index = NoIndex THEN NoRecord ELSE index[a]}
                    \cup (IF editor.at = "stamped" THEN {} ELSE {editor.records[a]}))
                 \ {NoRecord} :
            r.stamp = cache.manifest[a].version => r.blobs = cache.manifest[a].blobs

\* What makes it so: only the holder of the mutex is past waiting, a bake has
\* made or found what it no longer has to make, and a prune is after no blob
\* that a manifest lists.
JobSound(t) ==
    /\ tool[t].job = "bake" => tool[t].asset \in Asset
    /\ tool[t].at \in {"published", "loaded"} => tool[t].job = "bake"
    /\ tool[t].at = "rebuilt" => tool[t].job \in {"bake", "rebuild"}
    /\ tool[t].at \notin {"idle", "waiting"} => mutex = t
    /\ tool[t].at = "working" /\ tool[t].job = "bake" =>
        /\ tool[t].need \subseteq cache.blobs \cup tool[t].left
        /\ cache.last < MaxVersion
    /\ tool[t].at = "working" /\ tool[t].job = "prune" =>
        \A a \in Asset : tool[t].left \cap cache.manifest[a].blobs = {}

JobsInvariant == \A t \in Tool : JobSound(t)

\* The inductive invariant of the cache: the types, whole manifests and the
\* jobs under the mutex.
CacheInvariant == TypeOK /\ ManifestClosed /\ JobsInvariant

\* A save of the index loses nothing (ArtifactIndex::save merges): the record
\* an importer wrote for the current manifest is not replaced by an older one,
\* however late the editor writes from its old copy, and the telemetry of a
\* record never goes back.  A rebuild replaces the file as a whole: the one of
\* a tool, under the mutex, keeps the records and forgets the telemetry; the
\* one of the editor, without the mutex, may lose both.
RecordsKept ==
    [][ \A a \in Asset :
            /\ index # NoIndex /\ index' # NoIndex
            /\ index[a] # NoRecord
            /\ editor.at # "rebuilt"
            => /\ /\ cache.manifest[a].version > 0
                  /\ index[a].stamp = cache.manifest[a].version
                  /\ cache'.manifest[a] = cache.manifest[a]
                  => index'[a] # NoRecord /\ index'[a].stamp = index[a].stamp
               /\ (\A t \in Tool : tool[t].at # "rebuilt")
                  => index'[a] # NoRecord /\ index'[a].told >= index[a].told ]_vars

=============================================================================
