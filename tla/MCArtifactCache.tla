--------------------------- MODULE MCArtifactCache ---------------------------
(***************************************************************************)
(* Two assets that may share contents, two manifests, of one asset or of   *)
(* both, two tool processes, one telemetry write and one loss of the index *)
(* file.                                                                   *)
(***************************************************************************)
EXTENDS ArtifactCache, TLC

CacheSymmetry == Permutations(Asset) \cup Permutations(Blob) \cup Permutations(Tool)
=============================================================================
