-------------------------- MODULE MCSceneWorkflow --------------------------
(***************************************************************************)
(* Instances of SceneWorkflow: two models and a scene in the catalog, so   *)
(* that removing the first moves the second, and one model to import.      *)
(***************************************************************************)
EXTENDS SceneWorkflow

CONSTANTS m1, m2, m3, s1, p1, p2
=============================================================================
