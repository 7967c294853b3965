---------------------------- MODULE MCSceneLoad -----------------------------
(***************************************************************************)
(* Instances of SceneLoad.  Two loads of any kind: the world of the first is*)
(* replaced by the second, or the first is superseded or cancelled; both stay*)
(* in the history.  Closing the world retires a second one.                *)
(***************************************************************************)
EXTENDS SceneLoad
=============================================================================
