------------------------ MODULE MCEnvironmentAssets -------------------------
(***************************************************************************)
(* Instances of EnvironmentAssets: one environment that may be reloaded (two*)
(* records), one native scene that may select it, with or without a probe, *)
(* one lighting generation retired at a time, one frame in flight.         *)
(***************************************************************************)
EXTENDS EnvironmentAssets
=============================================================================
