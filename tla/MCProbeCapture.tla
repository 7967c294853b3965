---------------------------- MODULE MCProbeCapture ---------------------------
(* One entity, the probe; two commands are made in a session and one fits in *)
(* the stack; the scene file has two versions, the first one and one saved   *)
(* by the editor or written by the other program.  What is dragged is a      *)
(* widget that leaves its edit open, never the gizmo.                        *)
EXTENDS ProbeCapture
=============================================================================
