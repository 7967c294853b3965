---------------------------- MODULE MCSceneEditor ----------------------------
(* One entity that moves and may carry a model; two commands fit in the      *)
(* stack, three are made in a session, the scene file has up to three        *)
(* versions, and an Inspector widget is lost only before the first command   *)
(* (one of a group is let go whenever the user likes).                       *)
EXTENDS SceneEditor

\* A load in flight, a world that left the history behind and a file that was
\* written between two accesses are followed until the last command is made.
Explored ==
    load # Idle \/ ghost.adrift \/ ghost.raced => stack.next < MaxPushes
=============================================================================
