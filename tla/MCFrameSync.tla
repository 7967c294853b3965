---------------------------- MODULE MCFrameSync ----------------------------
(***************************************************************************)
(* Instances of FrameSync.  Three slots (the program has two) make slot    *)
(* reuse, a late slot and an early one all differ; MaxSubmissions lets     *)
(* every slot be reused and a recreation fall in between.                  *)
(***************************************************************************)
EXTENDS FrameSync

=============================================================================
