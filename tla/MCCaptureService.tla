-------------------------- MODULE MCCaptureService --------------------------
(***************************************************************************)
(* Instances of CaptureService.  Three captures for two places among the   *)
(* active ones and one in the history fill both; two paths let two of them *)
(* write to the same file.                                                 *)
(***************************************************************************)
EXTENDS CaptureService

=============================================================================
