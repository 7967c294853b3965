-------------------------- MODULE SubmissionClock --------------------------
(***************************************************************************)
(* What FrameSync promises to every component that defers the release of a *)
(* GPU resource: frame submissions are numbered 1, 2, 3, ..., the graphics *)
(* queue finishes them in that order, and completedSubmissionSerial() is a *)
(* lower bound of what the queue has finished, which only grows.           *)
(*                                                                         *)
(* FrameSync.tla implements this specification; the repositories, the      *)
(* retired worlds and the capture service are written against it.          *)
(***************************************************************************)
EXTENDS Naturals

CONSTANT MaxSubmissions   \* bound on the frames a behaviour submits

ASSUME SubmissionBound == MaxSubmissions \in Nat

VARIABLES
  submitted,   \* FrameSync::lastSubmittedSerial()
  finished,    \* the last serial whose commands the GPU has finished
  completed    \* FrameSync::completedSubmissionSerial()

clockVars == <<submitted, finished, completed>>

Serials == 0 .. MaxSubmissions

ClockTypeOK ==
  /\ submitted \in Serials
  /\ finished \in Serials
  /\ completed \in Serials

ClockInit ==
  /\ submitted = 0
  /\ finished = 0
  /\ completed = 0

\* FrameSync::endFrame: one more frame is on the graphics queue.
Submit ==
  /\ submitted < MaxSubmissions
  /\ submitted' = submitted + 1
  /\ UNCHANGED <<finished, completed>>

\* The graphics queue signals the fences of submissions in order.
Finish ==
  /\ finished < submitted
  /\ finished' = finished + 1
  /\ UNCHANGED <<submitted, completed>>

\* beginFrame, waitForAllFrames or a swapchain recreation waited for a fence.
Observe ==
  /\ completed' \in completed + 1 .. finished
  /\ UNCHANGED <<submitted, finished>>

ClockNext == Submit \/ Finish \/ Observe

ClockSpec == ClockInit /\ [][ClockNext]_clockVars

-----------------------------------------------------------------------------
\* The order that every deferred release relies on: a serial reported as
\* completed has been finished by the GPU.
ClockOrder ==
  /\ completed <= finished
  /\ finished <= submitted

=============================================================================
