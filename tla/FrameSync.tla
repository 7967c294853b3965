----------------------------- MODULE FrameSync -----------------------------
(***************************************************************************)
(* The frame loop of the renderer: core/FrameSync.cpp (frame slots, fences,*)
(* swapchain state), diagnostics/SubmissionSerialTracker.cpp (numbers each *)
(* submission and derives which of them completed) and the part of         *)
(* Application::mainLoop that drives them.                                 *)
(*                                                                         *)
(* The main thread goes round  update -> (recording -> ended | skipped) -> *)
(* update.  The GPU is the counter gpuDone: a fence signals once every     *)
(* submission up to its own has finished, because the frames go to a       *)
(* single queue.                                                           *)
(***************************************************************************)
EXTENDS Naturals

CONSTANTS
  FrameCount,      \* MAX_FRAMES_IN_FLIGHT
  MaxSubmissions   \* bound on the submissions of a behaviour

ASSUME FrameCountAssumption == FrameCount \in Nat \ {0}
ASSUME SubmissionBound == MaxSubmissions \in Nat

Frames == 0 .. FrameCount - 1

Phases == {"update", "recording", "ended", "skipped"}

\* What a fence waits for: the serial of the frame it was submitted with; 0
\* when it was created signalled; Unsignalled after vkResetFences, until the
\* next submission uses it.
Unsignalled == MaxSubmissions + 1

VARIABLES
  phase,              \* where the main loop stands
  currentFrame,       \* FrameSync::currentFrame_
  swapChainOutOfDate, \* FrameSync::swapChainOutOfDate_
  framebufferResized, \* FrameSync::framebufferResized_
  frameSlotSerials,   \* SubmissionSerialTracker::frameSlotSerials_
  nextSerial,         \* SubmissionSerialTracker::nextSerial_
  completedSerial,    \* SubmissionSerialTracker::completedSerial_
  minimized,          \* the window's framebuffer extent is zero
  fence,              \* PerFrame::inFlight of each slot
  gpuSubmitted,       \* frames given to vkQueueSubmit
  gpuDone             \* frames the queue has finished

trackerVars == <<frameSlotSerials, nextSerial, completedSerial>>
gpuVars == <<fence, gpuSubmitted, gpuDone>>
vars == <<phase, currentFrame, swapChainOutOfDate, framebufferResized,
          trackerVars, minimized, gpuVars>>

TypeOK ==
  /\ phase \in Phases
  /\ currentFrame \in Frames
  /\ swapChainOutOfDate \in BOOLEAN
  /\ framebufferResized \in BOOLEAN
  /\ frameSlotSerials \in [Frames -> Nat]
  /\ nextSerial \in Nat \ {0}
  /\ completedSerial \in Nat
  /\ minimized \in BOOLEAN
  /\ fence \in [Frames -> 0 .. Unsignalled]
  /\ gpuSubmitted \in 0 .. MaxSubmissions
  /\ gpuDone \in 0 .. MaxSubmissions

Init ==
  /\ phase = "update"
  /\ currentFrame = 0
  /\ swapChainOutOfDate = FALSE
  /\ framebufferResized = FALSE
  /\ frameSlotSerials = [f \in Frames |-> 0]
  /\ nextSerial = 1
  /\ completedSerial = 0
  /\ minimized = FALSE
  /\ fence = [f \in Frames |-> 0]
  /\ gpuSubmitted = 0
  /\ gpuDone = 0

-----------------------------------------------------------------------------
(* The submission serial tracker.                                          *)

Larger(m, n) == IF m < n THEN n ELSE m

LastSubmittedSerial == nextSerial - 1

\* recordSubmission throws when the slot's previous frame is not known to be
\* complete, so the guard is what keeps the frame loop alive.
RecordSubmission(slot) ==
  /\ frameSlotSerials[slot] <= completedSerial
  /\ frameSlotSerials' = [frameSlotSerials EXCEPT ![slot] = nextSerial]
  /\ nextSerial' = nextSerial + 1
  /\ UNCHANGED completedSerial

CompleteFrameSlot(slot) ==
  /\ completedSerial' = Larger(completedSerial, frameSlotSerials[slot])
  /\ UNCHANGED <<frameSlotSerials, nextSerial>>

CompleteAll ==
  /\ completedSerial' = Larger(completedSerial, LastSubmittedSerial)
  /\ UNCHANGED <<frameSlotSerials, nextSerial>>

-----------------------------------------------------------------------------
(* FrameSync::beginFrame, endFrame and the swapchain.                      *)

Signalled(f) == fence[f] <= gpuDone

\* vkWaitForFences on the slot, completeFrameSlot, then vkAcquireNextImageKHR
\* hands out an image (VK_SUCCESS or VK_SUBOPTIMAL_KHR): the fence is reset
\* and the slot's command buffer is recorded anew.
BeginFrame ==
  /\ phase = "update"
  /\ nextSerial <= MaxSubmissions
  /\ Signalled(currentFrame)
  /\ CompleteFrameSlot(currentFrame)
  /\ fence' = [fence EXCEPT ![currentFrame] = Unsignalled]
  /\ phase' = "recording"
  /\ UNCHANGED <<currentFrame, swapChainOutOfDate, framebufferResized,
                 minimized, gpuSubmitted, gpuDone>>

\* The acquire reports VK_ERROR_OUT_OF_DATE_KHR: no frame, and the fence
\* stays signalled for the next attempt.
BeginFrameOutOfDate ==
  /\ phase = "update"
  /\ Signalled(currentFrame)
  /\ CompleteFrameSlot(currentFrame)
  /\ swapChainOutOfDate' = TRUE
  /\ phase' = "skipped"
  /\ UNCHANGED <<currentFrame, framebufferResized, minimized, gpuVars>>

NextSlot(slot) == (slot + 1) % FrameCount

\* vkQueueSubmit with the slot's fence, recordSubmission, vkQueuePresentKHR.
EndFrame ==
  /\ phase = "recording"
  /\ RecordSubmission(currentFrame)
  /\ gpuSubmitted' = gpuSubmitted + 1
  /\ fence' = [fence EXCEPT ![currentFrame] = gpuSubmitted']
  /\ \E presentOutOfDate \in BOOLEAN :
       IF presentOutOfDate \/ framebufferResized
       THEN swapChainOutOfDate' = TRUE /\ framebufferResized' = FALSE
       ELSE UNCHANGED <<swapChainOutOfDate, framebufferResized>>
  /\ currentFrame' = NextSlot(currentFrame)
  /\ phase' = "ended"
  /\ UNCHANGED <<minimized, gpuDone>>

\* Mutant: the recreation does not wait for the device.
RecreateSwapChain_NoWait ==
  /\ phase \in {"ended", "skipped"}
  /\ swapChainOutOfDate
  /\ ~minimized
  /\ CompleteAll
  /\ swapChainOutOfDate' = FALSE
  /\ phase' = "update"
  /\ UNCHANGED <<currentFrame, framebufferResized, minimized, gpuVars>>

\* Application::handleSwapChainRecreate: Renderer::recreateSwapChain waits for
\* the device to be idle, then every submission is marked completed.
RecreateSwapChain ==
  /\ phase \in {"ended", "skipped"}
  /\ swapChainOutOfDate
  /\ ~minimized
  /\ gpuDone = gpuSubmitted
  /\ CompleteAll
  /\ swapChainOutOfDate' = FALSE
  /\ phase' = "update"
  /\ UNCHANGED <<currentFrame, framebufferResized, minimized, gpuVars>>

\* Mutant: the loop goes on without looking at the swapchain.
NextIteration_Unchecked ==
  /\ phase \in {"ended", "skipped"}
  /\ phase' = "update"
  /\ UNCHANGED <<currentFrame, swapChainOutOfDate, framebufferResized,
                 trackerVars, minimized, gpuVars>>

\* The iteration ends without recreating: nothing to do, or the window is
\* minimized and handleSwapChainRecreate returns at once.
NextIteration ==
  /\ phase \in {"ended", "skipped"}
  /\ swapChainOutOfDate => minimized
  /\ phase' = "update"
  /\ UNCHANGED <<currentFrame, swapChainOutOfDate, framebufferResized,
                 trackerVars, minimized, gpuVars>>

\* Mutant: only the current slot is waited for.
WaitForAllFrames_CurrentOnly ==
  /\ phase = "update"
  /\ Signalled(currentFrame)
  /\ CompleteAll
  /\ UNCHANGED <<phase, currentFrame, swapChainOutOfDate, framebufferResized,
                 minimized, gpuVars>>

\* EditorController::applyPendingViewportResize and the CACAO reconfiguration
\* wait for every slot's fence before they replace per-frame resources.
WaitForAllFrames ==
  /\ phase = "update"
  /\ \A f \in Frames : Signalled(f)
  /\ CompleteAll
  /\ UNCHANGED <<phase, currentFrame, swapChainOutOfDate, framebufferResized,
                 minimized, gpuVars>>

-----------------------------------------------------------------------------
(* The environment: the GPU and the window.                                *)

GpuFinish ==
  /\ gpuDone < gpuSubmitted
  /\ gpuDone' = gpuDone + 1
  /\ UNCHANGED <<phase, currentFrame, swapChainOutOfDate, framebufferResized,
                 trackerVars, minimized, fence, gpuSubmitted>>

\* pollEvents delivers a framebuffer size change (the GLFW resize callback).
WindowResized ==
  /\ phase = "update"
  /\ framebufferResized' = TRUE
  /\ minimized' \in BOOLEAN
  /\ UNCHANGED <<phase, currentFrame, swapChainOutOfDate, trackerVars,
                 gpuVars>>

Next ==
  \/ BeginFrame
  \/ BeginFrameOutOfDate
  \/ EndFrame
  \/ RecreateSwapChain
  \/ NextIteration
  \/ WaitForAllFrames
  \/ GpuFinish
  \/ WindowResized

Spec == Init /\ [][Next]_vars

\* The main loop goes round until the window closes, and the GPU finishes what
\* it was given; the user resizes the window or does not.
MainLoop ==
  \/ BeginFrame
  \/ BeginFrameOutOfDate
  \/ EndFrame
  \/ RecreateSwapChain
  \/ NextIteration

FairSpec == Spec /\ WF_vars(MainLoop) /\ WF_vars(GpuFinish)

-----------------------------------------------------------------------------
(* Properties.                                                             *)

\* A serial that completedSubmissionSerial() reports has been finished by the
\* GPU: every deferred release (models, environments, worlds, material slots,
\* captures) compares against it.
CompletedIsFinished == completedSerial <= gpuDone

\* While a frame is recorded, its slot's previous frame is known complete:
\* the command buffer and the per-frame descriptors being rewritten are not
\* in use, and recordSubmission does not throw.
SlotReusable ==
  phase = "recording" => frameSlotSerials[currentFrame] <= completedSerial

\* Retirement is never more than the frames in flight behind: when a frame is
\* recorded all but the last FrameCount - 1 submissions are known complete.
BoundedLag ==
  phase = "recording" =>
    LastSubmittedSerial < completedSerial + FrameCount

\* A fence that beginFrame or waitForAllFrames may wait for is signalled or
\* belongs to a submitted frame: an acquire that fails must not leave a reset
\* fence behind, since nobody would ever signal it.
WaitTerminates ==
  phase # "recording" => \A f \in Frames : fence[f] <= gpuSubmitted

\* Frames submitted since slot f was last used, counted from the slot that
\* follows it: the slots are reused in turn.
Age(f) ==
  IF f < currentFrame
  THEN currentFrame - 1 - f
  ELSE currentFrame + FrameCount - 1 - f

\* The inductive invariant of the serials: the tracker counts what the queue
\* was given, every fence outside a recording waits for its slot's serial, and
\* no slot is older than its distance from the current one.
FrameInvariant ==
  /\ nextSerial = gpuSubmitted + 1
  /\ completedSerial <= gpuDone
  /\ gpuDone <= gpuSubmitted
  /\ \A f \in Frames :
       /\ frameSlotSerials[f] <= gpuSubmitted
       /\ gpuSubmitted <= frameSlotSerials[f] + Age(f)
       /\ fence[f] = IF phase = "recording" /\ f = currentFrame
                     THEN Unsignalled
                     ELSE frameSlotSerials[f]
  /\ phase = "recording" =>
       /\ frameSlotSerials[currentFrame] <= completedSerial
       /\ gpuSubmitted < MaxSubmissions

\* What the proofs carry from step to step: the types and the serials.
\* CompletedIsFinished, SlotReusable, BoundedLag and WaitTerminates follow.
IInv == TypeOK /\ FrameInvariant

\* The completed serial never moves back, although a slot completed late
\* carries a smaller serial than a swapchain recreation already reported.
CompletedNeverRegresses == [][completedSerial' >= completedSerial]_vars

\* An out-of-date swapchain is recreated unless the window is minimized: the
\* loop must reach the recreation without a frame it can acquire.
OutOfDateResolved ==
  swapChainOutOfDate ~> (~swapChainOutOfDate \/ minimized)

\* FrameSync implements the clock its clients are written against.
Clock == INSTANCE SubmissionClock
           WITH submitted <- LastSubmittedSerial,
                finished <- gpuDone,
                completed <- completedSerial

ImplementsClock == Clock!ClockSpec

=============================================================================
