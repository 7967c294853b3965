-------------------------- MODULE FrameSyncProofs --------------------------
(***************************************************************************)
(* Proofs about FrameSync for every number of frame slots and submissions: *)
(* the type invariant, the safety of the serials, and that the frame loop  *)
(* implements the clock that the deferred releases rely on.                *)
(***************************************************************************)
EXTENDS FrameSync, TLAPS

\* The slot after the current one, without the modulus of FrameSync::endFrame.
LEMMA NextSlotWraps ==
  ASSUME NEW n \in Nat \ {0}, NEW i \in 0 .. n - 1
  PROVE  (i + 1) % n = IF i = n - 1 THEN 0 ELSE i + 1
<1>1. CASE i = n - 1
  <2>1. n % n = 0
    OBVIOUS
  <2>. QED BY <1>1, <2>1
<1>2. CASE i # n - 1
  <2>1. i + 1 \in 0 .. n - 1
    BY <1>2
  <2>2. (i + 1) % n = i + 1
    BY <2>1
  <2>. QED BY <1>2, <2>2
<1>. QED BY <1>1, <1>2

\* Taking the next slot ages every other slot by one and makes the one just
\* used the youngest.
LEMMA SlotsAge ==
  ASSUME currentFrame \in Frames, currentFrame' = NextSlot(currentFrame)
  PROVE  /\ currentFrame' \in Frames
         /\ \A f \in Frames : Age(f)' = IF f = currentFrame THEN 0 ELSE Age(f) + 1
<1>1. currentFrame' = IF currentFrame = FrameCount - 1 THEN 0 ELSE currentFrame + 1
  BY NextSlotWraps, FrameCountAssumption DEF Frames, NextSlot
<1>. QED BY <1>1, FrameCountAssumption DEF Frames, Age

LEMMA AgesAreNatural ==
  ASSUME currentFrame \in Frames
  PROVE  \A f \in Frames : Age(f) \in Nat
BY FrameCountAssumption DEF Frames, Age

LEMMA InitEstablishes == Init => IInv
<1>. SUFFICES ASSUME Init PROVE IInv
  OBVIOUS
<1>. USE FrameCountAssumption, SubmissionBound DEF Init
<1>1. TypeOK
  <2>1. swapChainOutOfDate \in BOOLEAN /\ framebufferResized \in BOOLEAN /\ minimized \in BOOLEAN
    BY Zenon
  <2>. QED BY <2>1 DEF TypeOK, Phases, Frames, Unsignalled
<1>2. FrameInvariant
  BY DEF FrameInvariant, Frames, Age
<1>. QED BY <1>1, <1>2 DEF IInv

LEMMA NextPreserves == IInv /\ [Next]_vars => IInv'
<1>. SUFFICES ASSUME TypeOK, FrameInvariant, [Next]_vars PROVE TypeOK' /\ FrameInvariant'
  BY DEF IInv
<1>. USE FrameCountAssumption, SubmissionBound DEF TypeOK, FrameInvariant
<1>0. currentFrame' = currentFrame => \A f \in Frames : Age(f)' = Age(f)
  BY DEF Age
<1>1. CASE BeginFrame
  <2>1. TypeOK'
    BY <1>1 DEF BeginFrame, CompleteFrameSlot, Larger, Signalled, Phases, Unsignalled, Frames
  <2>2. FrameInvariant'
    BY <1>1, <2>1, <1>0 DEF BeginFrame, CompleteFrameSlot, Larger, Signalled, Unsignalled, Phases
  <2>. QED BY <2>1, <2>2
<1>2. CASE BeginFrameOutOfDate
  <2>1. TypeOK'
    BY <1>2 DEF BeginFrameOutOfDate, CompleteFrameSlot, Larger, Signalled, gpuVars, Phases, Unsignalled, Frames
  <2>2. FrameInvariant'
    BY <1>2, <2>1, <1>0 DEF BeginFrameOutOfDate, CompleteFrameSlot, Larger, Signalled, gpuVars, Unsignalled, Phases
  <2>. QED BY <2>1, <2>2
<1>3. CASE EndFrame
  <2>1. TypeOK'
    <3>1. swapChainOutOfDate' \in BOOLEAN /\ framebufferResized' \in BOOLEAN
      BY <1>3, Zenon DEF EndFrame
    <3>. QED BY <1>3, <3>1, SlotsAge DEF EndFrame, RecordSubmission, Phases, Unsignalled, Frames
  <2>2. FrameInvariant'
    BY <1>3, <2>1, SlotsAge, AgesAreNatural DEF EndFrame, RecordSubmission, Unsignalled, Phases
  <2>. QED BY <2>1, <2>2
<1>4. CASE RecreateSwapChain
  <2>1. TypeOK'
    <3>1. swapChainOutOfDate' \in BOOLEAN
      BY <1>4, Zenon DEF RecreateSwapChain
    <3>. QED BY <1>4, <3>1 DEF RecreateSwapChain, CompleteAll, LastSubmittedSerial, Larger, gpuVars, Phases, Unsignalled, Frames
  <2>2. FrameInvariant'
    BY <1>4, <2>1, <1>0 DEF RecreateSwapChain, CompleteAll, LastSubmittedSerial, Larger, gpuVars, Unsignalled, Phases
  <2>. QED BY <2>1, <2>2
<1>5. CASE NextIteration
  <2>1. TypeOK'
    BY <1>5 DEF NextIteration, gpuVars, trackerVars, Phases, Unsignalled
  <2>2. FrameInvariant'
    BY <1>5, <2>1, <1>0 DEF NextIteration, gpuVars, trackerVars, Unsignalled, Phases
  <2>. QED BY <2>1, <2>2
<1>6. CASE WaitForAllFrames
  <2>1. TypeOK'
    BY <1>6 DEF WaitForAllFrames, CompleteAll, LastSubmittedSerial, Larger, gpuVars, Phases, Unsignalled, Frames
  <2>2. FrameInvariant'
    <3>1. gpuSubmitted <= gpuDone
      <4>. DEFINE youngest == IF currentFrame = 0 THEN FrameCount - 1 ELSE currentFrame - 1
      <4>1. youngest \in Frames /\ Age(youngest) = 0
        BY DEF Frames, Age
      <4>. QED BY <1>6, <4>1 DEF WaitForAllFrames, Signalled
    <3>. QED BY <1>6, <2>1, <1>0, <3>1 DEF WaitForAllFrames, CompleteAll, LastSubmittedSerial, Larger, gpuVars, Unsignalled, Phases
  <2>. QED BY <2>1, <2>2
<1>7. CASE GpuFinish
  <2>1. TypeOK'
    BY <1>7 DEF GpuFinish, trackerVars, Phases, Unsignalled
  <2>2. FrameInvariant'
    BY <1>7, <2>1, <1>0 DEF GpuFinish, trackerVars, Unsignalled, Phases
  <2>. QED BY <2>1, <2>2
<1>8. CASE WindowResized
  <2>1. TypeOK'
    BY <1>8 DEF WindowResized, gpuVars, trackerVars, Phases, Unsignalled
  <2>2. FrameInvariant'
    BY <1>8, <2>1, <1>0 DEF WindowResized, gpuVars, trackerVars, Unsignalled, Phases
  <2>. QED BY <2>1, <2>2
<1>9. CASE UNCHANGED vars
  <2>1. TypeOK'
    BY <1>9 DEF vars, gpuVars, trackerVars, Phases, Unsignalled
  <2>2. FrameInvariant'
    BY <1>9, <2>1, <1>0 DEF vars, gpuVars, trackerVars, Unsignalled, Phases
  <2>. QED BY <2>1, <2>2
<1>. QED
  BY <1>1, <1>2, <1>3, <1>4, <1>5, <1>6, <1>7, <1>8, <1>9 DEF Next

\* Every reachable state of the frame loop satisfies the inductive invariant.
THEOREM InvariantHolds == Spec => []IInv
BY InitEstablishes, NextPreserves, PTL DEF Spec

\* Every variable of the frame loop keeps its type (core/FrameSync.h,
\* diagnostics/SubmissionSerialTracker.h).
THEOREM TypeCorrect == Spec => []TypeOK
BY InvariantHolds, PTL DEF IInv

\* completedSubmissionSerial() never reports a frame that the GPU is still
\* executing, however many frames are in flight.
THEOREM CompletedAreFinished == Spec => []CompletedIsFinished
<1>1. IInv => CompletedIsFinished
  BY DEF IInv, FrameInvariant, CompletedIsFinished
<1>. QED BY InvariantHolds, <1>1, PTL

\* A slot is recorded only after its previous frame is known complete:
\* recordSubmission never throws in the frame loop.
THEOREM SlotsReusable == Spec => []SlotReusable
<1>1. IInv => SlotReusable
  BY DEF IInv, FrameInvariant, SlotReusable
<1>. QED BY InvariantHolds, <1>1, PTL

\* What a frame may still be waiting for is at most the frames in flight, so a
\* retired resource lives at most FrameCount further frames.
THEOREM LagIsBounded == Spec => []BoundedLag
<1>1. IInv => BoundedLag
  <2>. SUFFICES ASSUME IInv, phase = "recording"
                PROVE  LastSubmittedSerial < completedSerial + FrameCount
    BY DEF BoundedLag
  <2>1. currentFrame \in Frames /\ Age(currentFrame) = FrameCount - 1
    BY FrameCountAssumption DEF IInv, TypeOK, Frames, Age
  <2>2. gpuSubmitted <= frameSlotSerials[currentFrame] + Age(currentFrame)
    BY <2>1 DEF IInv, FrameInvariant
  <2>. QED BY <2>1, <2>2, FrameCountAssumption
           DEF IInv, TypeOK, FrameInvariant, LastSubmittedSerial
<1>. QED BY InvariantHolds, <1>1, PTL

\* Outside a recording every fence belongs to a submitted frame: neither
\* beginFrame nor waitForAllFrames can wait for a fence nobody will signal.
THEOREM WaitsTerminate == Spec => []WaitTerminates
<1>1. IInv => WaitTerminates
  BY DEF IInv, FrameInvariant, WaitTerminates
<1>. QED BY InvariantHolds, <1>1, PTL

\* A step of the frame loop never lowers the completed serial.
LEMMA CompletedGrows == IInv /\ [Next]_vars => completedSerial' >= completedSerial
<1>. SUFFICES ASSUME TypeOK, FrameInvariant, [Next]_vars
              PROVE  completedSerial' >= completedSerial
  BY DEF IInv
<1>1. frameSlotSerials[currentFrame] \in Nat /\ LastSubmittedSerial \in Nat /\ completedSerial \in Nat
  BY DEF TypeOK, LastSubmittedSerial
<1>2. completedSerial' \in {completedSerial,
                            Larger(completedSerial, frameSlotSerials[currentFrame]),
                            Larger(completedSerial, LastSubmittedSerial)}
  BY DEF Next, BeginFrame, BeginFrameOutOfDate, EndFrame, RecreateSwapChain, NextIteration,
     WaitForAllFrames, GpuFinish, WindowResized, CompleteFrameSlot, CompleteAll,
     RecordSubmission, vars, trackerVars
<1>. QED BY <1>1, <1>2 DEF Larger

THEOREM CompletedMonotone == Spec => CompletedNeverRegresses
BY InvariantHolds, CompletedGrows, PTL DEF Spec, CompletedNeverRegresses

\* The frame loop starts where the clock starts.
LEMMA InitIsClockInit == Init => Clock!ClockInit
BY DEF Init, Clock!ClockInit, LastSubmittedSerial

\* Each step submits, finishes, observes or leaves the clock alone.
LEMMA StepIsClockStep ==
  IInv /\ IInv' /\ [Next]_vars => [Clock!ClockNext]_(Clock!clockVars)
<1>. SUFFICES ASSUME TypeOK, FrameInvariant, FrameInvariant', TypeOK', [Next]_vars
              PROVE  [Clock!ClockNext]_(Clock!clockVars)
  BY DEF IInv
<1>. USE SubmissionBound DEF TypeOK, LastSubmittedSerial, Clock!clockVars, Clock!ClockNext
<1>1. CASE EndFrame
  BY <1>1 DEF EndFrame, RecordSubmission, Clock!Submit, FrameInvariant
<1>2. CASE GpuFinish
  BY <1>2 DEF GpuFinish, trackerVars, Clock!Finish, FrameInvariant
<1>3. ASSUME UNCHANGED <<nextSerial, gpuDone>>
      PROVE  [Clock!ClockNext]_(Clock!clockVars)
  <2>1. CASE completedSerial' = completedSerial
    BY <1>3, <2>1
  <2>2. CASE completedSerial' # completedSerial
    <3>1. completedSerial' >= completedSerial
      BY CompletedGrows DEF IInv
    <3>2. completedSerial' \in completedSerial + 1 .. gpuDone
      BY <1>3, <2>2, <3>1 DEF FrameInvariant
    <3>. QED BY <1>3, <3>2 DEF Clock!Observe
  <2>. QED BY <2>1, <2>2
<1>4. EndFrame \/ GpuFinish \/ UNCHANGED <<nextSerial, gpuDone>>
  BY DEF Next, BeginFrame, BeginFrameOutOfDate, RecreateSwapChain, NextIteration,
     WaitForAllFrames, WindowResized, CompleteFrameSlot, CompleteAll, vars, gpuVars, trackerVars
<1>. QED BY <1>1, <1>2, <1>3, <1>4

\* FrameSync is an implementation of SubmissionClock: the serials that
\* lastSubmittedSerial() and completedSubmissionSerial() report are those the
\* repositories were written against.
THEOREM FrameSyncImplementsClock == Spec => ImplementsClock
BY InitIsClockInit, StepIsClockStep, InvariantHolds, PTL
DEF Spec, ImplementsClock, Clock!ClockSpec

=============================================================================
