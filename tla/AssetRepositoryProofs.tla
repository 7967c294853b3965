----------------------- MODULE AssetRepositoryProofs -----------------------
(***************************************************************************)
(* Proofs about AssetRepository for every number of keys, holders, records *)
(* and frames: the type invariant, that an asset is destroyed only after   *)
(* the frames that drew with it, that a lease keeps its asset, and that    *)
(* the repository implements DeferredRelease.                              *)
(***************************************************************************)
EXTENDS AssetRepository, TLAPS

-----------------------------------------------------------------------------
(* Types.                                                                  *)

LEMMA InitTyped == Init => TypeOK
<1>. SUFFICES ASSUME Init PROVE TypeOK
  OBVIOUS
<1>1. cancellation \in [Generations -> BOOLEAN]
  BY Zenon DEF Init
<1>2. ClockTypeOK
  BY SubmissionBound DEF Init, ClockInit, ClockTypeOK, Serials
<1>3. NoBuilder \in [gen : Generations \cup {NoGeneration}, phase : BuilderPhases,
                     failurePending : BOOLEAN]
  <2>1. FALSE \in BOOLEAN
    OBVIOUS
  <2>. QED BY <2>1 DEF NoBuilder, BuilderPhases
<1>. QED BY <1>1, <1>2, <1>3, SubmissionBound, GenerationBound
         DEF Init, TypeOK, States, Serials, Generations, IdleWorker, Stages, NoGeneration

LEMMA RequestTyped ==
  ASSUME TypeOK, NEW h \in Holders, NEW k \in Keys, RequestModel(h, k)
  PROVE  TypeOK'
<1>. USE SubmissionBound, GenerationBound DEF TypeOK
<1>1. CASE RequestHit(h, k)
  BY <1>1 DEF RequestModel, RequestHit, clockVars, ClockTypeOK, registryVars, States,
     NoGeneration, Serials
<1>2. CASE RequestCoalesced(h, k)
  BY <1>2 DEF RequestModel, RequestCoalesced, clockVars, ClockTypeOK, recordVars,
     registryVars, NoGeneration
<1>3. ASSUME NEW reload \in BOOLEAN, RequestNew(h, k, reload)
      PROVE  TypeOK'
  <2>1. cancellation' \in [Generations -> BOOLEAN]
    BY <1>3, Zenon DEF RequestNew, Supersede
  <2>2. generations + 1 \in Generations /\ generations' \in 0 .. MaxGenerations
    BY <1>3 DEF RequestNew, Generations
  <2>3. inactive' \in SUBSET Generations
    BY <1>3 DEF RequestNew, Supersede
  <2>4. state' \in [Generations -> States] /\ active' \in [Keys -> Generations \cup {NoGeneration}]
    BY <1>3, <2>2 DEF RequestNew, States, LoadingStates
  <2>5. cpuQueue' \in Seq(Generations) /\ lease' \in [Holders -> Generations \cup {NoGeneration}]
    BY <1>3, <2>2 DEF RequestNew
  <2>. QED BY <1>3, <2>1, <2>2, <2>3, <2>4, <2>5
           DEF RequestModel, RequestNew, clockVars, ClockTypeOK
<1>. QED BY <1>1, <1>2, <1>3 DEF RequestModel

LEMMA PumpTyped == ASSUME TypeOK, Pump PROVE TypeOK'
<1>. USE SubmissionBound, GenerationBound DEF TypeOK
<1>1. CASE PumpContinues
  <2>1. builder' \in [gen : Generations \cup {NoGeneration}, phase : BuilderPhases,
                      failurePending : BOOLEAN]
    BY <1>1, TRUE \in BOOLEAN DEF PumpContinues, BuilderPhases
  <2>. QED BY <1>1, <2>1 DEF Pump, PumpContinues, clockVars, ClockTypeOK, registryVars
<1>2. ASSUME PumpStartsNext PROVE TypeOK'
  <2>1. PICK i \in 0 .. Len(gpuQueue) : PumpStartsNext!(i)
    BY <1>2 DEF PumpStartsNext
  <2>. DEFINE next == IF i < Len(gpuQueue) THEN gpuQueue[i + 1] ELSE NoGeneration
  <2>2. next \in Generations \cup {NoGeneration}
    OBVIOUS
  <2>3. cancellation' \in [Generations -> BOOLEAN]
    BY <2>1, Zenon
  <2>4. gpuQueue' \in Seq(Generations)
    BY <2>1
  <2>5. builder' \in [gen : Generations \cup {NoGeneration}, phase : BuilderPhases,
                      failurePending : BOOLEAN]
    BY <2>1, <2>2, FALSE \in BOOLEAN DEF BuilderPhases
  <2>6. state' \in [Generations -> States]
    BY <2>1 DEF States, LoadingStates, BuilderResult
  <2>7. asset' \in [Generations -> {"None", "Live", "Released"}]
    BY <2>1
  <2>. QED BY <2>3, <2>4, <2>5, <2>6, <2>7 DEF Pump, clockVars, ClockTypeOK, registryVars
<1>. QED BY <1>1, <1>2 DEF Pump

LEMMA ReleaseUnusedTyped == ASSUME TypeOK, ReleaseUnused PROVE TypeOK'
<1>. USE SubmissionBound, GenerationBound DEF TypeOK
<1>1. cancellation' \in [Generations -> BOOLEAN]
  BY Zenon DEF ReleaseUnused
<1>2. state' \in [Generations -> States]
  BY DEF ReleaseUnused, States
<1>3. retireAfter' \in [Generations -> Serials]
  BY DEF ReleaseUnused, RetireSerial, ClockTypeOK
<1>4. asset' \in [Generations -> {"None", "Live", "Released"}]
  BY DEF ReleaseUnused
<1>5. active' \in [Keys -> Generations \cup {NoGeneration}] /\ inactive' \in SUBSET Generations
  BY DEF ReleaseUnused
<1>. QED BY <1>1, <1>2, <1>3, <1>4, <1>5 DEF ReleaseUnused, clockVars, ClockTypeOK

LEMMA WorkerTyped == ASSUME TypeOK, Worker PROVE TypeOK'
<1>. DEFINE Ws == [gen : Generations, step : {"preparing", "skipping"}]
                  \cup [gen : {NoGeneration}, step : {"waiting", "exited"}]
<1>0. IdleWorker \in Ws
  BY DEF IdleWorker
<1>. USE DEF TypeOK, workerFrame, clockVars, ClockTypeOK, registryVars, States,
         LoadingStates
<1>1. CASE WorkerTake
  <2>1. Head(cpuQueue) \in Generations /\ Tail(cpuQueue) \in Seq(Generations)
    BY <1>1 DEF WorkerTake
  <2>2. worker' \in Ws
    BY <1>1, <2>1 DEF WorkerTake
  <2>. QED BY <1>1, <2>1, <2>2 DEF WorkerTake
<1>2. CASE WorkerPrepared
  <2>1. worker.gen \in Generations /\ Append(gpuQueue, worker.gen) \in Seq(Generations)
    BY <1>2 DEF WorkerPrepared
  <2>2. worker' \in Ws
    BY <1>0, <1>2, <2>1 DEF WorkerPrepared
  <2>. QED BY <1>2, <2>1, <2>2 DEF WorkerPrepared
<1>3. CASE WorkerFailed
  BY <1>0, <1>3 DEF WorkerFailed
<1>4. CASE WorkerSkip
  BY <1>0, <1>4 DEF WorkerSkip
<1>5. CASE WorkerExit
  <2>1. worker' \in Ws
    BY <1>5 DEF WorkerExit
  <2>. QED BY <1>5, <2>1 DEF WorkerExit
<1>. QED BY <1>1, <1>2, <1>3, <1>4, <1>5 DEF Worker

LEMMA ShutdownTyped ==
  ASSUME TypeOK, ShutdownBegin \/ Shutdown PROVE TypeOK'
<1>. USE DEF TypeOK, clockVars, ClockTypeOK, registryVars, recordVars, Stages
<1>1. CASE ShutdownBegin
  <2>1. cancellation' \in [Generations -> BOOLEAN]
    BY <1>1, Zenon DEF ShutdownBegin
  <2>. QED BY <1>1, <2>1 DEF ShutdownBegin
<1>2. CASE ShutdownFinish
  <2>1. builder' \in [gen : Generations \cup {NoGeneration}, phase : BuilderPhases,
                      failurePending : BOOLEAN]
    BY <1>2, FALSE \in BOOLEAN DEF ShutdownFinish, NoBuilder, BuilderPhases
  <2>. QED BY <1>2, <2>1 DEF ShutdownFinish
<1>3. CASE DeviceWaitIdle
  BY <1>3 DEF DeviceWaitIdle
<1>4. CASE DestroyWorlds
  BY <1>4 DEF DestroyWorlds
<1>. QED BY <1>1, <1>2, <1>3, <1>4 DEF Shutdown

LEMMA NextTyped == TypeOK /\ [Next]_vars => TypeOK'
<1>. SUFFICES ASSUME TypeOK, [Next]_vars PROVE TypeOK'
  OBVIOUS
<1>. USE DEF TypeOK, clockVars, ClockTypeOK, registryVars, recordVars
<1>1. ASSUME NEW h \in Holders, DropLease(h) PROVE TypeOK'
  BY <1>1 DEF DropLease
<1>2. ASSUME NEW k \in Keys, Invalidate(k) PROVE TypeOK'
  <2>1. cancellation' \in [Generations -> BOOLEAN]
    BY <1>2, Zenon DEF Invalidate, Supersede
  <2>2. inactive' \in SUBSET Generations
    BY <1>2 DEF Invalidate, Supersede
  <2>. QED BY <1>2, <2>1, <2>2 DEF Invalidate
<1>3. CASE RenderFrame
  BY <1>3, SubmissionBound DEF RenderFrame, Submit, Serials
<1>4. CASE GpuFinish
  BY <1>4, SubmissionBound DEF GpuFinish, Finish, Serials
<1>5. CASE ObserveCompletion
  BY <1>5, SubmissionBound DEF ObserveCompletion, Observe, Serials
<1>6. CASE UNCHANGED vars
  BY <1>6 DEF vars
<1>. QED
  BY <1>1, <1>2, <1>3, <1>4, <1>5, <1>6, RequestTyped, PumpTyped, ReleaseUnusedTyped,
     WorkerTyped, ShutdownTyped
  DEF Next, Exited

-----------------------------------------------------------------------------
(* Where the records are.                                                  *)

LEMMA NoGenerationIsNone == NoGeneration \notin Generations
BY GenerationBound DEF NoGeneration, Generations

LEMMA RequestPlaces ==
  ASSUME TypeOK, PlacesInvariant, AssetInvariant,
         NEW h \in Holders, NEW k \in Keys, RequestModel(h, k)
  PROVE  PlacesInvariant'
<1>. USE GenerationBound DEF PlacesInvariant
<1>1. CASE RequestHit(h, k)
  BY <1>1 DEF RequestModel, RequestHit, registryVars, TypeOK
<1>2. CASE RequestCoalesced(h, k)
  BY <1>2 DEF RequestModel, RequestCoalesced, recordVars, registryVars
<1>3. ASSUME NEW reload \in BOOLEAN, RequestNew(h, k, reload)
      PROVE  PlacesInvariant'
  <2>. DEFINE new == generations + 1
  <2>1. new \in Generations /\ state[new] = "Unloaded"
    BY <1>3 DEF RequestNew, Generations, AssetInvariant, TypeOK
  <2>2. state' = [state EXCEPT ![new] = "Queued"] /\ generations' = new
        /\ cpuQueue' = Append(cpuQueue, new)
    BY <1>3 DEF RequestNew
  <2>3. UNCHANGED <<gpuQueue, builder, worker>>
    BY DEF RequestModel
  <2>4. worker.gen # new
    BY <2>1 DEF TypeOK, Generations, NoGeneration
  <2>5. \A i \in DOMAIN cpuQueue' :
          \/ i \in DOMAIN cpuQueue /\ cpuQueue'[i] = cpuQueue[i] /\ cpuQueue[i] # new
          \/ i = Len(cpuQueue) + 1 /\ cpuQueue'[i] = new
    BY <2>1, <2>2 DEF TypeOK
  <2>. HIDE DEF new
  <2>6. \A i \in DOMAIN cpuQueue' :
          /\ state'[cpuQueue'[i]] = "Queued"
          /\ cpuQueue'[i] <= generations'
          /\ cpuQueue'[i] # worker'.gen
    BY <2>1, <2>2, <2>3, <2>4, <2>5 DEF TypeOK, Generations, new
  <2>7. \A i, j \in DOMAIN cpuQueue' : cpuQueue'[i] = cpuQueue'[j] => i = j
    BY <2>5
  <2>8. \A g \in Generations : state[g] # "Unloaded" => state'[g] = state[g]
    BY <2>1, <2>2 DEF TypeOK
  <2>9. \A i \in DOMAIN gpuQueue : gpuQueue[i] \in Generations
    BY DEF TypeOK
  <2>10. worker.gen \in Generations \cup {NoGeneration}
         /\ builder.gen \in Generations \cup {NoGeneration}
    BY DEF TypeOK
  <2>11. worker.step \in {"preparing", "skipping"} => worker.gen \in Generations
    BY DEF TypeOK
  <2>. QED BY <2>3, <2>6, <2>7, <2>8, <2>9, <2>10, <2>11
<1>. QED BY <1>1, <1>2, <1>3 DEF RequestModel

LEMMA PumpPlaces ==
  ASSUME TypeOK, PlacesInvariant, Pump PROVE PlacesInvariant'
<1>1. CASE PumpContinues
  BY <1>1, ZenonT(30) DEF Pump, PumpContinues, PlacesInvariant, registryVars, TypeOK, NoBuilder
<1>2. ASSUME PumpStartsNext PROVE PlacesInvariant'
  <2>1. PICK i \in 0 .. Len(gpuQueue) : PumpStartsNext!(i)
    BY <1>2 DEF PumpStartsNext
  <2>. DEFINE next == IF i < Len(gpuQueue) THEN gpuQueue[i + 1] ELSE NoGeneration
  <2>. DEFINE left == SubSeq(gpuQueue, i + 2, Len(gpuQueue))
  <2>2. next \in Generations \cup {NoGeneration}
    BY DEF TypeOK
  <2>3. \A g \in Generations :
          state[g] \notin {"ReadyForUpload", "Uploading"} => state'[g] = state[g]
    <3>1. builder.gen \in Generations => state[builder.gen] = "Uploading"
      BY DEF PlacesInvariant, NoGeneration, Generations
    <3>2. next \in Generations => state[next] = "ReadyForUpload"
      BY DEF PlacesInvariant, TypeOK, NoGeneration, Generations
    <3>. QED BY <2>1, <3>1, <3>2
  <2>4. \A m \in DOMAIN left : m + i + 1 \in DOMAIN gpuQueue /\ left[m] = gpuQueue[m + i + 1]
    <3>1. \A m \in 1 .. Len(gpuQueue) - i - 1 : left[m] = gpuQueue[m + i + 1]
      BY DEF TypeOK
    <3>2. Len(left) = IF i + 2 <= Len(gpuQueue) THEN Len(gpuQueue) - i - 1 ELSE 0
      BY DEF TypeOK
    <3>3. left \in Seq(Generations)
      BY DEF TypeOK
    <3>4. DOMAIN left = 1 .. Len(left) /\ DOMAIN gpuQueue = 1 .. Len(gpuQueue)
          /\ Len(gpuQueue) \in Nat
      BY <3>3 DEF TypeOK
    <3>. TAKE m \in DOMAIN left
    <3>5. m \in 1 .. Len(left) /\ i \in Nat
      BY <3>4
    <3>. HIDE DEF left
    <3>6. i + 2 <= Len(gpuQueue) /\ m \in 1 .. Len(gpuQueue) - i - 1
      <4>1. CASE i + 2 <= Len(gpuQueue)
        <5>1. Len(left) = Len(gpuQueue) - i - 1
          BY <3>2, <4>1
        <5>. QED BY <3>5, <4>1, <5>1
      <4>2. CASE ~(i + 2 <= Len(gpuQueue))
        <5>1. Len(left) = 0
          BY <3>2, <4>2
        <5>2. 1 .. 0 = {}
          OBVIOUS
        <5>. QED BY <3>5, <5>1, <5>2
      <4>. QED BY <4>1, <4>2
    <3>7. m + i + 1 \in 1 .. Len(gpuQueue)
      BY <3>4, <3>5, <3>6
    <3>. QED BY <3>1, <3>4, <3>6, <3>7
  <2>5. gpuQueue' = left
    BY <2>1
  <2>6. \A m \in DOMAIN left : state'[left[m]] = "ReadyForUpload"
    <3>. TAKE m \in DOMAIN left
    <3>1. m + i + 1 \in DOMAIN gpuQueue /\ left[m] = gpuQueue[m + i + 1] /\ m \in Nat /\ m > 0
      BY <2>4 DEF TypeOK
    <3>2. left[m] # next
      BY <3>1 DEF PlacesInvariant, TypeOK, NoGeneration, Generations
    <3>3. \A j \in 1 .. i : gpuQueue[j] # left[m]
      BY <3>1 DEF PlacesInvariant, TypeOK
    <3>4. left[m] \in Generations /\ state[left[m]] = "ReadyForUpload"
      BY <3>1 DEF PlacesInvariant, TypeOK
    <3>5. left[m] # builder.gen
      BY <3>4 DEF PlacesInvariant, NoGeneration, Generations
    <3>. HIDE DEF next, left
    <3>. QED BY <2>1, <3>2, <3>3, <3>4, <3>5 DEF next
  <2>7. \A m, n \in DOMAIN left : left[m] = left[n] => m = n
    BY <2>4 DEF PlacesInvariant, TypeOK
  <2>8. builder'.gen = next /\ (next = NoGeneration => builder' = NoBuilder)
    BY <2>1 DEF NoBuilder
  <2>9. next # NoGeneration => state'[next] = "Uploading"
    <3>. SUFFICES ASSUME next # NoGeneration PROVE state'[next] = "Uploading"
      OBVIOUS
    <3>1. i + 1 \in DOMAIN gpuQueue /\ next = gpuQueue[i + 1]
      BY DEF TypeOK
    <3>2. next # builder.gen /\ next \in Generations
      BY <3>1, <2>2 DEF PlacesInvariant, NoGeneration, Generations
    <3>3. \A j \in 1 .. i : gpuQueue[j] # next
      BY <3>1 DEF PlacesInvariant, TypeOK
    <3>. QED BY <2>1, <3>2, <3>3
  <2>10. UNCHANGED <<cpuQueue, worker, generations>>
    BY DEF Pump, registryVars
  <2>11. \A j \in DOMAIN cpuQueue : cpuQueue[j] \in Generations
    BY DEF TypeOK
  <2>12. worker.step \in {"preparing", "skipping"} => worker.gen \in Generations
    BY DEF TypeOK
  <2>. HIDE DEF next, left
  <2>. QED BY <2>3, <2>5, <2>6, <2>7, <2>8, <2>9, <2>10, <2>11, <2>12 DEF PlacesInvariant
<1>. QED BY <1>1, <1>2 DEF Pump

LEMMA WorkerPlaces ==
  ASSUME TypeOK, PlacesInvariant, AssetInvariant, Worker PROVE PlacesInvariant'
<1>0. UNCHANGED <<generations, builder>>
  BY DEF Worker, WorkerTake, WorkerPrepared, WorkerFailed, WorkerSkip, WorkerExit,
     workerFrame, registryVars
<1>. USE DEF PlacesInvariant
<1>1. CASE WorkerTake
  <2>1. /\ Head(cpuQueue) = cpuQueue[1]
        /\ 1 \in DOMAIN cpuQueue
        /\ cpuQueue[1] \in Generations
    BY <1>1 DEF WorkerTake, TypeOK
  <2>2. \A i \in DOMAIN cpuQueue' :
          /\ i + 1 \in DOMAIN cpuQueue
          /\ cpuQueue'[i] = cpuQueue[i + 1]
          /\ i \in Nat \ {0}
    BY <1>1 DEF WorkerTake, TypeOK
  <2>3. \A i \in DOMAIN cpuQueue' : cpuQueue'[i] # cpuQueue[1]
    BY <2>1, <2>2
  <2>4. /\ worker'.gen = cpuQueue[1]
        /\ \/ worker'.step = "skipping" /\ state' = state
           \/ worker'.step = "preparing" /\ state' = [state EXCEPT ![cpuQueue[1]] = "PreparingCpu"]
    BY <1>1, <2>1 DEF WorkerTake
  <2>5. gpuQueue' = gpuQueue
    BY <1>1 DEF WorkerTake
  <2>6. \A i \in DOMAIN cpuQueue' :
          /\ state'[cpuQueue'[i]] = "Queued"
          /\ cpuQueue'[i] <= generations'
          /\ cpuQueue'[i] # worker'.gen
    BY <1>0, <2>1, <2>2, <2>3, <2>4 DEF TypeOK
  <2>7. \A i, j \in DOMAIN cpuQueue' : cpuQueue'[i] = cpuQueue'[j] => i = j
    BY <2>2
  <2>8. \A g \in Generations : state[g] # "Queued" => state'[g] = state[g]
    BY <2>1, <2>4 DEF TypeOK
  <2>9. state'[cpuQueue[1]] \in {"Queued", "PreparingCpu"}
        /\ (worker'.step = "preparing" => state'[cpuQueue[1]] = "PreparingCpu")
    BY <2>1, <2>4 DEF TypeOK
  <2>10. \A i \in DOMAIN gpuQueue : gpuQueue[i] \in Generations
    BY DEF TypeOK
  <2>11. builder.gen # NoGeneration => builder.gen \in Generations
    BY DEF TypeOK
  <2>. QED BY <1>0, <2>4, <2>5, <2>6, <2>7, <2>8, <2>9, <2>10, <2>11
<1>2. CASE WorkerPrepared
  <2>1. CASE Unwanted(worker.gen)
    BY <1>0, <1>2, <2>1 DEF WorkerPrepared, TypeOK
  <2>2. CASE ~Unwanted(worker.gen)
    <3>. DEFINE g == worker.gen
    <3>1. g \in Generations /\ state[g] = "PreparingCpu" /\ worker' = IdleWorker
          /\ state' = [state EXCEPT ![g] = "ReadyForUpload"]
          /\ gpuQueue' = Append(gpuQueue, g) /\ cpuQueue' = cpuQueue
      BY <1>2, <2>2 DEF WorkerPrepared, TypeOK
    <3>2. \A i \in DOMAIN gpuQueue' :
            \/ i \in DOMAIN gpuQueue /\ gpuQueue'[i] = gpuQueue[i] /\ gpuQueue[i] # g
            \/ i = Len(gpuQueue) + 1 /\ gpuQueue'[i] = g
      BY <3>1 DEF TypeOK
    <3>3. \A x \in Generations : x # g => state'[x] = state[x]
      BY <3>1 DEF TypeOK
    <3>4. state'[g] = "ReadyForUpload"
      BY <3>1 DEF TypeOK
    <3>5. \A i \in DOMAIN gpuQueue : gpuQueue[i] \in Generations
      BY DEF TypeOK
    <3>6. \A i \in DOMAIN gpuQueue' : state'[gpuQueue'[i]] = "ReadyForUpload"
      BY <3>2, <3>3, <3>4, <3>5
    <3>7. \A i, j \in DOMAIN gpuQueue' : gpuQueue'[i] = gpuQueue'[j] => i = j
      BY <3>2
    <3>8. \A i \in DOMAIN cpuQueue : cpuQueue[i] \in Generations /\ cpuQueue[i] # NoGeneration
      BY NoGenerationIsNone DEF TypeOK
    <3>9. builder.gen # NoGeneration => builder.gen \in Generations /\ builder.gen # g
      BY <3>1 DEF TypeOK
    <3>. QED BY <1>0, <3>1, <3>3, <3>6, <3>7, <3>8, <3>9 DEF IdleWorker
  <2>. QED BY <2>1, <2>2
<1>3. ASSUME worker.gen \in Generations, state[worker.gen] \in {"Queued", "PreparingCpu"},
             worker' = IdleWorker, UNCHANGED <<cpuQueue, gpuQueue>>,
             NEW result, state' = [state EXCEPT ![worker.gen] = result]
      PROVE  PlacesInvariant'
  <2>1. \A x \in Generations : x # worker.gen => state'[x] = state[x]
    BY <1>3 DEF TypeOK
  <2>2. \A i \in DOMAIN cpuQueue : cpuQueue[i] \in Generations /\ cpuQueue[i] # NoGeneration
    BY NoGenerationIsNone DEF TypeOK
  <2>3. \A i \in DOMAIN gpuQueue : gpuQueue[i] \in Generations /\ gpuQueue[i] # worker.gen
    BY <1>3 DEF TypeOK
  <2>4. builder.gen # NoGeneration => builder.gen \in Generations /\ builder.gen # worker.gen
    BY <1>3 DEF TypeOK
  <2>. QED BY <1>0, <1>3, <2>1, <2>2, <2>3, <2>4 DEF IdleWorker
<1>4. CASE WorkerFailed \/ WorkerSkip
  BY <1>3, <1>4 DEF WorkerFailed, WorkerSkip, TypeOK
<1>5. CASE WorkerExit
  BY <1>0, <1>5 DEF WorkerExit, TypeOK
<1>. QED BY <1>1, <1>2, <1>3, <1>4, <1>5 DEF Worker

\* releaseUnused only rewrites records that are Ready or Retiring.
LEMMA ReleaseUnusedPlaces ==
  ASSUME TypeOK, PlacesInvariant, ReleaseUnused PROVE PlacesInvariant'
<1>1. \A g \in Generations : state[g] \in LoadingStates => state'[g] = state[g]
  BY DEF ReleaseUnused, Retirees, LoadingStates
<1>2. UNCHANGED <<generations, cpuQueue, gpuQueue, builder, worker>>
  BY DEF ReleaseUnused
<1>3. /\ \A i \in DOMAIN cpuQueue : cpuQueue[i] \in Generations
      /\ \A i \in DOMAIN gpuQueue : gpuQueue[i] \in Generations
      /\ builder.gen # NoGeneration => builder.gen \in Generations
      /\ worker.step \in {"preparing", "skipping"} => worker.gen \in Generations
  BY DEF TypeOK
<1>. QED BY <1>1, <1>2, <1>3 DEF PlacesInvariant, LoadingStates

LEMMA NextPlaces ==
  TypeOK /\ PlacesInvariant /\ AssetInvariant /\ [Next]_vars => PlacesInvariant'
<1>. SUFFICES ASSUME TypeOK, PlacesInvariant, AssetInvariant, [Next]_vars
              PROVE  PlacesInvariant'
  OBVIOUS
<1>1. CASE ShutdownFinish
  BY <1>1 DEF ShutdownFinish, PlacesInvariant, NoBuilder
<1>2. ASSUME UNCHANGED <<state, generations, cpuQueue, gpuQueue, builder, worker>>
      PROVE  PlacesInvariant'
  BY <1>2 DEF PlacesInvariant
<1>3. ASSUME NEW h \in Holders, DropLease(h) PROVE PlacesInvariant'
  BY <1>2, <1>3 DEF DropLease, recordVars, registryVars
<1>4. ASSUME NEW k \in Keys, Invalidate(k) PROVE PlacesInvariant'
  BY <1>2, <1>4 DEF Invalidate
<1>5. CASE RenderFrame \/ GpuFinish \/ ObserveCompletion \/ UNCHANGED vars
  BY <1>2, <1>5 DEF RenderFrame, GpuFinish, ObserveCompletion, vars, recordVars, registryVars
<1>6. CASE ShutdownBegin \/ DeviceWaitIdle \/ DestroyWorlds
  BY <1>2, <1>6 DEF ShutdownBegin, DeviceWaitIdle, DestroyWorlds, recordVars, registryVars
<1>. QED
  BY <1>1, <1>3, <1>4, <1>5, <1>6, RequestPlaces, PumpPlaces, WorkerPlaces,
     ReleaseUnusedPlaces
  DEF Next, Shutdown, Exited

-----------------------------------------------------------------------------
(* Assets and their last use.                                              *)

LEMMA RequestAssets ==
  ASSUME TypeOK, AssetInvariant, NEW h \in Holders, NEW k \in Keys, RequestModel(h, k)
  PROVE  AssetInvariant'
<1>. USE GenerationBound DEF AssetInvariant, ClockOrder, ReleasedAfterLastUse
<1>0. UNCHANGED <<submitted, finished, completed, asset, lastUse, stage>> /\ stage = "running"
  BY DEF RequestModel, RequestHit, RequestCoalesced, RequestNew, recordVars, clockVars
<1>1. CASE RequestHit(h, k)
  <2>1. active[k] \in Held /\ active[k] \in Generations
    BY <1>1 DEF RequestHit, Held, ActiveRecords, TypeOK
  <2>2. Held' = Held
    BY <1>1 DEF RequestHit, registryVars, Held, ActiveRecords
  <2>3. \A g \in Generations : g # active[k] => (Leased(g)' <=> Leased(g)) /\ state'[g] = state[g]
                                              /\ retireAfter'[g] = retireAfter[g]
    <3>1. lease' = [lease EXCEPT ![h] = active[k]] /\ lease[h] \notin Generations
      BY <1>1, NoGenerationIsNone DEF RequestModel, RequestHit
    <3>. QED BY <1>1, <3>1 DEF RequestHit, Leased, TypeOK
  <2>4. state'[active[k]] = "Ready" /\ state[active[k]] \in {"Ready", "Retiring"}
    BY <1>1, <2>1 DEF RequestHit, TypeOK
  <2>5. generations' = generations
    BY <1>1 DEF RequestHit, registryVars
  <2>. QED BY <1>0, <2>1, <2>2, <2>3, <2>4, <2>5
<1>2. CASE RequestCoalesced(h, k)
  <2>1. active[k] \in Held /\ active[k] \in Generations
    BY <1>2 DEF RequestCoalesced, Held, ActiveRecords, TypeOK
  <2>2. Held' = Held /\ UNCHANGED <<state, retireAfter, generations>>
    BY <1>2 DEF RequestCoalesced, recordVars, registryVars, Held, ActiveRecords
  <2>3. \A g \in Generations : g # active[k] => (Leased(g)' <=> Leased(g))
    <3>1. lease' = [lease EXCEPT ![h] = active[k]] /\ lease[h] \notin Generations
      BY <1>2, NoGenerationIsNone DEF RequestModel, RequestCoalesced
    <3>. QED BY <1>2, <3>1 DEF RequestCoalesced, Leased, TypeOK
  <2>. QED BY <1>0, <2>1, <2>2, <2>3
<1>3. ASSUME NEW reload \in BOOLEAN, RequestNew(h, k, reload)
      PROVE  AssetInvariant'
  <2>. DEFINE new == generations + 1
  <2>1. new \in Generations /\ state[new] = "Unloaded" /\ asset[new] = "None" /\ new > generations
    <3>1. new \in Generations /\ new > generations
      BY <1>3 DEF RequestNew, Generations, TypeOK
    <3>2. state[new] = "Unloaded"
      BY <3>1
    <3>. QED BY <3>1, <3>2 DEF TypeOK
  <2>2. Held' \subseteq Held \cup {new}
    BY <1>3 DEF RequestNew, Supersede, Held, ActiveRecords, TypeOK
  <2>3. \A g \in Generations : g # new => (Leased(g)' => Leased(g)) /\ state'[g] = state[g]
    BY <1>3 DEF RequestNew, Leased, TypeOK
  <2>4. state'[new] = "Queued" /\ generations' = new /\ retireAfter' = retireAfter
    BY <1>3, <2>1 DEF RequestNew, TypeOK
  <2>. HIDE DEF new
  <2>5. \A g \in Generations : g > new => g > generations /\ g # new
    BY <2>1 DEF new, TypeOK, Generations
  <2>. QED BY <1>0, <2>1, <2>2, <2>3, <2>4, <2>5
<1>. QED BY <1>1, <1>2, <1>3 DEF RequestModel

LEMMA PumpAssets ==
  ASSUME TypeOK, PlacesInvariant, AssetInvariant, Pump PROVE AssetInvariant'
<1>. USE DEF AssetInvariant, ClockOrder, ReleasedAfterLastUse
<1>1. UNCHANGED <<submitted, finished, completed, lastUse, retireAfter, stage, generations,
                  lease, active, inactive>>
  BY DEF Pump, clockVars, registryVars
<1>2. Held' = Held /\ \A g \in Generations : Leased(g)' <=> Leased(g)
  BY <1>1 DEF Held, ActiveRecords, Leased
<1>3. CASE PumpContinues
  BY <1>1, <1>2, <1>3 DEF PumpContinues
<1>4. ASSUME PumpStartsNext PROVE AssetInvariant'
  <2>1. PICK i \in 0 .. Len(gpuQueue) : PumpStartsNext!(i)
    BY <1>4 DEF PumpStartsNext
  <2>. DEFINE next == IF i < Len(gpuQueue) THEN gpuQueue[i + 1] ELSE NoGeneration
  <2>2. \A g \in Generations :
          \/ state'[g] = state[g] /\ asset'[g] = asset[g]
          \/ /\ state[g] \in {"ReadyForUpload", "Uploading"}
             /\ \/ state'[g] = "Ready" /\ asset'[g] = "Live"
                \/ state'[g] \in {"Uploading", "Failed", "Cancelled"} /\ asset'[g] = asset[g]
    <3>. TAKE g \in Generations
    <3>1. g = builder.gen => state[g] = "Uploading"
      BY NoGenerationIsNone DEF PlacesInvariant
    <3>2. g = next => state[g] = "ReadyForUpload"
      BY NoGenerationIsNone DEF PlacesInvariant, TypeOK
    <3>3. CASE g = builder.gen
      <4>1. state'[g] = BuilderResult
            /\ asset'[g] = IF BuilderResult = "Ready" THEN "Live" ELSE asset[g]
        BY <2>1, <3>1, <3>2, <3>3
      <4>. QED BY <3>1, <3>3, <4>1 DEF BuilderResult
    <3>4. CASE g # builder.gen
      <4>1. asset'[g] = asset[g]
        BY <2>1, <3>4
      <4>2. \/ state'[g] \in {"Cancelled", "Uploading"} /\ state[g] = "ReadyForUpload"
            \/ state'[g] = state[g]
        BY <2>1, <3>2, <3>4
      <4>. QED BY <4>1, <4>2
    <3>. QED BY <3>3, <3>4
  <2>. QED BY <1>1, <1>2, <2>2
<1>. QED BY <1>3, <1>4 DEF Pump

LEMMA ReleaseUnusedAssets ==
  ASSUME TypeOK, AssetInvariant, ReleaseUnused PROVE AssetInvariant'
<1>. USE DEF AssetInvariant, ClockOrder, ReleasedAfterLastUse
<1>1. UNCHANGED <<submitted, finished, completed, lastUse, stage, generations, lease>>
  BY DEF ReleaseUnused, clockVars
<1>2. Held' = Held \ Collected
  BY DEF ReleaseUnused, Held, ActiveRecords, Collected, Expired, Retirees, Unused, TypeOK
<1>3. \A g \in Generations : Leased(g)' <=> Leased(g)
  BY <1>1 DEF Leased
<1>4. \A g \in Generations : g \in Expired =>
        /\ state[g] \in {"Ready", "Retiring"} /\ g \in Held /\ ~Leased(g) /\ g \in Collected
        /\ lastUse[g] <= finished
  BY DEF Expired, Collected, Retirees, Unused, RetireSerial, TypeOK, ClockTypeOK, Serials
<1>5. \A g \in Generations : asset'[g] = IF g \in Expired THEN "Released" ELSE asset[g]
  BY DEF ReleaseUnused
<1>6. \A g \in Generations :
        (state'[g] \in {"Ready", "Retiring"} <=> state[g] \in {"Ready", "Retiring"})
        /\ (state'[g] = "Unloaded" <=> state[g] = "Unloaded")
  BY DEF ReleaseUnused, Retirees
<1>7. \A g \in Generations : state'[g] = "Retiring" => lastUse[g] <= retireAfter'[g]
  BY DEF ReleaseUnused, Retirees, Unused, RetireSerial
<1>. QED BY <1>1, <1>2, <1>3, <1>4, <1>5, <1>6, <1>7

LEMMA WorkerAssets ==
  ASSUME TypeOK, PlacesInvariant, AssetInvariant, Worker PROVE AssetInvariant'
<1>. USE DEF AssetInvariant, ClockOrder, ReleasedAfterLastUse
<1>1. UNCHANGED <<submitted, finished, completed, lastUse, retireAfter, stage, generations,
                  lease, active, inactive, asset>>
  BY DEF Worker, WorkerTake, WorkerPrepared, WorkerFailed, WorkerSkip, WorkerExit,
     workerFrame, clockVars, registryVars
<1>2. Held' = Held /\ \A g \in Generations : Leased(g)' <=> Leased(g)
  BY <1>1 DEF Held, ActiveRecords, Leased
<1>3. \A g \in Generations :
        \/ state'[g] = state[g]
        \/ state[g] \in {"Queued", "PreparingCpu"}
           /\ state'[g] \in {"PreparingCpu", "ReadyForUpload", "Failed", "Cancelled"}
  <2>1. CASE WorkerTake
    <3>1. Head(cpuQueue) = cpuQueue[1] /\ 1 \in DOMAIN cpuQueue
      BY <2>1 DEF WorkerTake, TypeOK
    <3>2. state[Head(cpuQueue)] = "Queued"
      BY <3>1 DEF PlacesInvariant
    <3>. QED BY <2>1, <3>2 DEF WorkerTake, TypeOK
  <2>2. CASE WorkerPrepared \/ WorkerFailed \/ WorkerSkip
    BY <2>2 DEF WorkerPrepared, WorkerFailed, WorkerSkip, PlacesInvariant, TypeOK
  <2>3. CASE WorkerExit
    BY <2>3 DEF WorkerExit
  <2>. QED BY <2>1, <2>2, <2>3 DEF Worker
<1>. QED BY <1>1, <1>2, <1>3

LEMMA ShutdownAssets ==
  ASSUME TypeOK, AssetInvariant, ShutdownBegin \/ Shutdown PROVE AssetInvariant'
<1>. USE DEF AssetInvariant, ClockOrder, ReleasedAfterLastUse
<1>1. CASE ShutdownBegin
  BY <1>1 DEF ShutdownBegin, clockVars, registryVars, Held, ActiveRecords, Leased
<1>2. CASE ShutdownFinish
  <2>1. Held' = {}
    BY <1>2 DEF ShutdownFinish, Held, ActiveRecords
  <2>2. UNCHANGED <<submitted, finished, completed, lastUse, retireAfter, generations, state>>
        /\ stage' # "running"
    BY <1>2 DEF ShutdownFinish, clockVars
  <2>3. \A g \in Generations : Leased(g)' <=> Leased(g)
    BY <1>2 DEF ShutdownFinish, Leased
  <2>4. \A g \in Generations : \/ asset'[g] = asset[g]
                               \/ asset[g] = "Live" /\ asset'[g] = "Released" /\ ~Leased(g)
    BY <1>2 DEF ShutdownFinish, Unused
  <2>. QED BY <2>1, <2>2, <2>3, <2>4
<1>3. CASE DeviceWaitIdle
  <2>1. Held' = Held /\ \A g \in Generations : Leased(g)' <=> Leased(g)
    BY <1>3 DEF DeviceWaitIdle, registryVars, Held, ActiveRecords, Leased
  <2>2. stage = "stopped" /\ ClockOrder'
    BY <1>3 DEF DeviceWaitIdle, TypeOK, ClockTypeOK, Serials
  <2>. QED BY <1>3, <2>1, <2>2 DEF DeviceWaitIdle, recordVars, registryVars
<1>4. CASE DestroyWorlds
  <2>1. Held' = Held /\ stage' # "running"
    BY <1>4 DEF DestroyWorlds, registryVars, Held, ActiveRecords
  <2>2. \A g \in Generations : ~Leased(g)'
    BY <1>4, NoGenerationIsNone DEF DestroyWorlds, Leased
  <2>. QED BY <1>4, <2>1, <2>2 DEF DestroyWorlds, clockVars, registryVars
<1>. QED BY <1>1, <1>2, <1>3, <1>4 DEF Shutdown

LEMMA NextAssets ==
  TypeOK /\ PlacesInvariant /\ AssetInvariant /\ [Next]_vars => AssetInvariant'
<1>. SUFFICES ASSUME TypeOK, PlacesInvariant, AssetInvariant, [Next]_vars
              PROVE  AssetInvariant'
  OBVIOUS
<1>. USE DEF AssetInvariant, ClockOrder, ReleasedAfterLastUse
<1>1. ASSUME NEW h \in Holders, DropLease(h) PROVE AssetInvariant'
  <2>1. \A g \in Generations : Leased(g)' => Leased(g)
    BY <1>1, NoGenerationIsNone DEF DropLease, Leased, TypeOK
  <2>2. Held' = Held
    BY <1>1 DEF DropLease, registryVars, Held, ActiveRecords
  <2>. QED BY <1>1, <2>1, <2>2 DEF DropLease, clockVars, recordVars, registryVars
<1>2. ASSUME NEW k \in Keys, Invalidate(k) PROVE AssetInvariant'
  <2>1. Held' \subseteq Held
    BY <1>2 DEF Invalidate, Supersede, Held, ActiveRecords, TypeOK
  <2>2. \A g \in Generations : Leased(g)' <=> Leased(g)
    BY <1>2 DEF Invalidate, Leased
  <2>. QED BY <1>2, <2>1, <2>2 DEF Invalidate, clockVars
<1>3. ASSUME UNCHANGED <<recordVars, registryVars, stage, lease>>
      PROVE  Held' = Held /\ \A g \in Generations : Leased(g)' <=> Leased(g)
  BY <1>3 DEF registryVars, Held, ActiveRecords, Leased
<1>4. CASE RenderFrame
  <2>1. Held' = Held /\ \A g \in Generations : Leased(g)' <=> Leased(g)
    BY <1>4 DEF RenderFrame, registryVars, Held, ActiveRecords, Leased
  <2>2. submitted' = submitted + 1 /\ submitted \in Nat
        /\ UNCHANGED <<finished, completed, state, asset, retireAfter, generations, stage>>
    BY <1>4 DEF RenderFrame, Submit, registryVars, TypeOK, ClockTypeOK, Serials
  <2>3. \A g \in Generations :
          lastUse'[g] = IF Leased(g) /\ state[g] = "Ready" THEN submitted' ELSE lastUse[g]
    BY <1>4 DEF RenderFrame
  <2>4. finished \in Nat /\ completed \in Nat /\ lastUse \in [Generations -> Nat]
    BY DEF TypeOK, ClockTypeOK, Serials
  <2>5. \A g \in Generations :
          lastUse'[g] <= submitted'
          /\ (asset[g] = "Released" \/ state[g] = "Retiring" => lastUse'[g] = lastUse[g])
    BY <2>2, <2>3, <2>4
  <2>6. ClockOrder' /\ ReleasedAfterLastUse'
    BY <2>2, <2>4, <2>5
  <2>. QED BY <2>1, <2>2, <2>5, <2>6
<1>5. CASE GpuFinish
  BY <1>3, <1>5 DEF GpuFinish, Finish, recordVars, registryVars, TypeOK, ClockTypeOK, Serials
<1>6. CASE ObserveCompletion
  BY <1>3, <1>6 DEF ObserveCompletion, Observe, recordVars, registryVars
<1>7. CASE UNCHANGED vars
  BY <1>3, <1>7 DEF vars, clockVars, recordVars, registryVars
<1>. QED
  BY <1>1, <1>2, <1>4, <1>5, <1>6, <1>7, RequestAssets, PumpAssets, WorkerAssets,
     ReleaseUnusedAssets, ShutdownAssets
  DEF Next, Exited

LEMMA InitPlacesAndAssets == Init => PlacesInvariant /\ AssetInvariant
<1>. SUFFICES ASSUME Init PROVE PlacesInvariant /\ AssetInvariant
  OBVIOUS
<1>1. \A g \in Generations : ~Leased(g) /\ g \notin Held
  BY NoGenerationIsNone DEF Init, Leased, Held, ActiveRecords
<1>2. AssetInvariant
  BY <1>1 DEF Init, ClockInit, AssetInvariant, ClockOrder, ReleasedAfterLastUse
<1>3. PlacesInvariant
  BY DEF Init, PlacesInvariant, NoBuilder, IdleWorker
<1>. QED BY <1>2, <1>3

\* Every reachable state of the repository satisfies the inductive invariant.
THEOREM InvariantHolds == Spec => []IInv
<1>1. Init => IInv
  BY InitTyped, InitPlacesAndAssets DEF IInv
<1>2. IInv /\ [Next]_vars => IInv'
  BY NextTyped, NextPlaces, NextAssets DEF IInv
<1>. QED BY <1>1, <1>2, PTL DEF Spec

\* Every variable of the repository keeps its type.
THEOREM TypeCorrect == Spec => []TypeOK
BY InvariantHolds, PTL DEF IInv

\* While the program runs, releaseUnused destroys no asset that a frame still
\* on the queue draws with: the retirement serial covers the last use.
THEOREM ReleaseIsSafe == Spec => []ReleasedAfterLastUse
BY InvariantHolds, PTL DEF IInv, AssetInvariant

\* A lease keeps its asset: no sequence of retirement, revival, reload and
\* invalidation leaves a holder with a Ready record whose asset is gone.
THEOREM LeaseKeepsAsset == Spec => []LeasedReadyIsLive
<1>1. IInv => LeasedReadyIsLive
  <2>. SUFFICES ASSUME IInv, NEW h \in Holders, lease[h] # NoGeneration,
                       state[lease[h]] = "Ready"
                PROVE  asset[lease[h]] = "Live"
    BY DEF LeasedReadyIsLive
  <2>1. lease[h] \in Generations /\ Leased(lease[h])
    BY DEF IInv, TypeOK, Leased
  <2>. QED BY <2>1 DEF IInv, TypeOK, AssetInvariant
<1>. QED BY InvariantHolds, <1>1, PTL

-----------------------------------------------------------------------------
(* The repository implements deferred release.                             *)

\* A frame draws with live assets only.
LEMMA RenderFrameRefines ==
  ASSUME IInv, RenderFrame
  PROVE  \E U \in SUBSET Generations : Deferred!UseInFrame(U)
<1>. DEFINE U == {g \in Generations : Leased(g) /\ state[g] = "Ready"}
<1>1. \A g \in U : asset[g] = "Live"
  BY DEF IInv, TypeOK, AssetInvariant
<1>2. Deferred!Submit
  BY DEF RenderFrame, Submit, Deferred!Submit
<1>3. lastUse' = [g \in Generations |-> IF g \in U THEN submitted' ELSE lastUse[g]]
  BY DEF RenderFrame
<1>4. UNCHANGED <<asset, stage # "running">>
  BY DEF RenderFrame
<1>5. Deferred!UseInFrame(U)
  BY <1>1, <1>2, <1>3, <1>4 DEF Deferred!UseInFrame
<1>. QED BY <1>5

\* What releaseUnused destroys is live and not in use by an unfinished frame.
LEMMA ReleaseUnusedRefines ==
  ASSUME IInv, ReleaseUnused
  PROVE  Deferred!Release(Expired \cap Generations)
<1>1. \A g \in Expired \cap Generations : asset[g] = "Live" /\ lastUse[g] <= finished
  BY DEF IInv, TypeOK, AssetInvariant, ClockOrder, ClockTypeOK, Serials, Expired, Retirees,
     Unused, RetireSerial
<1>2. asset' = [g \in Generations |->
                 IF g \in Expired \cap Generations THEN "Released" ELSE asset[g]]
  BY DEF ReleaseUnused
<1>3. UNCHANGED <<clockVars, lastUse, stage # "running">>
  BY DEF ReleaseUnused
<1>. QED BY <1>1, <1>2, <1>3 DEF Deferred!Release, Deferred!clockVars, clockVars

\* pump publishes an asset that its record did not have yet.
LEMMA PumpRefines ==
  ASSUME IInv, Pump
  PROVE  (\E g \in Generations : Deferred!Create(g)) \/ UNCHANGED Deferred!releaseVars
<1>1. UNCHANGED <<clockVars, lastUse, stage # "running">>
  BY DEF Pump
<1>2. CASE asset' = asset
  BY <1>1, <1>2 DEF Deferred!releaseVars, Deferred!clockVars, clockVars
<1>3. CASE asset' # asset
  <2>1. asset' = [g \in Generations |->
                   IF g = builder.gen /\ BuilderResult = "Ready" THEN "Live" ELSE asset[g]]
    BY <1>3 DEF Pump, PumpContinues, PumpStartsNext
  <2>2. asset = [g \in Generations |-> asset[g]]
    BY DEF IInv, TypeOK
  <2>3. builder.gen \in Generations /\ BuilderResult = "Ready"
    BY <1>3, <2>1, <2>2
  <2>4. asset[builder.gen] = "None"
    BY <2>3, NoGenerationIsNone DEF IInv, PlacesInvariant, AssetInvariant
  <2>5. asset' = [asset EXCEPT ![builder.gen] = "Live"]
    BY <2>1, <2>2, <2>3 DEF IInv, TypeOK
  <2>6. Deferred!Create(builder.gen)
    BY <1>1, <2>4, <2>5 DEF Deferred!Create, Deferred!clockVars, clockVars
  <2>. QED BY <2>3, <2>6
<1>. QED BY <1>2, <1>3

\* Once the program is closing, anything that is live may go.
LEMMA ShutdownRefines ==
  ASSUME IInv, ShutdownBegin \/ Shutdown
  PROVE  [Deferred!ReleaseNext]_(Deferred!releaseVars)
<1>. USE DEF Deferred!ReleaseNext, Deferred!releaseVars, Deferred!clockVars, clockVars
<1>1. CASE ShutdownBegin
  BY <1>1 DEF ShutdownBegin, Deferred!Close
<1>2. ASSUME NEW R \in SUBSET Generations, \A g \in R : asset[g] = "Live",
             asset' = [g \in Generations |-> IF g \in R THEN "Released" ELSE asset[g]],
             UNCHANGED <<clockVars, lastUse>>, stage # "running", stage' # "running"
      PROVE  Deferred!Release(R)
  BY <1>2 DEF Deferred!Release
<1>3. CASE ShutdownFinish
  <2>. DEFINE R == {g \in Generations : g \in Unused /\ asset[g] = "Live"}
  <2>1. Deferred!Release(R)
    BY <1>2, <1>3 DEF ShutdownFinish
  <2>. QED BY <2>1
<1>4. CASE DeviceWaitIdle
  <2>1. CASE completed = submitted
    BY <1>4, <2>1 DEF DeviceWaitIdle, recordVars
  <2>2. CASE completed # submitted
    <3>1. Deferred!Observe /\ UNCHANGED <<asset, lastUse, stage # "running">>
      BY <1>4, <2>2 DEF DeviceWaitIdle, recordVars, Deferred!Observe, IInv, TypeOK,
         ClockTypeOK, Serials, AssetInvariant, ClockOrder
    <3>. QED BY <3>1
  <2>. QED BY <2>1, <2>2
<1>5. CASE DestroyWorlds
  <2>. DEFINE R == {g \in Generations : asset[g] = "Live"}
  <2>1. Deferred!Release(R)
    BY <1>2, <1>5 DEF DestroyWorlds
  <2>. QED BY <2>1
<1>. QED BY <1>1, <1>3, <1>4, <1>5 DEF Shutdown

LEMMA StepRefines ==
  IInv /\ [Next]_vars => [Deferred!ReleaseNext]_(Deferred!releaseVars)
<1>. SUFFICES ASSUME IInv, [Next]_vars
              PROVE  [Deferred!ReleaseNext]_(Deferred!releaseVars)
  OBVIOUS
<1>1. CASE RenderFrame
  BY <1>1, RenderFrameRefines DEF Deferred!ReleaseNext
<1>2. CASE ReleaseUnused
  BY <1>2, ReleaseUnusedRefines DEF Deferred!ReleaseNext
<1>3. CASE Pump
  BY <1>3, PumpRefines DEF Deferred!ReleaseNext
<1>4. CASE ShutdownBegin \/ Shutdown
  BY <1>4, ShutdownRefines
<1>5. CASE GpuFinish \/ ObserveCompletion
  BY <1>5 DEF GpuFinish, ObserveCompletion, Finish, Observe, Deferred!Finish,
     Deferred!Observe, recordVars, Deferred!ReleaseNext
<1>6. ASSUME UNCHANGED <<clockVars, asset, lastUse, stage>>
      PROVE  UNCHANGED Deferred!releaseVars
  BY <1>6 DEF Deferred!releaseVars, Deferred!clockVars, clockVars
<1>7. ASSUME NEW h \in Holders, NEW k \in Keys, RequestModel(h, k)
      PROVE  UNCHANGED Deferred!releaseVars
  BY <1>6, <1>7 DEF RequestModel, RequestHit, RequestCoalesced, RequestNew, recordVars
<1>8. ASSUME NEW h \in Holders, DropLease(h) PROVE UNCHANGED Deferred!releaseVars
  BY <1>6, <1>8 DEF DropLease, recordVars
<1>9. ASSUME NEW k \in Keys, Invalidate(k) PROVE UNCHANGED Deferred!releaseVars
  BY <1>6, <1>9 DEF Invalidate
<1>10. CASE Worker
  BY <1>6, <1>10 DEF Worker, WorkerTake, WorkerPrepared, WorkerFailed, WorkerSkip,
     WorkerExit, workerFrame
<1>11. CASE UNCHANGED vars
  BY <1>6, <1>11 DEF vars, recordVars
<1>. QED
  BY <1>1, <1>2, <1>3, <1>4, <1>5, <1>7, <1>8, <1>9, <1>10, <1>11 DEF Next, Exited

\* The repository, its worker and its shutdown together are an implementation
\* of DeferredRelease.
THEOREM RepositoryImplementsDeferredRelease == Spec => ImplementsDeferredRelease
<1>1. Init => Deferred!ReleaseInit
  BY DEF Init, Deferred!ReleaseInit, ClockInit, Deferred!ClockInit
<1>. QED BY <1>1, StepRefines, InvariantHolds, PTL
         DEF Spec, ImplementsDeferredRelease, Deferred!ReleaseSpec

=============================================================================
