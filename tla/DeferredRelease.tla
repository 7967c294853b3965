-------------------------- MODULE DeferredRelease --------------------------
(***************************************************************************)
(* What the owner of GPU resources promises the GPU: while the program     *)
(* runs, a resource that frames have used is destroyed only after the last *)
(* of those frames has finished.  Nothing is promised once the program is  *)
(* closing.  AssetRepository.tla implements this specification.            *)
(***************************************************************************)
EXTENDS SubmissionClock

CONSTANT Resources

VARIABLES
  status,    \* of each resource
  lastUse,   \* the last submission that used each resource
  closing    \* the program is shutting down

Statuses == {"None", "Live", "Released"}

releaseVars == <<clockVars, status, lastUse, closing>>

ReleaseInit ==
  /\ ClockInit
  /\ status = [r \in Resources |-> "None"]
  /\ lastUse = [r \in Resources |-> 0]
  /\ closing = FALSE

\* A resource finished loading.
Create(r) ==
  /\ status[r] = "None"
  /\ status' = [status EXCEPT ![r] = "Live"]
  /\ UNCHANGED <<clockVars, lastUse, closing>>

\* A frame that uses the resources U goes to the queue.
UseInFrame(U) ==
  /\ \A r \in U : status[r] = "Live"
  /\ Submit
  /\ lastUse' = [r \in Resources |-> IF r \in U THEN submitted' ELSE lastUse[r]]
  /\ UNCHANGED <<status, closing>>

\* Resources are destroyed, none of them used by an unfinished frame.
Release(R) ==
  /\ \A r \in R : status[r] = "Live" /\ (closing \/ lastUse[r] <= finished)
  /\ status' = [r \in Resources |-> IF r \in R THEN "Released" ELSE status[r]]
  /\ UNCHANGED <<clockVars, lastUse, closing>>

Close ==
  /\ closing' = TRUE
  /\ UNCHANGED <<clockVars, status, lastUse>>

ReleaseNext ==
  \/ \E r \in Resources : Create(r)
  \/ \E S \in SUBSET Resources : UseInFrame(S) \/ Release(S)
  \/ (Finish \/ Observe) /\ UNCHANGED <<status, lastUse, closing>>
  \/ Close

ReleaseSpec == ReleaseInit /\ [][ReleaseNext]_releaseVars

=============================================================================
