------------------------ MODULE CaptureServiceProofs ------------------------
(***************************************************************************)
(* Proofs about CaptureService for any number of captures, paths and       *)
(* submissions: every capture is in the one place its state names and the  *)
(* captures keep their order, tasks take only the transitions the queue    *)
(* allows, no readback buffer is touched before the GPU is done with it,   *)
(* and a completed capture has its file.                                   *)
(***************************************************************************)
EXTENDS CaptureService, SequenceTheorems, TLAPS

-----------------------------------------------------------------------------
(* Queues of tasks in the order of their ids.                              *)

LEMMA AppendedLast ==
  ASSUME NEW s \in Seq(Tasks), NEW t \in Tasks, Increasing(s),
         \A u \in Tasks : In(s, u) => u < t
  PROVE  /\ Append(s, t) \in Seq(Tasks) /\ Increasing(Append(s, t))
         /\ \A u : In(Append(s, t), u) <=> In(s, u) \/ u = t
<1>1. /\ Append(s, t) \in Seq(Tasks) /\ Len(Append(s, t)) = Len(s) + 1 /\ Len(s) \in Nat
      /\ \A k \in 1 .. Len(s) : Append(s, t)[k] = s[k]
      /\ Append(s, t)[Len(s) + 1] = t
      /\ DOMAIN s = 1 .. Len(s) /\ DOMAIN Append(s, t) = 1 .. Len(s) + 1
  BY AppendProperties, LenProperties
<1>2. \A k \in 1 .. Len(s) : s[k] \in Tasks
  OBVIOUS
<1>. DEFINE r == Append(s, t)
<1>. HIDE DEF r
<1>3. /\ r \in Seq(Tasks) /\ \A k \in 1 .. Len(s) : r[k] = s[k]
      /\ r[Len(s) + 1] = t /\ DOMAIN r = 1 .. Len(s) + 1
  BY <1>1 DEF r
<1>4. \A k \in 1 .. Len(s) : s[k] < t
  BY <1>1, <1>2 DEF In
<1>5. Increasing(r)
  <2>. SUFFICES ASSUME NEW i \in 1 .. Len(s) + 1, NEW j \in 1 .. Len(s) + 1, i < j
                PROVE  r[i] < r[j]
    BY <1>3, Zenon DEF Increasing
  <2>1. i \in 1 .. Len(s)
    BY <1>1
  <2>2. CASE j \in 1 .. Len(s)
    BY <1>1, <1>3, <2>1, <2>2 DEF Increasing
  <2>3. CASE j = Len(s) + 1
    BY <1>3, <1>4, <2>1, <2>3
  <2>. QED BY <1>1, <2>2, <2>3
<1>6. ASSUME NEW u PROVE In(r, u) <=> In(s, u) \/ u = t
  BY <1>1, <1>3 DEF In
<1>. QED BY <1>3, <1>5, <1>6 DEF r

LEMMA FirstTaken ==
  ASSUME NEW s \in Seq(Tasks), s # << >>, Increasing(s)
  PROVE  /\ Head(s) \in Tasks /\ In(s, Head(s))
         /\ Tail(s) \in Seq(Tasks) /\ Increasing(Tail(s))
         /\ \A u : In(Tail(s), u) <=> In(s, u) /\ u # Head(s)
         /\ \A u : In(Tail(s), u) => Head(s) < u
<1>1. Len(s) \in Nat \ {0} /\ DOMAIN s = 1 .. Len(s) /\ Head(s) = s[1]
  BY EmptySeq, LenProperties
<1>2. /\ Tail(s) \in Seq(Tasks) /\ DOMAIN Tail(s) = 1 .. Len(s) - 1
      /\ \A k \in 1 .. Len(s) - 1 : Tail(s)[k] = s[k + 1]
  BY <1>1, HeadTailProperties, LenProperties
<1>. DEFINE r == Tail(s)
<1>. HIDE DEF r
<1>3. /\ r \in Seq(Tasks) /\ DOMAIN r = 1 .. Len(s) - 1
      /\ \A k \in 1 .. Len(s) - 1 : r[k] = s[k + 1]
  BY <1>2 DEF r
<1>4. \A k \in 1 .. Len(s) : s[k] \in Tasks
  OBVIOUS
<1>5. \A k \in 2 .. Len(s) : s[1] < s[k]
  BY <1>1 DEF Increasing
<1>6. Increasing(r)
  <2>. SUFFICES ASSUME NEW i \in 1 .. Len(s) - 1, NEW j \in 1 .. Len(s) - 1, i < j
                PROVE  r[i] < r[j]
    BY <1>3, Zenon DEF Increasing
  <2>1. i + 1 \in 1 .. Len(s) /\ j + 1 \in 1 .. Len(s) /\ i + 1 < j + 1
    BY <1>1
  <2>2. s[i + 1] < s[j + 1]
    BY <1>1, <2>1 DEF Increasing
  <2>. QED BY <1>3, <2>2
<1>7. ASSUME NEW u PROVE (In(r, u) <=> In(s, u) /\ u # s[1]) /\ (In(r, u) => s[1] < u)
  <2>1. In(r, u) => In(s, u) /\ s[1] < u
    BY <1>1, <1>3, <1>5, SMTT(30) DEF In
  <2>2. In(r, u) => u # s[1]
    BY <1>1, <1>4, <2>1 DEF Tasks
  <2>3. ASSUME In(s, u), u # s[1] PROVE In(r, u)
    <3>1. PICK i \in 1 .. Len(s) : s[i] = u
      BY <1>1, <2>3 DEF In
    <3>2. i - 1 \in 1 .. Len(s) - 1 /\ (i - 1) + 1 = i
      BY <1>1, <2>3, <3>1
    <3>. QED BY <1>3, <3>1, <3>2 DEF In
  <2>. QED BY <2>1, <2>2, <2>3
<1>8. s[1] \in Tasks /\ In(s, s[1])
  BY <1>1, <1>4 DEF In
<1>. QED BY <1>1, <1>3, <1>6, <1>7, <1>8 DEF r

LEMMA RemovedOnce ==
  ASSUME NEW s \in Seq(Tasks), NEW t \in Tasks, Increasing(s), In(s, t)
  PROVE  /\ Without(s, t) \in Seq(Tasks) /\ Increasing(Without(s, t))
         /\ \A u : In(Without(s, t), u) <=> In(s, u) /\ u # t
<1>0. Len(s) \in Nat /\ DOMAIN s = 1 .. Len(s)
  BY LenProperties
<1>1. PICK i \in 1 .. Len(s) :
        s[i] = t /\ Without(s, t) = SubSeq(s, 1, i - 1) \o SubSeq(s, i + 1, Len(s))
  <2>. DEFINE c == CHOOSE k \in DOMAIN s : s[k] = t
  <2>1. c \in DOMAIN s /\ s[c] = t
    BY DEF In
  <2>2. Without(s, t) = SubSeq(s, 1, c - 1) \o SubSeq(s, c + 1, Len(s))
    BY DEF Without
  <2>. HIDE DEF c
  <2>. QED BY <1>0, <2>1, <2>2
<1>. DEFINE p == SubSeq(s, 1, i - 1)
            q == SubSeq(s, i + 1, Len(s))
            r == p \o q
<1>2. Without(s, t) = r
  BY <1>1
<1>3. \A k \in 1 .. Len(s) : s[k] \in Tasks
  OBVIOUS
<1>4. /\ p \in Seq(Tasks) /\ Len(p) = i - 1
      /\ \A k \in 1 .. i - 1 : p[k] = s[k]
  <2>1. /\ p \in Seq(Tasks) /\ Len(p) = IF 1 <= i - 1 THEN i - 1 - 1 + 1 ELSE 0
        /\ \A k \in 1 .. i - 1 - 1 + 1 : p[k] = s[1 + k - 1]
    BY <1>0, <1>1, <1>3, SubSeqProperties
  <2>. HIDE DEF p
  <2>. QED BY <1>0, <1>1, <2>1
<1>5. /\ q \in Seq(Tasks) /\ Len(q) = Len(s) - i
      /\ \A k \in 1 .. Len(s) - i : q[k] = s[i + k]
  <2>1. /\ q \in Seq(Tasks) /\ Len(q) = IF i + 1 <= Len(s) THEN Len(s) - (i + 1) + 1 ELSE 0
        /\ \A k \in 1 .. Len(s) - (i + 1) + 1 : q[k] = s[(i + 1) + k - 1]
    BY <1>0, <1>1, <1>3, SubSeqProperties
  <2>. HIDE DEF q
  <2>2. Len(s) - (i + 1) + 1 = Len(s) - i
    BY <1>0, <1>1
  <2>3. ASSUME NEW k \in 1 .. Len(s) - i PROVE q[k] = s[i + k]
    <3>1. (i + 1) + k - 1 = i + k /\ k \in 1 .. Len(s) - (i + 1) + 1
      BY <1>0, <1>1
    <3>2. q[k] = s[(i + 1) + k - 1]
      BY <2>1, <3>1, Zenon
    <3>. QED BY <3>1, <3>2, Zenon
  <2>4. Len(q) = Len(s) - i
    <3>1. CASE i + 1 <= Len(s)
      BY <2>1, <2>2, <3>1, Zenon
    <3>2. CASE ~(i + 1 <= Len(s))
      <4>1. Len(q) = 0
        BY <2>1, <3>2, Zenon
      <4>2. Len(s) - i = 0
        <5>1. \A n \in Nat : \A k \in 1 .. n : ~(k + 1 <= n) => n - k = 0
          OBVIOUS
        <5>2. Len(s) \in Nat /\ i \in 1 .. Len(s)
          BY <1>0, <1>1
        <5>. QED BY <3>2, <5>1, <5>2
      <4>. QED BY <4>1, <4>2, Zenon
    <3>. QED BY <3>1, <3>2
  <2>. QED BY <2>1, <2>3, <2>4, Zenon
<1>. HIDE DEF p, q
<1>6. /\ r \in Seq(Tasks) /\ Len(r) = Len(p) + Len(q)
      /\ \A k \in 1 .. Len(p) + Len(q) : r[k] = IF k <= Len(p) THEN p[k] ELSE q[k - Len(p)]
      /\ DOMAIN r = 1 .. Len(r)
  BY <1>4, <1>5, ConcatProperties, LenProperties
<1>. HIDE DEF r
<1>7. DOMAIN r = 1 .. Len(s) - 1
  BY <1>0, <1>1, <1>4, <1>5, <1>6
<1>8. ASSUME NEW k \in 1 .. Len(s) - 1
      PROVE  r[k] = IF k < i THEN s[k] ELSE s[k + 1]
  <2>1. k \in 1 .. Len(p) + Len(q) /\ (k <= Len(p) <=> k < i)
    BY <1>0, <1>1, <1>4, <1>5
  <2>2. CASE k < i
    BY <1>0, <1>1, <1>4, <1>6, <2>1, <2>2
  <2>3. CASE ~(k < i)
    <3>1. k - (i - 1) \in 1 .. Len(s) - i /\ i + (k - (i - 1)) = k + 1
      BY <1>0, <1>1, <2>3
    <3>2. r[k] = q[k - (i - 1)]
      BY <1>4, <1>6, <2>1, <2>3
    <3>. QED BY <1>5, <2>3, <3>1, <3>2
  <2>. QED BY <2>2, <2>3
<1>9. Increasing(r)
  <2>. SUFFICES ASSUME NEW j \in 1 .. Len(s) - 1, NEW k \in 1 .. Len(s) - 1, j < k
                PROVE  r[j] < r[k]
    BY <1>7, Zenon DEF Increasing
  <2>1. \A m, n \in 1 .. Len(s) : m < n => s[m] < s[n]
    BY <1>0 DEF Increasing
  <2>. QED BY <1>0, <1>1, <1>8, <2>1
<1>10. ASSUME NEW u PROVE In(r, u) <=> In(s, u) /\ u # t
  <2>1. \A m, n \in 1 .. Len(s) : m # n => s[m] # s[n]
    BY <1>0, <1>3, SMTT(30) DEF Increasing, Tasks
  <2>2. ASSUME In(r, u) PROVE In(s, u) /\ u # t
    <3>1. PICK k \in 1 .. Len(s) - 1 : r[k] = u
      BY <1>7, <2>2 DEF In
    <3>2. PICK m \in 1 .. Len(s) : m # i /\ s[m] = u
      BY <1>0, <1>1, <1>8, <3>1
    <3>. QED BY <1>0, <1>1, <2>1, <3>2 DEF In
  <2>3. ASSUME In(s, u), u # t PROVE In(r, u)
    <3>1. PICK m \in 1 .. Len(s) : s[m] = u
      BY <1>0, <2>3 DEF In
    <3>2. m # i
      BY <1>1, <2>3, <3>1
    <3>3. CASE m < i
      <4>1. m \in 1 .. Len(s) - 1 /\ r[m] = u
        BY <1>0, <1>1, <1>8, <3>1, <3>3
      <4>. QED BY <1>7, <4>1 DEF In
    <3>4. CASE m > i
      <4>1. m - 1 \in 1 .. Len(s) - 1 /\ r[m - 1] = u
        BY <1>0, <1>1, <1>8, <3>1, <3>4
      <4>. QED BY <1>7, <4>1 DEF In
    <3>. QED BY <1>0, <1>1, <3>2, <3>3, <3>4
  <2>. QED BY <2>2, <2>3
<1>. QED BY <1>2, <1>6, <1>9, <1>10

-----------------------------------------------------------------------------
(* The results, the history and the files.                                 *)

ResultsOrdered == \A i, j \in DOMAIN results : i < j => results[i].task < results[j].task

LEMMA ResultAppended ==
  ASSUME results \in Seq(Results), NEW r \in Results, results' = Append(results, r),
         ResultsOrdered, \A u \in Tasks : InResults(u) => u < r.task
  PROVE  /\ results' \in Seq(Results) /\ ResultsOrdered'
         /\ \A u : InResults(u)' <=> InResults(u) \/ u = r.task
         /\ \A i \in DOMAIN results' : results'[i] = r \/ \E j \in DOMAIN results : results'[i] = results[j]
<1>1. /\ results' \in Seq(Results) /\ Len(results') = Len(results) + 1 /\ Len(results) \in Nat
      /\ \A k \in 1 .. Len(results) : results'[k] = results[k]
      /\ results'[Len(results) + 1] = r
      /\ DOMAIN results = 1 .. Len(results) /\ DOMAIN results' = 1 .. Len(results) + 1
  BY AppendProperties, LenProperties
<1>2. \A k \in 1 .. Len(results) : results[k].task \in Tasks
  <2>1. \A k \in 1 .. Len(results) : results[k] \in Results
    OBVIOUS
  <2>. QED BY <2>1 DEF Results
<1>3. \A k \in 1 .. Len(results) : results[k].task < r.task
  BY <1>1, <1>2 DEF InResults
<1>4. ResultsOrdered'
  <2>. SUFFICES ASSUME NEW i \in 1 .. Len(results) + 1, NEW j \in 1 .. Len(results) + 1, i < j
                PROVE  results'[i].task < results'[j].task
    BY <1>1, Zenon DEF ResultsOrdered
  <2>1. i \in 1 .. Len(results)
    BY <1>1
  <2>2. CASE j \in 1 .. Len(results)
    BY <1>1, <2>1, <2>2 DEF ResultsOrdered
  <2>3. CASE j = Len(results) + 1
    BY <1>1, <1>3, <2>1, <2>3
  <2>. QED BY <1>1, <2>2, <2>3
<1>5. ASSUME NEW u PROVE InResults(u)' <=> InResults(u) \/ u = r.task
  <2>1. InResults(u)' <=> \E k \in 1 .. Len(results) + 1 : results'[k].task = u
    BY <1>1 DEF InResults
  <2>2. InResults(u) <=> \E k \in 1 .. Len(results) : results[k].task = u
    BY <1>1 DEF InResults
  <2>. QED BY <1>1, <2>1, <2>2
<1>6. ASSUME NEW i \in DOMAIN results'
      PROVE  results'[i] = r \/ \E j \in DOMAIN results : results'[i] = results[j]
  BY <1>1, <1>6
<1>. QED BY <1>1, <1>4, <1>5, <1>6

\* Of the tasks only ended ones are forgotten.
LEMMA TrimmedEnded ==
  ASSUME NEW T, NEW st
  PROVE  Trimmed(T, st) \subseteq T /\ \A t \in T : st[t] \notin Terminal => t \in Trimmed(T, st)
BY DEF Trimmed, Ended

\* A state in which the encoder has not seen the task yet.
Early == {"None", "Queued", "Recording", "WaitingForGpu"}

\* Files stay while no task goes back and what completes was reported.
LEMMA FilesStay ==
  ASSUME TypeOK, CompletedHasFile, UNCHANGED <<file, output, worker>>,
         \A u \in Tasks : state[u] \notin Early => state'[u] \notin Early,
         \A t \in Tasks : state'[t] = "Completed" =>
            \/ state[t] = "Completed"
            \/ \E i \in DOMAIN results : results[i].task = t /\ results[i].outcome = "success",
         results' = results \/ results' = << >>
  PROVE  CompletedHasFile'
<1>1. ASSUME NEW t \in Tasks, FileKept(t) PROVE FileKept(t)'
  <2>1. CASE file[output[t]] = t
    BY <2>1 DEF FileKept
  <2>2. ASSUME NEW u \in Tasks, u > t, output[u] = output[t], state[u] \notin Early
        PROVE  FileKept(t)'
    BY <2>2 DEF FileKept, Early
  <2>. QED BY <1>1, <2>1, <2>2 DEF FileKept, Early
<1>2. \A i \in DOMAIN results : results[i].task \in Tasks
  <2>1. results \in Seq(Results) /\ DOMAIN results = 1 .. Len(results)
    BY LenProperties DEF TypeOK
  <2>2. \A i \in 1 .. Len(results) : results[i] \in Results
    BY <2>1
  <2>. QED BY <2>1, <2>2 DEF Results
<1>3. \A t \in Tasks : state'[t] = "Completed" => FileKept(t)'
  BY <1>1 DEF CompletedHasFile
<1>4. (\A i \in DOMAIN results : results[i].outcome = "success" => FileKept(results[i].task))'
  <2>1. CASE results' = << >>
    <3>1. DOMAIN results' = {}
      BY <2>1
    <3>. QED BY <3>1
  <2>2. CASE results' = results
    <3>. SUFFICES ASSUME NEW i \in DOMAIN results', results'[i].outcome = "success"
                  PROVE  FileKept(results[i].task)'
      OBVIOUS
    <3>1. PICK t \in Tasks : t = results[i].task
      BY <1>2, <2>2
    <3>2. FileKept(t)
      BY <2>2, <3>1 DEF CompletedHasFile
    <3>3. FileKept(t)'
      BY <1>1, <3>2
    <3>. QED BY <2>2, <3>1, <3>3 DEF FileKept
  <2>. QED BY <2>1, <2>2
<1>5. worker'.step = "published" => file'[output'[worker'.task]] = worker'.task
  BY DEF CompletedHasFile
<1>. QED BY <1>3, <1>4, <1>5, Zenon DEF CompletedHasFile

-----------------------------------------------------------------------------
(* The worker.                                                             *)

WorkerStep == WorkerTake \/ WorkerEncode \/ WorkerPublish \/ WorkerCheck \/ WorkerExit

LEMMA AccountedSame ==
  ASSUME TasksAccounted, UNCHANGED <<state, known, runtimes, queue, active>>,
         \A t \in Tasks : Held(t)' <=> Held(t)
  PROVE  TasksAccounted'
BY DEF TasksAccounted, Accounted, Copying, InQueue, In

LEMMA TakeKeeps ==
  ASSUME CaptureInvariant, WorkerTake
  PROVE  CaptureInvariant'
<1>. USE DEF CaptureInvariant
<1>1. /\ worker = [task |-> NoTask, step |-> "waiting"]
      /\ worker' = [task |-> Head(jobs), step |-> "encoding"] /\ jobs' = Tail(jobs)
      /\ jobs \in Seq(Tasks) /\ jobs # << >>
      /\ UNCHANGED <<workerFrame, results, file>>
  BY DEF WorkerTake, IdleWorker, TypeOK
<1>2. /\ UNCHANGED <<submitted, finished, completed, state, known, queue, output, runtimes>>
      /\ UNCHANGED <<cancelled, active, stage, results, file>>
  BY <1>1 DEF workerFrame, clockVars, queueVars
<1>3. /\ Head(jobs) \in Tasks /\ InJobs(Head(jobs)) /\ jobs' \in Seq(Tasks) /\ Increasing(jobs')
      /\ \A u : InJobs(u)' <=> InJobs(u) /\ u # Head(jobs)
      /\ \A u : InJobs(u)' => Head(jobs) < u
  BY <1>1, FirstTaken DEF InJobs, PipelineOrdered
<1>4. worker'.task = Head(jobs) /\ worker'.step = "encoding" /\ worker.task = NoTask
  BY <1>1
<1>5. \A u \in Tasks : u # NoTask
  BY DEF Tasks, NoTask
<1>6. \A u \in Tasks : (InResults(u)' <=> InResults(u)) /\ (InQueue(u)' <=> InQueue(u))
  BY <1>2 DEF InResults, InQueue, In
<1>7. \A u \in Tasks : Held(u)' <=> Held(u)
  BY <1>3, <1>4, <1>5, <1>6 DEF Held
<1>8. TypeOK' /\ ClockOrder'
  BY <1>1, <1>2, <1>3 DEF TypeOK, ClockTypeOK, ClockOrder
<1>9. TasksAccounted'
  BY <1>2, <1>7, AccountedSame
<1>10. PipelineOrdered'
  <2>1. \A u \in Tasks : Encoded(u)' <=> Encoded(u)
    BY <1>2, <1>6 DEF Encoded
  <2>2. Increasing(queue)' /\ Increasing(jobs)' /\ ResultsOrdered'
    BY <1>2, <1>3 DEF PipelineOrdered, Increasing, ResultsOrdered
  <2>3. ASSUME NEW t \in Tasks, NEW u \in Tasks
        PROVE  InOrder(t, u)'
    BY <1>2, <1>3, <1>4, <1>6, <1>7, <2>1 DEF PipelineOrdered, InOrder
  <2>. QED BY <2>2, <2>3, Zenon DEF PipelineOrdered, ResultsOrdered
<1>11. StagesAgree'
  <2>1. \A t \in Tasks : cancelled'[t] => state'[t] \in {"Cancelling"} \cup Terminal
    BY <1>2 DEF StagesAgree
  <2>. QED BY <1>2, <1>3, <1>4, <1>5, <2>1 DEF StagesAgree
<1>12. CompletedHasFile'
  BY <1>2, <1>4 DEF CompletedHasFile, FileKept
<1>. QED BY <1>8, <1>9, <1>10, <1>11, <1>12

\* A later capture that is in the encoder may write the file of an earlier one.
LEMMA WrittenLater ==
  ASSUME TypeOK, NEW t \in Tasks, FileKept(t), NEW w \in Tasks, t < w, state[w] \notin Early,
         NEW x \in Tasks \cup {NoTask}, file' = [file EXCEPT ![output[w]] = x],
         UNCHANGED <<output, state>>
  PROVE  FileKept(t)'
<1>1. file \in [Outputs -> Tasks \cup {NoTask}] /\ output \in [Tasks -> Outputs]
  BY DEF TypeOK
<1>2. CASE output[t] = output[w]
  BY <1>2 DEF FileKept, Early, Tasks
<1>3. CASE output[t] # output[w] /\ file[output[t]] = t
  BY <1>1, <1>3 DEF FileKept
<1>4. ASSUME NEW u \in Tasks, u > t, output[u] = output[t], state[u] \notin Early
      PROVE  FileKept(t)'
  BY <1>4 DEF FileKept, Early
<1>. QED BY <1>2, <1>3, <1>4 DEF FileKept, Early

\* What a step of the worker leaves alone.
LEMMA WorkerLeaves ==
  ASSUME UNCHANGED workerFrame
  PROVE  /\ UNCHANGED <<submitted, finished, completed, state, known, queue, output, runtimes>>
         /\ UNCHANGED <<cancelled, active, stage>>
         /\ \A u \in Tasks : InQueue(u)' <=> InQueue(u)
BY DEF workerFrame, clockVars, queueVars, InQueue, In

\* The worker's task: after what was encoded, before the jobs.
LEMMA WorkerTask ==
  ASSUME CaptureInvariant, worker.step \notin {"waiting", "exited"}
  PROVE  /\ worker.task \in Tasks /\ Held(worker.task) /\ state[worker.task] \notin Early
         /\ \A u \in Tasks : Encoded(u) => u < worker.task
         /\ \A u \in Tasks : InJobs(u) => worker.task < u
<1>. USE DEF CaptureInvariant
<1>1. worker.task \in Tasks
  BY DEF StagesAgree, TypeOK
<1>2. Held(worker.task)
  BY DEF Held
<1>3. state[worker.task] \in {"Encoding", "Cancelling"}
  BY <1>1, <1>2 DEF TasksAccounted, Accounted
<1>4. \A u \in Tasks : Encoded(u) => u < worker.task
  BY <1>1 DEF PipelineOrdered, InOrder
<1>5. \A u \in Tasks : InJobs(u) => worker.task < u
  BY <1>1 DEF PipelineOrdered, InOrder
<1>. QED BY <1>1, <1>2, <1>3, <1>4, <1>5 DEF Early

\* The worker reports an outcome; the file of a success stays.
LEMMA ReportKeeps ==
  ASSUME CaptureInvariant, worker.step \notin {"waiting", "exited"},
         NEW o \in {"success", "failed", "cancelled"}, Report(o),
         UNCHANGED <<workerFrame, jobs>>,
         file' = file \/ file' = [file EXCEPT ![output[worker.task]] = NoTask],
         o = "success" => file' = file /\ file[output[worker.task]] = worker.task
  PROVE  CaptureInvariant'
<1>. USE DEF CaptureInvariant
<1>0. /\ UNCHANGED <<submitted, finished, completed, state, known, queue, output, runtimes>>
      /\ UNCHANGED <<cancelled, active, stage, jobs>>
      /\ \A u \in Tasks : InQueue(u)' <=> InQueue(u)
  BY WorkerLeaves
<1>. DEFINE w == worker.task
            r == [task |-> worker.task, outcome |-> o]
<1>1. /\ w \in Tasks /\ Held(w) /\ state[w] \notin Early
      /\ \A u \in Tasks : Encoded(u) => u < w
      /\ \A u \in Tasks : InJobs(u) => w < u
  BY WorkerTask
<1>2. r \in Results /\ r.task = w /\ r.outcome = o /\ results' = Append(results, r)
  BY <1>1 DEF Results, Report
<1>3. worker' = [task |-> NoTask, step |-> "waiting"]
  BY DEF Report, IdleWorker
<1>4. worker'.task = NoTask /\ worker'.step = "waiting"
  BY <1>3
<1>5. results \in Seq(Results) /\ ResultsOrdered /\ \A u \in Tasks : InResults(u) => u < r.task
  BY <1>1, <1>2 DEF TypeOK, PipelineOrdered, ResultsOrdered, Encoded
<1>. HIDE DEF r
<1>6. /\ results' \in Seq(Results) /\ ResultsOrdered'
      /\ \A u : InResults(u)' <=> InResults(u) \/ u = w
      /\ \A i \in DOMAIN results' :
           results'[i] = r \/ \E j \in DOMAIN results : results'[i] = results[j]
  BY <1>2, <1>5, ResultAppended
<1>7. \A u \in Tasks : u # NoTask
  BY DEF Tasks, NoTask
<1>8. \A u \in Tasks : InJobs(u)' <=> InJobs(u)
  BY <1>0 DEF InJobs, In
<1>9. \A u \in Tasks : Held(u)' <=> Held(u)
  BY <1>4, <1>6, <1>7, <1>8 DEF Held
<1>10. TypeOK' /\ ClockOrder'
  <2>1. file' \in [Outputs -> Tasks \cup {NoTask}]
    BY <1>1 DEF TypeOK
  <2>. QED BY <1>0, <1>3, <1>6, <2>1 DEF TypeOK, ClockTypeOK, ClockOrder
<1>11. TasksAccounted'
  BY <1>0, <1>9, AccountedSame
<1>12. PipelineOrdered'
  <2>1. \A u \in Tasks : Encoded(u)' <=> Encoded(u) \/ u = w
    BY <1>0, <1>6 DEF Encoded
  <2>2. Increasing(queue)' /\ Increasing(jobs)' /\ ResultsOrdered'
    BY <1>0, <1>6 DEF PipelineOrdered, Increasing
  <2>3. ASSUME NEW t \in Tasks, NEW u \in Tasks
        PROVE  InOrder(t, u)'
    BY <1>0, <1>1, <1>4, <1>7, <1>8, <1>9, <2>1 DEF PipelineOrdered, InOrder
  <2>. QED BY <2>2, <2>3, Zenon DEF PipelineOrdered, ResultsOrdered
<1>13. StagesAgree'
  <2>1. \A t \in Tasks : cancelled'[t] => state'[t] \in {"Cancelling"} \cup Terminal
    BY <1>0 DEF StagesAgree
  <2>. QED BY <1>0, <1>4, <2>1 DEF StagesAgree
<1>14. CompletedHasFile'
  <2>1. ASSUME NEW t \in Tasks, FileKept(t), t < w PROVE FileKept(t)'
    <3>1. CASE file' = file
      BY <1>0, <2>1, <3>1 DEF FileKept
    <3>2. CASE file' = [file EXCEPT ![output[worker.task]] = NoTask]
      BY <1>0, <1>1, <2>1, <3>2, WrittenLater
    <3>. QED BY <3>1, <3>2
  <2>2. ASSUME NEW t \in Tasks, state'[t] = "Completed" PROVE FileKept(t)'
    <3>1. FileKept(t) /\ t < w
      BY <1>0, <1>1, <2>2 DEF CompletedHasFile, Encoded
    <3>. QED BY <2>1, <3>1
  <2>3. ASSUME NEW i \in DOMAIN results', results'[i].outcome = "success"
        PROVE  FileKept(results[i].task)'
    <3>1. CASE results'[i] = r
      <4>1. file'[output'[w]] = w
        BY <1>0, <1>2, <2>3, <3>1
      <4>2. results'[i].task = w
        BY <1>2, <3>1
      <4>. QED BY <4>1, <4>2 DEF FileKept
    <3>2. ASSUME NEW j \in DOMAIN results, results'[i] = results[j]
          PROVE  FileKept(results[i].task)'
      <4>1. PICK t \in Tasks : t = results[j].task
        <5>1. results[j] \in Results
          BY <1>5, LenProperties
        <5>. QED BY <5>1 DEF Results
      <4>2. FileKept(t) /\ InResults(t)
        BY <2>3, <3>2, <4>1 DEF CompletedHasFile, InResults
      <4>3. FileKept(t)'
        BY <1>1, <2>1, <4>2 DEF Encoded
      <4>. QED BY <3>2, <4>1, <4>3 DEF FileKept
    <3>. QED BY <1>6, <3>1, <3>2
  <2>4. worker'.step # "published"
    BY <1>4
  <2>. QED BY <2>2, <2>3, <2>4, Zenon DEF CompletedHasFile
<1>. QED BY <1>10, <1>11, <1>12, <1>13, <1>14

\* The worker goes on with its task.
LEMMA WorkerMovesKeep ==
  ASSUME CaptureInvariant, worker.step \notin {"waiting", "exited"},
         NEW step \in {"publishing", "published"}, worker' = [worker EXCEPT !.step = step],
         UNCHANGED <<workerFrame, jobs, results>>,
         \/ step = "publishing" /\ file' = file
         \/ file' = [file EXCEPT ![output[worker.task]] = worker.task]
  PROVE  CaptureInvariant'
<1>. USE DEF CaptureInvariant
<1>0. /\ UNCHANGED <<submitted, finished, completed, state, known, queue, output, runtimes>>
      /\ UNCHANGED <<cancelled, active, stage, jobs, results>>
      /\ \A u \in Tasks : InQueue(u)' <=> InQueue(u)
  BY WorkerLeaves
<1>1. /\ worker.task \in Tasks /\ Held(worker.task) /\ state[worker.task] \notin Early
      /\ \A u \in Tasks : Encoded(u) => u < worker.task
  BY WorkerTask
<1>2. worker'.task = worker.task /\ worker'.step = step
      /\ worker' \in [task : Tasks \cup {NoTask},
                      step : {"waiting", "encoding", "publishing", "published", "exited"}]
  BY DEF TypeOK
<1>3. \A u \in Tasks : (InJobs(u)' <=> InJobs(u)) /\ (InResults(u)' <=> InResults(u))
  BY <1>0 DEF InJobs, In, InResults
<1>4. \A u \in Tasks : (Held(u)' <=> Held(u)) /\ (Encoded(u)' <=> Encoded(u))
  BY <1>0, <1>2, <1>3 DEF Held, Encoded
<1>5. TypeOK' /\ ClockOrder'
  <2>1. file' \in [Outputs -> Tasks \cup {NoTask}]
    BY <1>1 DEF TypeOK
  <2>. QED BY <1>0, <1>2, <2>1 DEF TypeOK, ClockTypeOK, ClockOrder
<1>6. TasksAccounted'
  BY <1>0, <1>4, AccountedSame
<1>7. PipelineOrdered'
  <2>1. Increasing(queue)' /\ Increasing(jobs)' /\ ResultsOrdered'
    BY <1>0 DEF PipelineOrdered, Increasing, ResultsOrdered
  <2>2. ASSUME NEW t \in Tasks, NEW u \in Tasks
        PROVE  InOrder(t, u)'
    BY <1>0, <1>2, <1>3, <1>4 DEF PipelineOrdered, InOrder
  <2>. QED BY <2>1, <2>2, Zenon DEF PipelineOrdered, ResultsOrdered
<1>8. StagesAgree'
  <2>1. \A t \in Tasks : cancelled'[t] => state'[t] \in {"Cancelling"} \cup Terminal
    BY <1>0 DEF StagesAgree
  <2>2. worker.task # NoTask /\ step \notin {"waiting", "exited"}
    BY DEF StagesAgree
  <2>. QED BY <1>0, <1>2, <2>1, <2>2 DEF StagesAgree
<1>9. CompletedHasFile'
  <2>1. ASSUME NEW t \in Tasks, FileKept(t), Encoded(t) PROVE FileKept(t)'
    <3>1. CASE file' = file
      BY <1>0, <2>1, <3>1 DEF FileKept
    <3>2. CASE file' = [file EXCEPT ![output[worker.task]] = worker.task]
      BY <1>0, <1>1, <2>1, <3>2, WrittenLater
    <3>. QED BY <3>1, <3>2
  <2>2. ASSUME NEW t \in Tasks, state'[t] = "Completed" PROVE FileKept(t)'
    BY <1>0, <2>1, <2>2 DEF CompletedHasFile, Encoded
  <2>3. ASSUME NEW i \in DOMAIN results', results'[i].outcome = "success"
        PROVE  FileKept(results[i].task)'
    <3>1. PICK t \in Tasks : t = results[i].task
      <4>1. results \in Seq(Results) /\ i \in 1 .. Len(results)
        BY <1>0, <2>3, LenProperties DEF TypeOK
      <4>2. results[i] \in Results
        BY <4>1
      <4>. QED BY <4>2 DEF Results
    <3>2. FileKept(t) /\ Encoded(t)
      BY <1>0, <2>3, <3>1 DEF CompletedHasFile, Encoded, InResults
    <3>3. FileKept(t)'
      BY <2>1, <3>2
    <3>. QED BY <1>0, <3>1, <3>3 DEF FileKept
  <2>4. worker'.step = "published" => file'[output'[worker'.task]] = worker'.task
    BY <1>0, <1>1, <1>2 DEF TypeOK
  <2>. QED BY <2>2, <2>3, <2>4, Zenon DEF CompletedHasFile
<1>. QED BY <1>5, <1>6, <1>7, <1>8, <1>9

LEMMA ExitKeeps ==
  ASSUME CaptureInvariant, WorkerExit
  PROVE  CaptureInvariant'
<1>. USE DEF CaptureInvariant
<1>0. /\ UNCHANGED <<submitted, finished, completed, state, known, queue, output, runtimes>>
      /\ UNCHANGED <<cancelled, active, stage, jobs, results, file>>
      /\ \A u \in Tasks : InQueue(u)' <=> InQueue(u)
  BY WorkerLeaves DEF WorkerExit
<1>1. /\ worker'.task = NoTask /\ worker.task = NoTask /\ worker'.step = "exited"
      /\ worker' \in [task : Tasks \cup {NoTask},
                      step : {"waiting", "encoding", "publishing", "published", "exited"}]
      /\ stage = "joining" /\ jobs = << >>
  BY DEF WorkerExit, IdleWorker
<1>2. \A u \in Tasks : (InJobs(u)' <=> InJobs(u)) /\ (InResults(u)' <=> InResults(u))
  BY <1>0 DEF InJobs, In, InResults
<1>3. \A u \in Tasks : (Held(u)' <=> Held(u)) /\ (Encoded(u)' <=> Encoded(u))
  BY <1>0, <1>1, <1>2 DEF Held, Encoded
<1>4. TypeOK' /\ ClockOrder'
  BY <1>0, <1>1 DEF TypeOK, ClockTypeOK, ClockOrder
<1>5. TasksAccounted'
  BY <1>0, <1>3, AccountedSame
<1>6. PipelineOrdered'
  <2>1. Increasing(queue)' /\ Increasing(jobs)' /\ ResultsOrdered'
    BY <1>0 DEF PipelineOrdered, Increasing, ResultsOrdered
  <2>2. ASSUME NEW t \in Tasks, NEW u \in Tasks
        PROVE  InOrder(t, u)'
    BY <1>0, <1>1, <1>2, <1>3 DEF PipelineOrdered, InOrder
  <2>. QED BY <2>1, <2>2, Zenon DEF PipelineOrdered, ResultsOrdered
<1>7. StagesAgree'
  <2>1. \A t \in Tasks : cancelled'[t] => state'[t] \in {"Cancelling"} \cup Terminal
    BY <1>0 DEF StagesAgree
  <2>. QED BY <1>0, <1>1, <2>1 DEF StagesAgree
<1>8. CompletedHasFile'
  BY <1>0, <1>1 DEF CompletedHasFile, FileKept
<1>. QED BY <1>4, <1>5, <1>6, <1>7, <1>8

LEMMA WorkerKeeps ==
  ASSUME CaptureInvariant, WorkerStep
  PROVE  CaptureInvariant'
<1>1. CASE WorkerEncode
  <2>1. worker.step = "encoding"
    BY <1>1 DEF WorkerEncode
  <2>2. CASE Report("cancelled") \/ Report("failed")
    BY <1>1, <2>1, <2>2, ReportKeeps DEF WorkerEncode
  <2>3. CASE worker' = [worker EXCEPT !.step = "publishing"] /\ UNCHANGED results
    BY <1>1, <2>1, <2>3, WorkerMovesKeep DEF WorkerEncode
  <2>. QED BY <1>1, <2>2, <2>3 DEF WorkerEncode
<1>2. CASE WorkerPublish
  <2>1. worker.step = "publishing"
    BY <1>2 DEF WorkerPublish
  <2>2. CASE Report("failed") /\ UNCHANGED file
    BY <1>2, <2>1, <2>2, ReportKeeps DEF WorkerPublish
  <2>3. CASE /\ file' = [file EXCEPT ![output[worker.task]] = worker.task]
             /\ worker' = [worker EXCEPT !.step = "published"] /\ UNCHANGED results
    BY <1>2, <2>1, <2>3, WorkerMovesKeep DEF WorkerPublish
  <2>. QED BY <1>2, <2>2, <2>3 DEF WorkerPublish
<1>3. CASE WorkerCheck
  <2>1. worker.step = "published" /\ file[output[worker.task]] = worker.task
    BY <1>3 DEF WorkerCheck, CaptureInvariant, CompletedHasFile
  <2>2. CASE Report("cancelled") /\ file' = [file EXCEPT ![output[worker.task]] = NoTask]
    BY <1>3, <2>1, <2>2, ReportKeeps DEF WorkerCheck
  <2>3. CASE Report("success") /\ UNCHANGED file
    BY <1>3, <2>1, <2>3, ReportKeeps DEF WorkerCheck
  <2>. QED BY <1>3, <2>2, <2>3 DEF WorkerCheck
<1>. QED BY <1>1, <1>2, <1>3, TakeKeeps, ExitKeeps DEF WorkerStep

-----------------------------------------------------------------------------
(* The main thread.                                                        *)

\* The transitions a step makes are those of the task queue.
Moves ==
  \A t \in Tasks :
    state'[t] # state[t] =>
      <<state[t], state'[t]>> \in ValidTransitions \cup {<<"Encoding", "Cancelled">>}

\* The encoder and the files stay as they are.
EncoderSame == UNCHANGED <<jobs, results, worker, file, output>>

LEMMA SameEncoder ==
  ASSUME EncoderSame
  PROVE  \A u \in Tasks : /\ InJobs(u)' <=> InJobs(u)
                          /\ InResults(u)' <=> InResults(u)
                          /\ Held(u)' <=> Held(u)
BY DEF EncoderSame, InJobs, In, InResults, Held

LEMMA RequestKeeps ==
  ASSUME CaptureInvariant, Request
  PROVE  CaptureInvariant' /\ Moves
<1>. USE DEF CaptureInvariant
<1>1. PICK t \in Tasks :
        /\ state[t] = "None" /\ \A u \in Tasks : u < t => state[u] # "None"
        /\ state' = [state EXCEPT ![t] = "Queued"]
        /\ queue' = Append(queue, t) /\ known' = Trimmed(known \cup {t}, state')
        /\ runtimes' = runtimes \cup {t}
  BY DEF Request
<1>2. /\ UNCHANGED <<submitted, finished, completed, cancelled, active, stage>> /\ EncoderSame
      /\ stage = "running"
  BY DEF Request, clockVars, EncoderSame, MainIdle
<1>3. state \in [Tasks -> States] /\ queue \in Seq(Tasks)
  BY DEF TypeOK
<1>4. \A u \in Tasks : state'[u] = IF u = t THEN "Queued" ELSE state[u]
  BY <1>1, <1>3
<1>5. \A u \in Tasks : In(queue, u) => u < t
  BY <1>1 DEF TasksAccounted, Accounted, PipelineOrdered, InOrder, InQueue
<1>6. /\ queue' \in Seq(Tasks) /\ Increasing(queue')
      /\ \A u : InQueue(u)' <=> InQueue(u) \/ u = t
  BY <1>1, <1>3, <1>5, AppendedLast DEF PipelineOrdered, InQueue
<1>7. /\ known' \subseteq known \cup {t}
      /\ \A u \in known \cup {t} : state'[u] \notin Terminal => u \in known'
  BY <1>1, TrimmedEnded
<1>8. \A u \in Tasks : /\ InJobs(u)' <=> InJobs(u)
                       /\ InResults(u)' <=> InResults(u)
                       /\ Held(u)' <=> Held(u)
  BY <1>2, SameEncoder
<1>9. \A u \in Tasks : Encoded(u)' <=> Encoded(u)
  BY <1>1, <1>4, <1>8 DEF Encoded
<1>10. TypeOK' /\ ClockOrder'
  <2>1. state' \in [Tasks -> States] /\ known' \in SUBSET Tasks /\ runtimes' \in SUBSET Tasks
    BY <1>1, <1>3, <1>7 DEF TypeOK, States
  <2>. QED BY <1>2, <1>6, <2>1 DEF TypeOK, ClockTypeOK, ClockOrder, EncoderSame
<1>11. TasksAccounted'
  <2>1. ASSUME NEW u \in Tasks, u # t
        PROVE  Accounted(u)'
    BY <1>1, <1>2, <1>4, <1>6, <1>7, <1>8, <2>1 DEF TasksAccounted, Accounted, Copying
  <2>2. /\ t \in known' \cap runtimes' /\ InQueue(t)' /\ state'[t] = "Queued"
        /\ active'.task # t /\ ~Held(t)'
    <3>1. active.task # t /\ ~Held(t)
      BY <1>1 DEF TasksAccounted, Accounted, Copying
    <3>2. state'[t] = "Queued" /\ state'[t] \notin Terminal
      BY <1>4 DEF Terminal
    <3>. QED BY <1>1, <1>2, <1>6, <1>7, <1>8, <3>1, <3>2
  <2>. QED BY <2>1, <2>2 DEF TasksAccounted, Accounted, Copying
<1>12. PipelineOrdered'
  <2>1. Increasing(queue)' /\ Increasing(jobs)' /\ ResultsOrdered'
    BY <1>2, <1>6 DEF PipelineOrdered, Increasing, ResultsOrdered, EncoderSame
  <2>2. ASSUME NEW a \in Tasks, NEW u \in Tasks
        PROVE  InOrder(a, u)'
    <3>1. Encoded(a) \/ Held(a) \/ active.task = a => state[a] # "None"
      BY DEF Encoded, Held, TasksAccounted, Accounted, Copying
    <3>2. state[a] # "None" => a < t
      BY <1>1 DEF PipelineOrdered, InOrder
    <3>3. state'[a] # "None" /\ state'[u] = "None" => a < u
      <4>1. a = t /\ u # t /\ state[u] = "None" => a < u
        BY <1>1 DEF Tasks
      <4>. QED BY <1>4, <4>1 DEF PipelineOrdered, InOrder
    <3>. QED BY <1>2, <1>6, <1>8, <1>9, <3>1, <3>2, <3>3 DEF PipelineOrdered, InOrder, EncoderSame
  <2>. QED BY <2>1, <2>2, Zenon DEF PipelineOrdered, ResultsOrdered
<1>13. StagesAgree'
  <2>1. \A u \in Tasks : cancelled'[u] => state'[u] \in {"Cancelling"} \cup Terminal
    BY <1>1, <1>2, <1>4 DEF StagesAgree, Terminal
  <2>. QED BY <1>2, <2>1 DEF StagesAgree, EncoderSame
<1>14. CompletedHasFile'
  <2>1. UNCHANGED <<file, output, worker>> /\ results' = results
    BY <1>2 DEF EncoderSame
  <2>2. \A u \in Tasks : state[u] \notin Early => state'[u] \notin Early
    BY <1>1, <1>4 DEF Early
  <2>3. \A u \in Tasks : state'[u] = "Completed" => state[u] = "Completed"
    BY <1>4
  <2>. QED BY <2>1, <2>2, <2>3, FilesStay
<1>15. Moves
  BY <1>1, <1>4 DEF Moves, ValidTransitions
<1>. QED BY <1>10, <1>11, <1>12, <1>13, <1>14, <1>15

\* The order stays when a task leaves the queue, perhaps for the frame, or a
\* task leaves the frame.
LEMMA OrderStays ==
  ASSUME TypeOK, PipelineOrdered, EncoderSame,
         queue' \in Seq(Tasks), Increasing(queue'), \A u \in Tasks : InQueue(u)' => InQueue(u),
         \/ active'.task \in {NoTask, active.task}
         \/ active'.task \in Tasks /\ InQueue(active'.task)
            /\ \A u \in Tasks : InQueue(u)' => active'.task < u,
         \A u \in Tasks : /\ state'[u] = "None" <=> state[u] = "None"
                          /\ state'[u] = "Completed" => state[u] = "Completed"
  PROVE  PipelineOrdered'
<1>1. \A u \in Tasks : /\ InJobs(u)' <=> InJobs(u)
                       /\ InResults(u)' <=> InResults(u)
                       /\ Held(u)' <=> Held(u)
  BY SameEncoder
<1>2. \A u \in Tasks : Encoded(u)' => Encoded(u)
  BY <1>1 DEF Encoded
<1>3. Increasing(queue)' /\ Increasing(jobs)' /\ ResultsOrdered'
  BY DEF PipelineOrdered, Increasing, ResultsOrdered, EncoderSame
<1>4. worker' = worker /\ \A u \in Tasks : u # NoTask
  BY DEF EncoderSame, Tasks, NoTask
<1>5. ASSUME NEW a \in Tasks, NEW u \in Tasks
      PROVE  InOrder(a, u)'
  BY <1>1, <1>2, <1>4 DEF PipelineOrdered, InOrder
<1>. QED BY <1>3, <1>5, Zenon DEF PipelineOrdered, ResultsOrdered

\* Files stay when no capture completes.
LEMMA FilesStayHere ==
  ASSUME TypeOK, CompletedHasFile, EncoderSame,
         \A u \in Tasks : state[u] \notin Early => state'[u] \notin Early,
         \A u \in Tasks : state'[u] = "Completed" => state[u] = "Completed"
  PROVE  CompletedHasFile'
BY FilesStay DEF EncoderSame

LEMMA CancelledOne ==
  ASSUME TypeOK, NEW t \in Tasks
  PROVE  /\ CancelledUpTo({t}, t) \in [Tasks -> States]
         /\ \A u \in Tasks : CancelledUpTo({t}, t)[u] = IF u = t THEN "Cancelled" ELSE state[u]
BY DEF CancelledUpTo, TypeOK, Tasks, States, Terminal

LEMMA CancelKeeps ==
  ASSUME CaptureInvariant, NEW t \in Tasks, Cancel(t)
  PROVE  CaptureInvariant' /\ Moves
<1>. USE DEF CaptureInvariant
<1>1. /\ UNCHANGED <<submitted, finished, completed, active, stage>> /\ EncoderSame
      /\ stage = "running" /\ t \in known /\ state[t] \notin Terminal
      /\ cancelled' = [cancelled EXCEPT ![t] = TRUE]
      /\ ~Recording
  BY DEF Cancel, clockVars, EncoderSame, MainIdle, Active, Ended
<1>2. state \in [Tasks -> States] /\ queue \in Seq(Tasks) /\ state[t] # "None"
  BY <1>1 DEF TypeOK, TasksAccounted, Accounted
<1>3. \A u \in Tasks : /\ InJobs(u)' <=> InJobs(u)
                       /\ InResults(u)' <=> InResults(u)
                       /\ Held(u)' <=> Held(u)
  BY <1>1, SameEncoder
<1>4. state[t] # "Recording" /\ t # NoTask
  BY <1>1 DEF TasksAccounted, Accounted, Recording, NoTask, Tasks
<1>5. cancelled' \in [Tasks -> BOOLEAN] /\ \A u \in Tasks : u # t => cancelled'[u] = cancelled[u]
  BY <1>1, Zenon DEF TypeOK
<1>6. CASE state[t] = "Queued"
  <2>1. /\ state' = CancelledUpTo({t}, t) /\ queue' = Without(queue, t)
        /\ known' = Trimmed(known, state') /\ runtimes' = RuntimesLeft({t})
    BY <1>6 DEF Cancel
  <2>2. state' \in [Tasks -> States]
        /\ \A u \in Tasks : state'[u] = IF u = t THEN "Cancelled" ELSE state[u]
    BY <2>1, CancelledOne
  <2>3. /\ queue' \in Seq(Tasks) /\ Increasing(queue')
        /\ \A u : InQueue(u)' <=> InQueue(u) /\ u # t
    BY <1>2, <1>6, <2>1, RemovedOnce DEF PipelineOrdered, InQueue, TasksAccounted, Accounted
  <2>4. /\ known' \subseteq known
        /\ \A u \in known : state'[u] \notin Terminal => u \in known'
    BY <2>1, TrimmedEnded
  <2>5. runtimes' \subseteq runtimes /\ \A u \in runtimes : u # t => u \in runtimes'
    BY <2>1 DEF RuntimesLeft
  <2>6. TypeOK' /\ ClockOrder'
    BY <1>1, <1>5, <2>2, <2>3, <2>4, <2>5 DEF TypeOK, ClockTypeOK, ClockOrder, EncoderSame
  <2>7. TasksAccounted'
    <3>1. ASSUME NEW u \in Tasks, u # t
          PROVE  Accounted(u)'
      BY <1>1, <1>3, <2>2, <2>3, <2>4, <2>5, <3>1 DEF TasksAccounted, Accounted, Copying
    <3>2. active'.task # t /\ ~Held(t)'
      BY <1>1, <1>3, <1>6 DEF TasksAccounted, Accounted, Copying
    <3>3. state'[t] = "Cancelled" /\ ~InQueue(t)'
      BY <2>2, <2>3
    <3>. QED BY <3>1, <3>2, <3>3 DEF TasksAccounted, Accounted, Copying, Terminal
  <2>8. PipelineOrdered'
    BY <1>1, <1>6, <2>2, <2>3, OrderStays
  <2>9. StagesAgree'
    <3>1. \A u \in Tasks : cancelled'[u] => state'[u] \in {"Cancelling"} \cup Terminal
      BY <1>5, <2>2 DEF StagesAgree, Terminal
    <3>. QED BY <1>1, <3>1 DEF StagesAgree, EncoderSame
  <2>10. CompletedHasFile'
    BY <1>1, <2>2, FilesStayHere DEF Early
  <2>11. Moves
    BY <1>6, <2>2 DEF Moves, ValidTransitions
  <2>. QED BY <2>6, <2>7, <2>8, <2>9, <2>10, <2>11
<1>7. CASE state[t] # "Queued"
  <2>1. state' = [state EXCEPT ![t] = "Cancelling"] /\ UNCHANGED <<known, queue, runtimes>>
    BY <1>7 DEF Cancel
  <2>2. state' \in [Tasks -> States]
        /\ \A u \in Tasks : state'[u] = IF u = t THEN "Cancelling" ELSE state[u]
    BY <1>2, <2>1 DEF States
  <2>3. \A u \in Tasks : InQueue(u)' <=> InQueue(u)
    BY <2>1 DEF InQueue, In
  <2>4. state[t] \in {"WaitingForGpu", "Encoding", "Cancelling"}
    BY <1>1, <1>2, <1>4, <1>7 DEF States, Terminal
  <2>5. TypeOK' /\ ClockOrder'
    BY <1>1, <1>5, <2>1, <2>2 DEF TypeOK, ClockTypeOK, ClockOrder, EncoderSame
  <2>6. TasksAccounted'
    <3>1. ASSUME NEW u \in Tasks
          PROVE  Accounted(u)'
      <4>1. CASE u # t
        BY <1>1, <1>3, <2>1, <2>2, <2>3, <4>1 DEF TasksAccounted, Accounted, Copying
      <4>2. CASE u = t
        <5>1. ~(active.task = t /\ active.serial = 0) /\ ~InQueue(t)
              /\ (Copying(t) <=> ~Held(t)) /\ t \in known \cap runtimes
          BY <2>4 DEF TasksAccounted, Accounted, Terminal, Copying
        <5>2. (Copying(t)' <=> Copying(t)) /\ (Held(t)' <=> Held(t)) /\ ~InQueue(t)'
          BY <1>1, <1>3, <2>3, <5>1 DEF Copying
        <5>. QED BY <1>1, <2>1, <2>2, <4>2, <5>1, <5>2 DEF Accounted
      <4>. QED BY <4>1, <4>2
    <3>. QED BY <3>1 DEF TasksAccounted, Accounted
  <2>7. PipelineOrdered'
    BY <1>1, <1>2, <2>1, <2>2, <2>3, OrderStays DEF PipelineOrdered, InOrder
  <2>8. StagesAgree'
    <3>1. \A u \in Tasks : cancelled'[u] => state'[u] \in {"Cancelling"} \cup Terminal
      BY <1>5, <2>2 DEF StagesAgree, Terminal
    <3>. QED BY <1>1, <2>1, <3>1 DEF StagesAgree, EncoderSame
  <2>9. CompletedHasFile'
    BY <1>1, <2>2, FilesStayHere DEF Early
  <2>10. Moves
    BY <2>2, <2>4 DEF Moves, ValidTransitions
  <2>. QED BY <2>5, <2>6, <2>7, <2>8, <2>9, <2>10
<1>. QED BY <1>6, <1>7

\* beginNext takes the head of the queue: whatever is queued is in its state.
LEMMA HeadIsNext ==
  ASSUME TypeOK, TasksAccounted, Startable
  PROVE  queue # << >> /\ queue[FirstQueued] = Head(queue)
         /\ SubSeq(queue, FirstQueued + 1, Len(queue)) = Tail(queue)
<1>1. queue \in Seq(Tasks) /\ DOMAIN queue = 1 .. Len(queue) /\ Len(queue) \in Nat
  BY LenProperties DEF TypeOK
<1>2. queue # << >>
  BY <1>1 DEF Startable
<1>3. \A i \in DOMAIN queue : state[queue[i]] = "Queued"
  <2>. SUFFICES ASSUME NEW i \in DOMAIN queue PROVE state[queue[i]] = "Queued"
    OBVIOUS
  <2>1. queue[i] \in Tasks /\ InQueue(queue[i])
    BY <1>1 DEF InQueue, In
  <2>. QED BY <2>1 DEF TasksAccounted, Accounted
<1>4. 1 \in DOMAIN queue
  BY <1>1, <1>2, EmptySeq
<1>5. FirstQueued = 1
  <2>1. \A j \in DOMAIN queue : ~(j < 1)
    BY <1>1
  <2>2. FirstQueued \in DOMAIN queue
        /\ \A j \in DOMAIN queue : j < FirstQueued => state[queue[j]] # "Queued"
    BY <1>3, <1>4, <2>1 DEF FirstQueued
  <2>3. ~(1 < FirstQueued)
    BY <1>3, <1>4, <2>2
  <2>. QED BY <1>1, <2>2, <2>3
<1>6. Head(queue) = queue[1] /\ Tail(queue) = SubSeq(queue, 2, Len(queue))
  BY <1>1, <1>2, TailIsSubSeq
<1>. QED BY <1>2, <1>5, <1>6

LEMMA PrepareKeeps ==
  ASSUME CaptureInvariant, PrepareFrame
  PROVE  CaptureInvariant' /\ Moves
<1>. USE DEF CaptureInvariant
<1>1. /\ UNCHANGED <<submitted, finished, completed, cancelled, stage>> /\ EncoderSame
      /\ stage = "running" /\ active = NoCapture /\ Startable
  BY DEF PrepareFrame, clockVars, EncoderSame, MainIdle
<1>2. queue # << >> /\ queue[FirstQueued] = Head(queue) /\ queue' = Tail(queue)
  BY <1>1, HeadIsNext DEF PrepareFrame
<1>3. state \in [Tasks -> States] /\ queue \in Seq(Tasks) /\ Increasing(queue)
  BY DEF TypeOK, PipelineOrdered
<1>0. PICK t \in Tasks : t = Head(queue)
  BY <1>2, <1>3, FirstTaken
<1>4. /\ t \in Tasks /\ InQueue(t) /\ queue' \in Seq(Tasks) /\ Increasing(queue')
      /\ \A u : InQueue(u)' <=> InQueue(u) /\ u # t
      /\ \A u : InQueue(u)' => t < u
  BY <1>0, <1>2, <1>3, FirstTaken DEF InQueue
<1>5. state[t] = "Queued" /\ ~Held(t) /\ t # NoTask /\ t \in known \cap runtimes
  BY <1>4 DEF TasksAccounted, Accounted, Tasks, NoTask, Terminal
<1>6. \A u \in Tasks : /\ InJobs(u)' <=> InJobs(u)
                       /\ InResults(u)' <=> InResults(u)
                       /\ Held(u)' <=> Held(u)
  BY <1>1, SameEncoder
<1>7. active.task = NoTask /\ active.serial = 0
  BY <1>1 DEF NoCapture
<1>8. ASSUME NEW s \in {"Recording", "Failed"},
             state' = [state EXCEPT ![t] = s],
             known' \subseteq known, \A u \in known : state'[u] \notin Terminal => u \in known',
             runtimes' \subseteq runtimes,
             \A u \in runtimes : u # t \/ s = "Recording" => u \in runtimes',
             active' = IF s = "Recording" THEN [task |-> t, serial |-> 0] ELSE active
      PROVE  CaptureInvariant' /\ Moves
  <2>1. state' \in [Tasks -> States]
        /\ \A u \in Tasks : state'[u] = IF u = t THEN s ELSE state[u]
    BY <1>3, <1>8 DEF States, Terminal
  <2>2. active'.serial = 0 /\ active'.task = IF s = "Recording" THEN t ELSE NoTask
    BY <1>7, <1>8
  <2>3. TypeOK' /\ ClockOrder'
    <3>1. active' \in [task : Tasks \cup {NoTask}, serial : Serials]
      BY <1>4, <1>8, SubmissionBound DEF TypeOK, Serials
    <3>. QED BY <1>1, <1>4, <1>8, <2>1, <3>1 DEF TypeOK, ClockTypeOK, ClockOrder, EncoderSame
  <2>4. TasksAccounted'
    <3>1. ASSUME NEW u \in Tasks, u # t PROVE Accounted(u)'
      <4>1. active.task # u /\ active'.task # u
        BY <1>7, <2>2, <3>1 DEF Tasks, NoTask
      <4>. QED BY <1>4, <1>6, <1>8, <2>1, <3>1, <4>1 DEF TasksAccounted, Accounted, Copying
    <3>2. Accounted(t)'
      <4>1. ~InQueue(t)' /\ ~Held(t)'
        BY <1>4, <1>5, <1>6
      <4>2. state'[t] = s /\ t \in known
        BY <1>4, <1>5, <2>1
      <4>3. s = "Recording" => t \in known' \cap runtimes'
        BY <1>5, <1>8, <4>2 DEF Terminal
      <4>4. (s = "Recording") <=> (active'.task = t)
        BY <1>5, <2>2
      <4>. QED BY <1>8, <2>2, <4>1, <4>2, <4>3, <4>4 DEF Accounted, Copying, Terminal
    <3>. QED BY <3>1, <3>2 DEF TasksAccounted
  <2>5. PipelineOrdered'
    BY <1>1, <1>4, <1>5, <1>7, <2>1, <2>2, OrderStays
  <2>6. StagesAgree'
    <3>1. \A u \in Tasks : cancelled'[u] => state'[u] \in {"Cancelling"} \cup Terminal
      BY <1>1, <1>5, <2>1 DEF StagesAgree, Terminal
    <3>. QED BY <1>1, <1>7, <2>2, <3>1 DEF StagesAgree, EncoderSame
  <2>7. CompletedHasFile'
    BY <1>1, <1>5, <2>1, FilesStayHere DEF Early
  <2>8. Moves
    BY <1>5, <2>1 DEF Moves, ValidTransitions
  <2>. QED BY <2>3, <2>4, <2>5, <2>6, <2>7, <2>8
<1>9. CASE state' = [state EXCEPT ![t] = "Recording"] /\ active' = [task |-> t, serial |-> 0]
           /\ UNCHANGED <<known, runtimes>>
  BY <1>8, <1>9
<1>10. CASE Fail(t) /\ UNCHANGED active
  <2>1. state' = [state EXCEPT ![t] = "Failed"] /\ known' = Trimmed(known, state')
        /\ runtimes' = runtimes \ {t}
    BY <1>10 DEF Fail
  <2>2. known' \subseteq known /\ \A u \in known : state'[u] \notin Terminal => u \in known'
    BY <2>1, TrimmedEnded
  <2>. QED BY <1>8, <1>10, <2>1, <2>2
<1>. QED BY <1>0, <1>2, <1>9, <1>10 DEF PrepareFrame

LEMMA SubmitKeeps ==
  ASSUME CaptureInvariant, FrameSubmitted
  PROVE  CaptureInvariant' /\ Moves
<1>. USE DEF CaptureInvariant
<1>1. /\ UNCHANGED <<finished, completed, queue, cancelled, stage>> /\ EncoderSame
      /\ stage = "running" /\ active.task # NoTask /\ active.serial = 0
      /\ submitted < MaxSubmissions /\ submitted' = submitted + 1
  BY DEF FrameSubmitted, EncoderSame, Recording, Submit
<1>0. PICK t \in Tasks : t = active.task
  BY <1>1 DEF TypeOK
<1>2. /\ state \in [Tasks -> States] /\ t \in Tasks
      /\ active \in [task : Tasks \cup {NoTask}, serial : Serials]
      /\ submitted \in Nat /\ finished \in Nat /\ completed \in Nat
  BY <1>1 DEF TypeOK, ClockTypeOK, Serials
<1>3. state[t] = "Recording" /\ ~Held(t) /\ t \in known \cap runtimes
  BY <1>0, <1>1, <1>2 DEF TasksAccounted, Accounted, Terminal
<1>4. \A u \in Tasks : /\ InJobs(u)' <=> InJobs(u)
                       /\ InResults(u)' <=> InResults(u)
                       /\ Held(u)' <=> Held(u)
                       /\ InQueue(u)' <=> InQueue(u)
  BY <1>1, SameEncoder DEF InQueue, In
<1>5. ASSUME NEW s \in {"WaitingForGpu", "Failed"},
             state' = [state EXCEPT ![t] = s],
             known' \subseteq known, \A u \in known : state'[u] \notin Terminal => u \in known',
             runtimes' \subseteq runtimes,
             \A u \in runtimes : u # t \/ s = "WaitingForGpu" => u \in runtimes',
             active' \in [task : Tasks \cup {NoTask}, serial : Serials],
             s = "WaitingForGpu" => active'.task = t /\ active'.serial = submitted + 1,
             s = "Failed" => active'.task = NoTask /\ active'.serial = 0
      PROVE  CaptureInvariant' /\ Moves
  <2>1. state' \in [Tasks -> States]
        /\ \A u \in Tasks : state'[u] = IF u = t THEN s ELSE state[u]
    BY <1>2, <1>5 DEF States, Terminal
  <2>2. TypeOK' /\ ClockOrder'
    <3>1. submitted' \in Serials /\ finished <= submitted'
      BY <1>1, <1>2, SubmissionBound DEF Serials, ClockOrder
    <3>. QED BY <1>1, <1>5, <2>1, <3>1 DEF TypeOK, ClockTypeOK, ClockOrder, EncoderSame
  <2>3. \A u \in Tasks : active'.task = u => u = t
    BY <1>5 DEF Tasks, NoTask
  <2>4. TasksAccounted'
    <3>1. ASSUME NEW u \in Tasks, u # t PROVE Accounted(u)'
      <4>1. active.task # u /\ active'.task # u
        BY <1>0, <2>3, <3>1
      <4>. QED BY <1>4, <1>5, <2>1, <3>1, <4>1 DEF TasksAccounted, Accounted, Copying
    <3>2. Accounted(t)'
      <4>1. ~InQueue(t)
        BY <1>2, <1>3 DEF TasksAccounted, Accounted
      <4>2. submitted + 1 # 0
        BY <1>2
      <4>3. t # NoTask
        BY <1>0, <1>1
      <4>4. ~InQueue(t)' /\ ~Held(t)' /\ state'[t] = s
        BY <1>2, <1>3, <1>4, <2>1, <4>1
      <4>5. s = "WaitingForGpu" => t \in known' \cap runtimes'
        BY <1>3, <1>5, <4>4 DEF Terminal
      <4>6. /\ (s = "WaitingForGpu") <=> (active'.task = t)
            /\ active'.task = t => active'.serial # 0
        BY <1>5, <4>2, <4>3
      <4>. QED BY <1>5, <4>4, <4>5, <4>6 DEF Accounted, Copying, Terminal
    <3>. QED BY <3>1, <3>2 DEF TasksAccounted
  <2>5. PipelineOrdered'
    <3>1. active'.task \in {NoTask, active.task}
      BY <1>0, <1>5
    <3>2. queue' \in Seq(Tasks) /\ Increasing(queue')
      BY <1>1 DEF TypeOK, PipelineOrdered
    <3>. QED BY <1>1, <1>3, <1>4, <2>1, <3>1, <3>2, OrderStays
  <2>6. StagesAgree'
    <3>1. \A u \in Tasks : cancelled'[u] => state'[u] \in {"Cancelling"} \cup Terminal
      BY <1>1, <1>2, <1>3, <2>1 DEF StagesAgree, Terminal
    <3>2. active'.serial # 0 => active'.task # NoTask
      BY <1>2, <1>5 DEF Tasks, NoTask
    <3>3. active'.serial <= submitted'
      BY <1>1, <1>2, <1>5
    <3>. QED BY <1>1, <3>1, <3>2, <3>3 DEF StagesAgree, EncoderSame
  <2>7. CompletedHasFile'
    BY <1>1, <1>3, <2>1, FilesStayHere DEF Early
  <2>8. Moves
    BY <1>3, <2>1 DEF Moves, ValidTransitions
  <2>. QED BY <2>2, <2>4, <2>5, <2>6, <2>7, <2>8
<1>6. CASE /\ state' = [state EXCEPT ![active.task] = "WaitingForGpu"]
           /\ active' = [active EXCEPT !.serial = SubmittedSerial]
           /\ UNCHANGED <<known, runtimes>>
  <2>1. submitted + 1 \in Serials
    BY <1>1, <1>2, SubmissionBound DEF Serials
  <2>2. /\ active' \in [task : Tasks \cup {NoTask}, serial : Serials]
        /\ active'.task = t /\ active'.serial = submitted + 1
    BY <1>0, <1>2, <1>6, <2>1 DEF SubmittedSerial
  <2>. QED BY <1>0, <1>5, <1>6, <2>2
<1>7. CASE Fail(active.task) /\ active' = NoCapture
  <2>1. state' = [state EXCEPT ![t] = "Failed"] /\ known' = Trimmed(known, state')
        /\ runtimes' = runtimes \ {t}
    BY <1>0, <1>7 DEF Fail
  <2>2. known' \subseteq known /\ \A u \in known : state'[u] \notin Terminal => u \in known'
    BY <2>1, TrimmedEnded
  <2>3. /\ active' \in [task : Tasks \cup {NoTask}, serial : Serials]
        /\ active'.task = NoTask /\ active'.serial = 0
    BY <1>7, SubmissionBound DEF NoCapture, Serials
  <2>. QED BY <1>5, <2>1, <2>2, <2>3
<1>. QED BY <1>6, <1>7 DEF FrameSubmitted

\* The clock alone advances, or nothing happens.
LEMMA ClockKeeps ==
  ASSUME CaptureInvariant,
         \/ UNCHANGED clockFrame /\ (Submit \/ Finish \/ Observe)
         \/ UNCHANGED vars
  PROVE  CaptureInvariant' /\ Moves
<1>. USE DEF CaptureInvariant
<1>1. /\ UNCHANGED <<state, known, queue, output, runtimes, cancelled, active, jobs>>
      /\ UNCHANGED <<results, worker, file, stage>>
  BY DEF clockFrame, vars, queueVars
<1>2. submitted \in Nat /\ finished \in Nat /\ completed \in Nat /\ active.serial \in Nat
  BY SubmissionBound DEF TypeOK, ClockTypeOK, Serials
<1>3. ClockTypeOK' /\ ClockOrder' /\ submitted <= submitted'
  BY <1>2, SubmissionBound
     DEF TypeOK, ClockTypeOK, ClockOrder, Serials, Submit, Finish, Observe, vars, clockVars
<1>4. TypeOK'
  BY <1>1, <1>3 DEF TypeOK
<1>5. \A u \in Tasks : /\ InJobs(u)' <=> InJobs(u)
                       /\ InResults(u)' <=> InResults(u)
                       /\ Held(u)' <=> Held(u)
                       /\ InQueue(u)' <=> InQueue(u)
  BY <1>1 DEF InJobs, InResults, In, Held, InQueue
<1>6. TasksAccounted'
  BY <1>1, <1>5, AccountedSame
<1>7. PipelineOrdered'
  BY <1>1, <1>5, OrderStays DEF EncoderSame, PipelineOrdered, TypeOK
<1>8. StagesAgree'
  <2>1. \A u \in Tasks : cancelled'[u] => state'[u] \in {"Cancelling"} \cup Terminal
    BY <1>1 DEF StagesAgree
  <2>2. active'.serial <= submitted'
    BY <1>1, <1>2, <1>3 DEF StagesAgree, ClockTypeOK, Serials
  <2>. QED BY <1>1, <2>1, <2>2 DEF StagesAgree
<1>9. CompletedHasFile'
  BY <1>1 DEF CompletedHasFile, FileKept
<1>10. Moves
  BY <1>1 DEF Moves
<1>. QED BY <1>3, <1>4, <1>6, <1>7, <1>8, <1>9, <1>10

-----------------------------------------------------------------------------
(* The results and the readback of update.                                 *)

\* processWorkerResults skips no result, and none is the active capture's.
LEMMA ReportedTasks ==
  ASSUME CaptureInvariant
  PROVE  /\ Reported = {t \in Tasks : InResults(t)}
         /\ \A t \in Reported :
              /\ state[t] \in {"Encoding", "Cancelling"} /\ active.task # t
              /\ ~InJobs(t) /\ worker.task # t
              /\ Outcome(t) \in Terminal
              /\ state[t] = "Cancelling" => Outcome(t) = "Cancelled"
              /\ Outcome(t) = "Completed" =>
                   \E i \in DOMAIN results : results[i].task = t /\ results[i].outcome = "success"
<1>. USE DEF CaptureInvariant
<1>1. \A t \in Tasks : InResults(t) => state[t] \in {"Encoding", "Cancelling"}
  BY DEF TasksAccounted, Accounted, Held
<1>2. \A t \in Tasks : InResults(t) => t \in known \cap runtimes
  BY <1>1 DEF TasksAccounted, Accounted, Terminal
<1>3. known \cap runtimes \subseteq Tasks
  BY DEF TypeOK
<1>4. Reported = {t \in Tasks : InResults(t)}
  BY <1>2, <1>3 DEF Reported, InResults
<1>5. ASSUME NEW t \in Reported
      PROVE  active.task # t /\ ~InJobs(t) /\ worker.task # t
  <2>1. t \in Tasks /\ Encoded(t) /\ ~(t < t)
    BY <1>4 DEF Encoded, Tasks
  <2>2. InOrder(t, t)
    BY <2>1 DEF PipelineOrdered
  <2>. QED BY <2>1, <2>2 DEF InOrder
<1>6. ASSUME NEW t \in Reported
      PROVE  /\ Outcome(t) \in Terminal
             /\ state[t] = "Cancelling" => Outcome(t) = "Cancelled"
             /\ Outcome(t) = "Completed" =>
                  \E i \in DOMAIN results : results[i].task = t /\ results[i].outcome = "success"
  <2>. DEFINE r == CHOOSE i \in DOMAIN results : results[i].task = t
  <2>1. r \in DOMAIN results /\ results[r].task = t
    BY <1>4 DEF InResults
  <2>2. Outcome(t) = IF results[r].outcome = "cancelled" \/ state[t] = "Cancelling" THEN "Cancelled"
                     ELSE IF results[r].outcome = "success" THEN "Completed"
                     ELSE "Failed"
    BY DEF Outcome
  <2>. HIDE DEF r
  <2>3. CASE results[r].outcome = "cancelled" \/ state[t] = "Cancelling"
    <3>1. Outcome(t) = "Cancelled"
      BY <2>2, <2>3
    <3>. QED BY <3>1 DEF Terminal
  <2>4. CASE results[r].outcome = "success" /\ ~(state[t] = "Cancelling")
    <3>1. Outcome(t) = "Completed"
      BY <2>2, <2>4
    <3>. QED BY <2>1, <2>4, <3>1 DEF Terminal
  <2>5. CASE ~(results[r].outcome = "cancelled" \/ state[t] = "Cancelling")
             /\ results[r].outcome # "success"
    <3>1. Outcome(t) = "Failed"
      BY <2>2, <2>5
    <3>. QED BY <2>5, <3>1 DEF Terminal
  <2>. QED BY <2>3, <2>4, <2>5
<1>. QED BY <1>1, <1>4, <1>5, <1>6

\* The captures go on in the same order when results are taken, and when the
\* active one leaves for the encoder or ends.
LEMMA OrderAfterUpdate ==
  ASSUME TypeOK, PipelineOrdered, worker' = worker, results' \in {results, << >>},
         queue' \in Seq(Tasks), Increasing(queue'), \A u \in Tasks : InQueue(u)' => InQueue(u),
         active'.task \in {NoTask, active.task},
         \/ jobs' = jobs
         \/ jobs' = Append(jobs, active.task) /\ active.task \in Tasks /\ active'.task = NoTask,
         \A u \in Tasks : /\ state'[u] = "None" <=> state[u] = "None"
                          /\ state'[u] = "Completed" => Encoded(u)
  PROVE  /\ PipelineOrdered' /\ jobs' \in Seq(Tasks)
         /\ \A u : InJobs(u)' <=> InJobs(u) \/ (jobs' # jobs /\ u = active.task)
<1>1. jobs \in Seq(Tasks) /\ \A u \in Tasks : u # NoTask
  BY DEF TypeOK, Tasks, NoTask
<1>2. /\ jobs' \in Seq(Tasks) /\ Increasing(jobs')
      /\ \A u : InJobs(u)' <=> InJobs(u) \/ (jobs' # jobs /\ u = active.task)
  <2>1. CASE jobs' = jobs
    BY <1>1, <2>1, Zenon DEF PipelineOrdered, InJobs
  <2>2. CASE jobs' = Append(jobs, active.task) /\ active.task \in Tasks
    <3>1. \A u \in Tasks : In(jobs, u) => u < active.task
      BY <2>2 DEF PipelineOrdered, InOrder, Held, InJobs
    <3>2. /\ jobs' \in Seq(Tasks) /\ Increasing(jobs')
          /\ \A u : In(jobs', u) <=> In(jobs, u) \/ u = active.task
      BY <1>1, <2>2, <3>1, AppendedLast DEF PipelineOrdered
    <3>3. jobs' # jobs
      BY <1>1, <2>2, AppendProperties
    <3>. QED BY <3>2, <3>3, Zenon DEF InJobs
  <2>. QED BY <2>1, <2>2
<1>3. \A u \in Tasks : InResults(u)' => InResults(u)
  <2>1. CASE results' = << >>
    <3>1. DOMAIN results' = {}
      BY <2>1
    <3>. QED BY <3>1 DEF InResults
  <2>2. CASE results' = results
    BY <2>2 DEF InResults
  <2>. QED BY <2>1, <2>2
<1>4. \A u \in Tasks : Encoded(u)' => Encoded(u)
  BY <1>3 DEF Encoded
<1>5. \A u \in Tasks : Held(u)' => Held(u) \/ (jobs' # jobs /\ u = active.task)
  BY <1>2, <1>3, Zenon DEF Held
<1>6. ResultsOrdered'
  <2>1. CASE results' = << >>
    <3>1. DOMAIN results' = {}
      BY <2>1
    <3>. QED BY <3>1 DEF ResultsOrdered
  <2>2. CASE results' = results
    BY <2>2 DEF ResultsOrdered, PipelineOrdered
  <2>. QED BY <2>1, <2>2
<1>7. ASSUME NEW a \in Tasks, NEW u \in Tasks
      PROVE  InOrder(a, u)'
  <2>1. InOrder(a, u)
    BY DEF PipelineOrdered
  <2>2. InJobs(u)' => InJobs(u) \/ active.task = u
    BY <1>2
  <2>3. active'.task = u => jobs' = jobs /\ active.task = u
    BY <1>1
  <2>4. Held(a)' => Held(a) \/ active.task = a
    BY <1>5
  <2>5. active'.task = a => active.task = a
    BY <1>1
  <2>6. jobs' = jobs => (Held(a)' => Held(a))
    BY <1>5
  <2>7. worker.task = a => Held(a)
    BY DEF Held
  <2>. QED BY <1>4, <2>1, <2>2, <2>3, <2>4, <2>5, <2>6, <2>7 DEF InOrder
<1>8. Increasing(queue)' /\ Increasing(jobs)'
  BY <1>2 DEF Increasing
<1>. QED BY <1>2, <1>6, <1>7, <1>8, Zenon DEF PipelineOrdered, ResultsOrdered

\* What update does to the tasks of st, where b is the capture it reads back.
Settles(st, rt, b, next) ==
  /\ state' = [u \in Tasks |-> IF u = b THEN next
                               ELSE IF InResults(u) THEN Outcome(u) ELSE st[u]]
  /\ runtimes' \subseteq rt
  /\ \A u \in rt : ~InResults(u) /\ (u # b \/ next = "Encoding") => u \in runtimes'
  /\ IF b = NoTask THEN jobs' = jobs /\ active' = active
     ELSE /\ b = active.task /\ active' = NoCapture
          /\ jobs' = IF next = "Encoding" THEN Append(jobs, b) ELSE jobs
          /\ \/ state[b] = "WaitingForGpu" /\ next \in {"Encoding", "Failed"}
             \/ state[b] = "Cancelling" /\ next = "Cancelled"

LEMMA UpdateSettles ==
  ASSUME CaptureInvariant, NEW serial, NEW st \in [Tasks -> States], NEW rt,
         UpdateAt(serial, st, rt)
  PROVE  \E b \in Tasks \cup {NoTask}, next \in States :
            Settles(st, rt, b, next) /\ (b = NoTask <=> ~Finished(serial))
<1>. USE DEF CaptureInvariant
<1>1. Reported = {t \in Tasks : InResults(t)}
  BY ReportedTasks
<1>2. Processed(st) = [u \in Tasks |-> IF InResults(u) THEN Outcome(u) ELSE st[u]]
  BY <1>1 DEF Processed
<1>3. CASE Finished(serial)
  <2>1. PICK next \in ReadBack(active.task) :
            /\ state' = [Processed(st) EXCEPT ![active.task] = next]
            /\ runtimes' = rt \ (Reported \cup {t \in {active.task} : next # "Encoding"})
            /\ jobs' = jobs \o IF next = "Encoding" THEN <<active.task>> ELSE <<>>
            /\ active' = NoCapture
    BY <1>3 DEF UpdateAt
  <2>2. PICK b \in Tasks : b = active.task
    BY <1>3 DEF Finished, StagesAgree, TypeOK
  <2>3. Copying(b) /\ b # NoTask
    BY <1>3, <2>2 DEF Finished, Copying, Tasks, NoTask
  <2>4. state[b] \in {"WaitingForGpu", "Cancelling"}
    BY <2>3 DEF TasksAccounted, Accounted
  <2>5. cancelled[b] => state[b] = "Cancelling"
    BY <2>4 DEF StagesAgree, Terminal
  <2>6. \/ state[b] = "WaitingForGpu" /\ next \in {"Encoding", "Failed"}
        \/ state[b] = "Cancelling" /\ next = "Cancelled"
    BY <2>1, <2>2, <2>4, <2>5 DEF ReadBack
  <2>7. state' = [u \in Tasks |-> IF u = b THEN next
                                  ELSE IF InResults(u) THEN Outcome(u) ELSE st[u]]
    BY <1>2, <2>1, <2>2
  <2>8. jobs' = IF next = "Encoding" THEN Append(jobs, b) ELSE jobs
    <3>1. jobs \in Seq(Tasks)
      BY DEF TypeOK
    <3>2. CASE next = "Encoding"
      <4>1. jobs' = jobs \o <<b>>
        BY <2>1, <2>2, <3>2
      <4>2. Append(jobs, b) = jobs \o <<b>>
        BY <3>1, AppendIsConcat
      <4>. QED BY <3>2, <4>1, <4>2
    <3>3. CASE next # "Encoding"
      <4>1. jobs' = jobs \o <<>>
        BY <2>1, <3>3
      <4>. QED BY <3>1, <3>3, <4>1, ConcatEmptySeq
    <3>. QED BY <3>2, <3>3
  <2>9. /\ runtimes' \subseteq rt
        /\ \A u \in rt : ~InResults(u) /\ (u # b \/ next = "Encoding") => u \in runtimes'
    BY <1>1, <2>1, <2>2
  <2>10. next \in States
    BY <2>6 DEF States, Terminal
  <2>11. Settles(st, rt, b, next)
    BY <2>1, <2>2, <2>3, <2>6, <2>7, <2>8, <2>9 DEF Settles
  <2>. QED BY <1>3, <2>3, <2>10, <2>11
<1>4. CASE ~Finished(serial)
  <2>1. /\ state' = Processed(st) /\ runtimes' = rt \ Reported
        /\ jobs' = jobs /\ active' = active
    BY <1>4 DEF UpdateAt
  <2>2. \A u \in Tasks : u # NoTask
    BY DEF Tasks, NoTask
  <2>3. state' = [u \in Tasks |-> IF u = NoTask THEN "None"
                                  ELSE IF InResults(u) THEN Outcome(u) ELSE st[u]]
    BY <1>2, <2>1, <2>2
  <2>4. /\ runtimes' \subseteq rt
        /\ \A u \in rt : ~InResults(u) /\ (u # NoTask \/ "None" = "Encoding") => u \in runtimes'
    BY <1>1, <2>1
  <2>5. Settles(st, rt, NoTask, "None")
    BY <2>1, <2>3, <2>4, Zenon DEF Settles
  <2>6. "None" \in States
    BY DEF States
  <2>. QED BY <1>4, <2>5, <2>6
<1>. QED BY <1>3, <1>4

\* update keeps the invariant, for whatever of the queued tasks was cancelled
\* before it (st) and whatever completed serial it is given.
LEMMA UpdateKeeps ==
  ASSUME CaptureInvariant, NEW serial, NEW st \in [Tasks -> States], NEW rt,
         UpdateAt(serial, st, rt), UNCHANGED <<worker, file, output, submitted>>,
         \A t \in Tasks : st[t] = state[t] \/ (state[t] = "Queued" /\ st[t] = "Cancelled"),
         rt \subseteq runtimes,
         \A t \in runtimes : st[t] \notin Terminal => t \in rt,
         queue' \in Seq(Tasks), Increasing(queue'),
         \A u \in Tasks : InQueue(u)' <=> st[u] = "Queued",
         cancelled' \in [Tasks -> BOOLEAN],
         \A u \in Tasks : cancelled'[u] => cancelled[u] \/ st[u] # state[u],
         ClockTypeOK', ClockOrder', stage = "running", stage' \in {"running", "joining"},
         stage' = "joining" => queue' = << >> /\ (active.serial # 0 => Finished(serial))
                               /\ ~Recording
  PROVE  CaptureInvariant' /\ Moves
<1>. USE DEF CaptureInvariant
<1>1. PICK b \in Tasks \cup {NoTask}, next \in States :
         Settles(st, rt, b, next) /\ (b = NoTask <=> ~Finished(serial))
  BY UpdateSettles
<1>2. results' = << >> /\ known' = Trimmed(known, state')
  BY DEF UpdateAt
<1>3. /\ Reported = {t \in Tasks : InResults(t)}
      /\ \A t \in Reported :
              /\ state[t] \in {"Encoding", "Cancelling"} /\ active.task # t
              /\ ~InJobs(t) /\ worker.task # t
              /\ Outcome(t) \in Terminal
              /\ state[t] = "Cancelling" => Outcome(t) = "Cancelled"
              /\ Outcome(t) = "Completed" =>
                   \E i \in DOMAIN results : results[i].task = t /\ results[i].outcome = "success"
  BY ReportedTasks
<1>4. \A t \in Tasks : t # NoTask
  BY DEF Tasks, NoTask
<1>5. /\ state' \in [Tasks -> States]
      /\ \A u \in Tasks : u # b /\ InResults(u) => state'[u] = Outcome(u)
      /\ \A u \in Tasks : u # b /\ ~InResults(u) => state'[u] = st[u]
      /\ b # NoTask => state'[b] = next
  BY <1>1, <1>3 DEF Settles, States
<1>6. b # NoTask => /\ b = active.task /\ active' = NoCapture
                    /\ ~InResults(b) /\ ~InQueue(b) /\ ~Held(b) /\ st[b] = state[b]
                    /\ \/ state[b] = "WaitingForGpu" /\ next \in {"Encoding", "Failed"}
                       \/ state[b] = "Cancelling" /\ next = "Cancelled"
  <2>. SUFFICES ASSUME b # NoTask
                PROVE  /\ b = active.task /\ active' = NoCapture
                       /\ ~InResults(b) /\ ~InQueue(b) /\ ~Held(b) /\ st[b] = state[b]
                       /\ \/ state[b] = "WaitingForGpu" /\ next \in {"Encoding", "Failed"}
                          \/ state[b] = "Cancelling" /\ next = "Cancelled"
    OBVIOUS
  <2>1. /\ b = active.task /\ active' = NoCapture
        /\ \/ state[b] = "WaitingForGpu" /\ next \in {"Encoding", "Failed"}
           \/ state[b] = "Cancelling" /\ next = "Cancelled"
    BY <1>1 DEF Settles
  <2>2. active.serial # 0 /\ Copying(b)
    BY <1>1, <2>1 DEF Finished, Copying
  <2>3. ~Held(b) /\ ~InQueue(b)
    BY <2>1, <2>2 DEF TasksAccounted, Accounted
  <2>4. ~InResults(b)
    BY <2>3 DEF Held
  <2>. QED BY <2>1, <2>3, <2>4
<1>7. b = NoTask => active' = active /\ jobs' = jobs
  BY <1>1 DEF Settles
<1>8. b # NoTask => jobs' = IF next = "Encoding" THEN Append(jobs, b) ELSE jobs
  BY <1>1 DEF Settles
<1>9. active'.task \in {NoTask, active.task} /\ (b # NoTask => active'.task = NoTask)
  BY <1>6, <1>7 DEF NoCapture
<1>10. \A t \in Tasks : (state'[t] = "Completed" /\ state[t] # "Completed") => InResults(t)
  BY <1>4, <1>5, <1>6
<1>11. \A t \in Tasks : state'[t] = "None" <=> state[t] = "None"
  <2>1. ASSUME NEW t \in Tasks, InResults(t), t # b
        PROVE  state'[t] = "None" <=> state[t] = "None"
    BY <1>3, <1>5, <2>1 DEF Terminal
  <2>2. ASSUME NEW t \in Tasks, ~InResults(t), t # b
        PROVE  state'[t] = "None" <=> state[t] = "None"
    BY <1>5, <2>2
  <2>3. ASSUME NEW t \in Tasks, t = b
        PROVE  state'[t] = "None" <=> state[t] = "None"
    BY <1>4, <1>5, <1>6, <2>3
  <2>. QED BY <2>1, <2>2, <2>3
<1>12. \A u \in Tasks : InQueue(u)' => InQueue(u)
  BY DEF TasksAccounted, Accounted
<1>13. /\ PipelineOrdered' /\ jobs' \in Seq(Tasks)
       /\ \A u : InJobs(u)' <=> InJobs(u) \/ (jobs' # jobs /\ u = active.task)
  <2>1. \/ jobs' = jobs
        \/ jobs' = Append(jobs, active.task) /\ active.task \in Tasks /\ active'.task = NoTask
    BY <1>6, <1>7, <1>8, <1>9
  <2>2. \A u \in Tasks : state'[u] = "Completed" => Encoded(u)
    BY <1>10 DEF Encoded
  <2>. QED BY <1>2, <1>9, <1>11, <1>12, <2>1, <2>2, OrderAfterUpdate
<1>14. jobs' # jobs <=> (b # NoTask /\ next = "Encoding")
  <2>1. jobs \in Seq(Tasks)
    BY DEF TypeOK
  <2>2. b \in Tasks => Append(jobs, b) # jobs
    BY <2>1, AppendProperties
  <2>. QED BY <1>7, <1>8, <2>2
<1>15. \A u \in Tasks : ~InResults(u)'
  <2>1. DOMAIN results' = {}
    BY <1>2
  <2>. QED BY <2>1 DEF InResults
<1>16. ASSUME NEW u \in Tasks, u # b, ~InResults(u)
       PROVE  Held(u)' <=> Held(u)
  <2>1. InJobs(u)' <=> InJobs(u)
    BY <1>6, <1>13, <1>14, <1>16
  <2>. QED BY <1>15, <1>16, <2>1 DEF Held
<1>17. TypeOK'
  <2>1. known' \subseteq known /\ runtimes' \subseteq runtimes
    BY <1>1, <1>2, TrimmedEnded DEF Settles
  <2>2. results' \in Seq(Results)
    BY <1>2
  <2>3. active' \in [task : Tasks \cup {NoTask}, serial : Serials]
    BY <1>6, <1>7, SubmissionBound DEF TypeOK, NoCapture, Serials
  <2>. QED BY <1>5, <1>13, <2>1, <2>2, <2>3 DEF TypeOK
<1>18. TasksAccounted'
  <2>1. ASSUME NEW u \in Tasks
        PROVE  state'[u] \notin Terminal \cup {"None"} => u \in known' \cap runtimes'
    <3>. SUFFICES ASSUME state'[u] \notin Terminal \cup {"None"}
                  PROVE  u \in known' \cap runtimes'
      OBVIOUS
    <3>1. ~InResults(u) \/ u = b
      BY <1>3, <1>5
    <3>2. u = b => ~InResults(u) /\ next = "Encoding"
      BY <1>4, <1>5, <1>6 DEF Terminal
    <3>3. state[u] \notin Terminal \cup {"None"} /\ st[u] \notin Terminal
      BY <1>4, <1>5, <1>6, <3>1 DEF Terminal
    <3>4. u \in known /\ u \in runtimes
      BY <3>3 DEF TasksAccounted, Accounted
    <3>5. u \in known'
      BY <1>2, <3>4, TrimmedEnded
    <3>6. u \in runtimes'
      BY <1>1, <3>1, <3>2, <3>3, <3>4 DEF Settles
    <3>. QED BY <3>5, <3>6
  <2>2. ASSUME NEW u \in Tasks
        PROVE  u \in known' => state'[u] # "None"
    BY <1>2, <1>11, TrimmedEnded DEF TasksAccounted, Accounted
  <2>3. ASSUME NEW u \in Tasks, u = b
        PROVE  Accounted(u)'
    <3>1. active'.task # u /\ ~InQueue(u)'
      BY <1>4, <1>6, <1>12, <2>3 DEF NoCapture
    <3>2. Held(u)' <=> next = "Encoding"
      <4>1. InJobs(u)' <=> next = "Encoding"
        BY <1>4, <1>6, <1>13, <1>14, <2>3 DEF Held
      <4>2. worker'.task # u
        BY <1>4, <1>6, <2>3 DEF Held
      <4>. QED BY <1>15, <4>1, <4>2 DEF Held
    <3>3. state'[u] = next /\ next \in {"Encoding", "Failed", "Cancelled"}
      BY <1>4, <1>5, <1>6, <2>3
    <3>. QED BY <2>1, <2>2, <3>1, <3>2, <3>3 DEF Accounted, Copying
  <2>4. ASSUME NEW u \in Tasks, u # b, InResults(u)
        PROVE  Accounted(u)'
    <3>1. active'.task # u
      BY <1>3, <1>4, <1>9, <2>4
    <3>2. ~InQueue(u)'
      BY <1>3, <2>4
    <3>3. ~Held(u)'
      <4>1. ~InJobs(u)' /\ worker'.task # u
        BY <1>3, <1>13, <2>4
      <4>. QED BY <1>15, <4>1 DEF Held
    <3>4. state'[u] \in Terminal
      BY <1>3, <1>5, <2>4
    <3>. QED BY <2>1, <2>2, <3>1, <3>2, <3>3, <3>4 DEF Accounted, Copying, Terminal
  <2>5. ASSUME NEW u \in Tasks, u # b, ~InResults(u)
        PROVE  Accounted(u)'
    <3>1. /\ active'.task = u <=> active.task = u
          /\ Copying(u)' <=> Copying(u)
          /\ (active'.task = u /\ active'.serial = 0) <=> (active.task = u /\ active.serial = 0)
      BY <1>4, <1>6, <1>7, <1>9, <2>5 DEF Copying
    <3>2. (Held(u)' <=> Held(u)) /\ state'[u] = st[u] /\ (InQueue(u)' <=> state'[u] = "Queued")
      BY <1>5, <1>16, <2>5
    <3>3. Accounted(u)
      BY DEF TasksAccounted
    <3>4. CASE st[u] = state[u]
      BY <2>1, <2>2, <3>1, <3>2, <3>3, <3>4 DEF Accounted
    <3>5. CASE state[u] = "Queued" /\ st[u] = "Cancelled"
      <4>1. ~Held(u) /\ ~Copying(u) /\ ~(active.task = u /\ active.serial = 0)
        BY <3>3, <3>5 DEF Accounted
      <4>. QED BY <2>1, <2>2, <3>1, <3>2, <3>5, <4>1 DEF Accounted
    <3>. QED BY <3>4, <3>5
  <2>. QED BY <2>3, <2>4, <2>5, Zenon DEF TasksAccounted
<1>19. StagesAgree'
  <2>1. \A u \in Tasks : cancelled'[u] => state'[u] \in {"Cancelling"} \cup Terminal
    <3>. SUFFICES ASSUME NEW u \in Tasks, cancelled'[u]
                  PROVE  state'[u] \in {"Cancelling"} \cup Terminal
      OBVIOUS
    <3>1. st[u] \in {"Cancelling"} \cup Terminal
      <4>1. CASE cancelled[u]
        BY <4>1 DEF StagesAgree, Terminal
      <4>2. CASE st[u] # state[u]
        BY <4>2 DEF Terminal
      <4>. QED BY <4>1, <4>2
    <3>. QED BY <1>3, <1>4, <1>5, <1>6, <3>1 DEF Terminal
  <2>2. (active'.serial # 0 => active'.task # NoTask) /\ active'.serial <= submitted'
    BY <1>6, <1>7 DEF StagesAgree, NoCapture, ClockTypeOK, Serials
  <2>3. stage' # "running" => queue' = << >> /\ active' = NoCapture
    <3>. SUFFICES ASSUME stage' = "joining" PROVE active' = NoCapture
      OBVIOUS
    <3>1. CASE active.serial # 0
      BY <1>1, <1>6, <3>1
    <3>2. CASE active.serial = 0
      BY <1>6, <1>7, <3>2 DEF Recording, TypeOK, NoCapture
    <3>. QED BY <3>1, <3>2
  <2>4. worker'.step = "exited" => stage' # "running" /\ jobs' = << >>
    BY DEF StagesAgree
  <2>5. worker'.task = NoTask <=> worker'.step \in {"waiting", "exited"}
    BY DEF StagesAgree
  <2>. QED BY <2>1, <2>2, <2>3, <2>4, <2>5 DEF StagesAgree
<1>20. CompletedHasFile'
  <2>1. \A u \in Tasks : state[u] \notin Early => state'[u] \notin Early
    <3>. SUFFICES ASSUME NEW u \in Tasks, state[u] \notin Early PROVE state'[u] \notin Early
      OBVIOUS
    <3>. QED BY <1>3, <1>4, <1>5, <1>6 DEF Early, Terminal
  <2>2. ASSUME NEW t \in Tasks, state'[t] = "Completed", state[t] # "Completed"
        PROVE  \E i \in DOMAIN results : results[i].task = t /\ results[i].outcome = "success"
    <3>1. InResults(t) /\ t # b
      BY <1>4, <1>5, <1>6, <1>10, <2>2
    <3>. QED BY <1>3, <1>5, <2>2, <3>1
  <2>. QED BY <1>2, <2>1, <2>2, FilesStay
<1>21. Moves
  <2>. SUFFICES ASSUME NEW t \in Tasks, state'[t] # state[t]
                PROVE  <<state[t], state'[t]>> \in ValidTransitions \cup {<<"Encoding", "Cancelled">>}
    BY DEF Moves
  <2>1. CASE t = b
    BY <1>4, <1>5, <1>6, <2>1 DEF ValidTransitions
  <2>2. CASE t # b /\ InResults(t)
    BY <1>3, <1>5, <2>2 DEF ValidTransitions, Terminal
  <2>3. CASE t # b /\ ~InResults(t)
    BY <1>5, <2>3 DEF ValidTransitions
  <2>. QED BY <2>1, <2>2, <2>3
<1>. QED BY <1>13, <1>17, <1>18, <1>19, <1>20, <1>21

-----------------------------------------------------------------------------
(* The main thread's updates and the shutdown.                             *)

LEMMA UpdatesKeep ==
  ASSUME CaptureInvariant, Update \/ UpdateAfterAllFrames
  PROVE  CaptureInvariant' /\ Moves
<1>. USE DEF CaptureInvariant
<1>1. /\ stage = "running" /\ UNCHANGED <<submitted, queue, output, cancelled, worker, file, stage>>
      /\ \E serial \in {completed, submitted} : UpdateAt(serial, state, runtimes)
  BY DEF Update, UpdateAfterAllFrames, MainIdle, clockVars
<1>2. ClockTypeOK' /\ ClockOrder'
  <2>1. CASE UNCHANGED clockVars
    BY <2>1 DEF TypeOK, ClockTypeOK, ClockOrder, clockVars
  <2>2. CASE finished = submitted /\ completed' = submitted /\ UNCHANGED <<submitted, finished>>
    BY <2>2, SubmissionBound DEF TypeOK, ClockTypeOK, ClockOrder, Serials
  <2>. QED BY <2>1, <2>2 DEF Update, UpdateAfterAllFrames
<1>3. /\ state \in [Tasks -> States] /\ cancelled' \in [Tasks -> BOOLEAN]
      /\ queue' \in Seq(Tasks) /\ Increasing(queue')
  BY <1>1 DEF TypeOK, PipelineOrdered
<1>4. \A u \in Tasks : InQueue(u)' <=> state[u] = "Queued"
  BY <1>1 DEF TasksAccounted, Accounted, InQueue, In
<1>. QED BY <1>1, <1>2, <1>3, <1>4, UpdateKeeps

\* What shutdown cancels first: whatever is queued.
LEMMA QueuedCancelled ==
  ASSUME CaptureInvariant
  PROVE  /\ CancelledUpTo(Queued, MaxTasks) \in [Tasks -> States]
         /\ \A u \in Tasks : CancelledUpTo(Queued, MaxTasks)[u] =
                               IF state[u] = "Queued" THEN "Cancelled" ELSE state[u]
         /\ RuntimesLeft(Queued) \subseteq runtimes
         /\ \A u \in runtimes : state[u] # "Queued" => u \in RuntimesLeft(Queued)
<1>. USE DEF CaptureInvariant
<1>1. \A u \in Tasks : (u \in Queued /\ u <= MaxTasks) <=> state[u] = "Queued"
  <2>1. \A u \in Tasks : u <= MaxTasks
    BY TaskBounds DEF Tasks
  <2>2. \A u \in Tasks : state[u] = "Queued" => u \in known
    BY DEF TasksAccounted, Accounted, Terminal
  <2>. QED BY <2>1, <2>2 DEF Queued
<1>2. CancelledUpTo(Queued, MaxTasks)
        = [u \in Tasks |-> IF state[u] = "Queued" THEN "Cancelled" ELSE state[u]]
  BY <1>1 DEF CancelledUpTo
<1>3. RuntimesLeft(Queued) \subseteq runtimes
      /\ \A u \in runtimes : state[u] # "Queued" => u \in RuntimesLeft(Queued)
  BY DEF RuntimesLeft, Queued
<1>. QED BY <1>2, <1>3 DEF TypeOK, States, Terminal

LEMMA ShutdownBeginKeeps ==
  ASSUME CaptureInvariant, ShutdownBegin
  PROVE  CaptureInvariant' /\ Moves
<1>. USE DEF CaptureInvariant
<1>1. /\ stage = "running" /\ stage' = "joining" /\ finished = submitted
      /\ completed' = submitted /\ queue' = << >>
      /\ cancelled' = [t \in Tasks |-> cancelled[t] \/ t \in Queued]
      /\ UNCHANGED <<submitted, finished, output, worker, file>>
  BY DEF ShutdownBegin
<1>. DEFINE st == CancelledUpTo(Queued, MaxTasks)
            rt == RuntimesLeft(Queued)
<1>2. /\ st \in [Tasks -> States]
      /\ \A u \in Tasks : st[u] = IF state[u] = "Queued" THEN "Cancelled" ELSE state[u]
      /\ rt \subseteq runtimes
      /\ \A u \in runtimes : state[u] # "Queued" => u \in rt
  BY QueuedCancelled
<1>3. IF Recording
      THEN /\ state' = [st EXCEPT ![active.task] = "Failed"]
           /\ known' = Trimmed(known, state')
           /\ runtimes' = rt \ {active.task}
           /\ active' = NoCapture
           /\ UNCHANGED <<jobs, results>>
      ELSE UpdateAt(submitted, st, rt)
  BY DEF ShutdownBegin
<1>. HIDE DEF st, rt
<1>4. ClockTypeOK' /\ ClockOrder'
  BY <1>1, SubmissionBound DEF TypeOK, ClockTypeOK, ClockOrder, Serials
<1>5. /\ cancelled' \in [Tasks -> BOOLEAN]
      /\ \A u \in Tasks : cancelled'[u] => cancelled[u] \/ state[u] = "Queued"
  <2>1. \A u \in Tasks : cancelled[u] \in BOOLEAN
    BY DEF TypeOK
  <2>2. \A u \in Tasks : (cancelled[u] \/ u \in Queued) \in BOOLEAN
    BY <2>1, Zenon
  <2>3. \A u \in Tasks : cancelled'[u] <=> cancelled[u] \/ u \in Queued
    BY <1>1, <2>1, Zenon
  <2>. QED BY <1>1, <2>2, <2>3, Zenon DEF Queued
<1>6. /\ queue' \in Seq(Tasks) /\ Increasing(queue')
      /\ \A u \in Tasks : ~InQueue(u)' /\ st[u] # "Queued"
  <2>1. DOMAIN queue' = {}
    BY <1>1
  <2>2. Increasing(queue') /\ \A u \in Tasks : ~InQueue(u)'
    BY <2>1 DEF Increasing, InQueue, In
  <2>. QED BY <1>1, <1>2, <2>2
<1>7. CASE ~Recording
  <2>1. UpdateAt(submitted, st, rt)
    BY <1>3, <1>7
  <2>2. active.serial # 0 => Finished(submitted)
    BY DEF Finished, StagesAgree
  <2>3. \A t \in Tasks : st[t] = state[t] \/ (state[t] = "Queued" /\ st[t] = "Cancelled")
    BY <1>2
  <2>4. \A t \in runtimes : st[t] \notin Terminal => t \in rt
    BY <1>2 DEF TypeOK, Terminal
  <2>5. \A u \in Tasks : cancelled'[u] => cancelled[u] \/ st[u] # state[u]
    BY <1>2, <1>5
  <2>6. \A u \in Tasks : InQueue(u)' <=> st[u] = "Queued"
    BY <1>6
  <2>. QED BY <1>1, <1>2, <1>4, <1>5, <1>6, <1>7, <2>1, <2>2, <2>3, <2>4, <2>5, <2>6, UpdateKeeps
<1>8. CASE Recording
  <2>1. PICK b \in Tasks : b = active.task
    BY <1>8 DEF Recording, TypeOK
  <2>2. state[b] = "Recording" /\ active.serial = 0 /\ ~Held(b)
    BY <1>8, <2>1 DEF Recording, TasksAccounted, Accounted
  <2>3. /\ state' = [st EXCEPT ![b] = "Failed"] /\ known' = Trimmed(known, state')
        /\ runtimes' = rt \ {b} /\ active' = NoCapture
        /\ UNCHANGED <<jobs, results>> /\ EncoderSame
    BY <1>1, <1>3, <1>8, <2>1 DEF EncoderSame
  <2>4. /\ state' \in [Tasks -> States]
        /\ \A u \in Tasks : state'[u] = IF u = b THEN "Failed"
                                        ELSE IF state[u] = "Queued" THEN "Cancelled" ELSE state[u]
    BY <1>2, <2>3 DEF States, Terminal
  <2>5. active'.task = NoTask /\ active'.serial = 0 /\ \A u \in Tasks : u # NoTask
    BY <2>3 DEF NoCapture, Tasks, NoTask
  <2>6. /\ known' \subseteq known /\ runtimes' \subseteq runtimes
        /\ \A u \in known : state'[u] \notin Terminal => u \in known'
        /\ \A u \in runtimes : state[u] # "Queued" /\ u # b => u \in runtimes'
    BY <1>2, <2>3, TrimmedEnded
  <2>7. \A u \in Tasks : /\ InJobs(u)' <=> InJobs(u)
                         /\ InResults(u)' <=> InResults(u)
                         /\ Held(u)' <=> Held(u)
    BY <2>3, SameEncoder
  <2>8. TypeOK'
    <3>1. active' \in [task : Tasks \cup {NoTask}, serial : Serials]
      BY <2>3, SubmissionBound DEF NoCapture, Serials
    <3>. QED BY <1>1, <1>4, <1>5, <1>6, <2>3, <2>4, <2>6, <3>1 DEF TypeOK
  <2>9. TasksAccounted'
    <3>1. ASSUME NEW u \in Tasks, u # b PROVE Accounted(u)'
      <4>1. Accounted(u) /\ active.task # u
        BY <2>1, <3>1 DEF TasksAccounted
      <4>2. ~InQueue(u)' /\ active'.task # u /\ ~Copying(u)
        BY <1>6, <2>5, <4>1 DEF Copying
      <4>3. CASE state[u] = "Queued"
        <5>1. ~Held(u)' /\ state'[u] = "Cancelled"
          BY <2>4, <2>7, <3>1, <4>1, <4>3 DEF Accounted
        <5>. QED BY <4>2, <5>1 DEF Accounted, Copying, Terminal
      <4>4. CASE state[u] # "Queued"
        <5>1. state'[u] = state[u]
          BY <2>4, <3>1, <4>4
        <5>2. state'[u] \notin Terminal \cup {"None"} => u \in known' \cap runtimes'
          BY <2>6, <3>1, <4>1, <4>4, <5>1 DEF Accounted
        <5>. QED BY <2>6, <2>7, <4>1, <4>2, <4>4, <5>1, <5>2 DEF Accounted, Copying
      <4>. QED BY <4>3, <4>4
    <3>2. Accounted(b)'
      <4>1. ~InQueue(b)' /\ active'.task # b /\ ~Held(b)' /\ state'[b] = "Failed"
        BY <1>6, <2>2, <2>4, <2>5, <2>7
      <4>. QED BY <4>1 DEF Accounted, Copying, Terminal
    <3>. QED BY <3>1, <3>2 DEF TasksAccounted
  <2>10. PipelineOrdered'
    BY <1>6, <2>2, <2>3, <2>4, <2>5, OrderStays
  <2>11. StagesAgree'
    <3>1. \A u \in Tasks : cancelled'[u] => state'[u] \in {"Cancelling"} \cup Terminal
      BY <1>5, <2>2, <2>4 DEF StagesAgree, Terminal
    <3>2. active'.serial <= submitted'
      BY <1>1, <2>5 DEF TypeOK, ClockTypeOK, Serials
    <3>. QED BY <1>1, <2>3, <2>5, <3>1, <3>2 DEF StagesAgree
  <2>12. CompletedHasFile'
    BY <2>2, <2>3, <2>4, FilesStayHere DEF Early
  <2>13. Moves
    BY <2>2, <2>4 DEF Moves, ValidTransitions
  <2>. QED BY <1>4, <2>8, <2>9, <2>10, <2>11, <2>12, <2>13
<1>. QED BY <1>7, <1>8

\* Once the worker is joined every capture has ended or has a result.
LEMMA ShutdownFinishKeeps ==
  ASSUME CaptureInvariant, ShutdownFinish
  PROVE  CaptureInvariant' /\ Moves
<1>. USE DEF CaptureInvariant
<1>1. /\ stage = "joining" /\ worker.step = "exited" /\ stage' = "ended" /\ results' = << >>
      /\ UNCHANGED <<queue, output, cancelled, active, jobs, worker, file>>
      /\ UNCHANGED <<submitted, finished, completed>>
      /\ known' = Trimmed(known, state')
  BY DEF ShutdownFinish, clockVars
<1>2. queue = << >> /\ active = NoCapture /\ jobs = << >> /\ worker.task = NoTask
  BY <1>1 DEF StagesAgree
<1>3. \A u \in Tasks : u # NoTask
  BY DEF Tasks, NoTask
<1>4. \A u \in Tasks : ~InQueue(u) /\ active.task # u /\ ~InJobs(u) /\ worker.task # u
  <2>1. DOMAIN queue = {} /\ DOMAIN jobs = {}
    BY <1>2
  <2>. QED BY <1>2, <1>3, <2>1 DEF InQueue, InJobs, In, NoCapture
<1>5. \A u \in Tasks : Held(u) <=> InResults(u)
  BY <1>4 DEF Held
<1>6. /\ Reported = {t \in Tasks : InResults(t)}
      /\ \A t \in Reported :
              /\ state[t] \in {"Encoding", "Cancelling"} /\ active.task # t
              /\ ~InJobs(t) /\ worker.task # t
              /\ Outcome(t) \in Terminal
              /\ state[t] = "Cancelling" => Outcome(t) = "Cancelled"
              /\ Outcome(t) = "Completed" =>
                   \E i \in DOMAIN results : results[i].task = t /\ results[i].outcome = "success"
  BY ReportedTasks
<1>7. \A u \in Tasks : ~InResults(u) => state[u] \in Terminal \cup {"None"}
  <2>. SUFFICES ASSUME NEW u \in Tasks, ~InResults(u)
                PROVE  state[u] \in Terminal \cup {"None"}
    OBVIOUS
  <2>1. ~Held(u) /\ ~Copying(u)
    BY <1>4, <1>5 DEF Copying
  <2>2. state[u] \in States
    BY DEF TypeOK
  <2>. QED BY <1>4, <2>1, <2>2 DEF TasksAccounted, Accounted, States
<1>8. \A u \in Tasks : u \in Active => u \in Reported
  <2>. SUFFICES ASSUME NEW u \in Tasks, u \in Active PROVE u \in Reported
    OBVIOUS
  <2>1. u \in known /\ state[u] \notin Terminal
    BY DEF Active, Ended
  <2>2. state[u] # "None"
    BY <2>1 DEF TasksAccounted, Accounted
  <2>. QED BY <1>6, <1>7, <2>1, <2>2
<1>9. Active \ Reported = {}
  <2>1. Active \subseteq Tasks
    BY DEF Active, TypeOK
  <2>. QED BY <1>8, <2>1
<1>10. /\ state' = [t \in Tasks |-> Processed(state)[t]]
       /\ runtimes' = runtimes \ Reported
  BY <1>9 DEF ShutdownFinish
<1>11. /\ \A u \in Tasks : state'[u] = IF InResults(u) THEN Outcome(u) ELSE state[u]
       /\ state' \in [Tasks -> States]
  <2>1. \A u \in Tasks : Processed(state)[u] = IF InResults(u) THEN Outcome(u) ELSE state[u]
    BY <1>6 DEF Processed
  <2>. QED BY <1>6, <1>10, <2>1 DEF States, TypeOK
<1>12. \A u \in Tasks : state'[u] \in Terminal \cup {"None"}
  BY <1>6, <1>7, <1>11
<1>13. \A u \in Tasks : ~InResults(u)' /\ ~InJobs(u)' /\ ~InQueue(u)' /\ ~Held(u)'
  <2>1. DOMAIN results' = {} /\ DOMAIN queue' = {} /\ DOMAIN jobs' = {}
    BY <1>1, <1>2
  <2>. QED BY <1>1, <1>4, <2>1 DEF InResults, InJobs, InQueue, In, Held
<1>14. TypeOK' /\ ClockOrder'
  <2>1. known' \subseteq known /\ runtimes' \subseteq runtimes
    BY <1>1, <1>10, TrimmedEnded
  <2>2. results' \in Seq(Results)
    BY <1>1
  <2>. QED BY <1>1, <1>11, <2>1, <2>2 DEF TypeOK, ClockTypeOK, ClockOrder
<1>15. \A u \in Tasks : state'[u] = "None" <=> state[u] = "None"
  BY <1>6, <1>11 DEF Terminal
<1>16. TasksAccounted'
  <2>. SUFFICES ASSUME NEW u \in Tasks PROVE Accounted(u)'
    BY DEF TasksAccounted
  <2>1. active'.task # u
    BY <1>1, <1>4
  <2>2. u \in known' => state'[u] # "None"
    BY <1>1, <1>15, TrimmedEnded DEF TasksAccounted, Accounted
  <2>. QED BY <1>12, <1>13, <2>1, <2>2 DEF Accounted, Copying, Terminal
<1>17. PipelineOrdered'
  <2>1. \A u \in Tasks : state'[u] = "Completed" => Encoded(u)
    BY <1>11 DEF Encoded
  <2>2. \A u \in Tasks : InQueue(u)' => InQueue(u)
    BY <1>13
  <2>3. queue' \in Seq(Tasks) /\ Increasing(queue')
    BY <1>1 DEF TypeOK, PipelineOrdered
  <2>. QED BY <1>1, <1>15, <2>1, <2>2, <2>3, OrderAfterUpdate
<1>18. StagesAgree'
  <2>1. \A u \in Tasks : cancelled'[u] => state'[u] \in {"Cancelling"} \cup Terminal
    BY <1>1, <1>6, <1>11 DEF StagesAgree
  <2>. QED BY <1>1, <1>2, <2>1 DEF StagesAgree
<1>19. CompletedHasFile'
  <2>1. \A u \in Tasks : state[u] \notin Early => state'[u] \notin Early
    BY <1>6, <1>11 DEF Early, Terminal
  <2>2. \A t \in Tasks : state'[t] = "Completed" =>
            \/ state[t] = "Completed"
            \/ \E i \in DOMAIN results : results[i].task = t /\ results[i].outcome = "success"
    BY <1>6, <1>11
  <2>. QED BY <1>1, <2>1, <2>2, FilesStay
<1>20. Moves
  <2>. SUFFICES ASSUME NEW t \in Tasks, state'[t] # state[t]
                PROVE  <<state[t], state'[t]>> \in ValidTransitions \cup {<<"Encoding", "Cancelled">>}
    BY DEF Moves
  <2>1. InResults(t)
    BY <1>11
  <2>. QED BY <1>6, <1>11, <2>1 DEF ValidTransitions, Terminal
<1>. QED BY <1>14, <1>16, <1>17, <1>18, <1>19, <1>20

-----------------------------------------------------------------------------
(* The theorems.                                                           *)

LEMMA InitEstablishes == Init => CaptureInvariant
<1>. SUFFICES ASSUME Init PROVE CaptureInvariant
  OBVIOUS
<1>. USE DEF Init
<1>1. TypeOK /\ ClockOrder
  BY SubmissionBound
     DEF TypeOK, ClockTypeOK, ClockOrder, ClockInit, Serials, States, NoCapture, IdleWorker
<1>2. DOMAIN queue = {} /\ DOMAIN jobs = {} /\ DOMAIN results = {}
  OBVIOUS
<1>3. \A t \in Tasks : t # NoTask
  BY DEF Tasks, NoTask
<1>4. \A t \in Tasks : /\ state[t] = "None" /\ ~InQueue(t) /\ ~InJobs(t) /\ ~InResults(t)
                       /\ active.task # t /\ worker.task # t /\ ~cancelled[t]
  BY <1>2, <1>3 DEF InQueue, InJobs, In, InResults, NoCapture, IdleWorker
<1>5. \A t \in Tasks : ~Held(t) /\ ~Encoded(t) /\ ~Copying(t)
  BY <1>4 DEF Held, Encoded, Copying
<1>6. TasksAccounted
  BY <1>4, <1>5 DEF TasksAccounted, Accounted
<1>7. PipelineOrdered
  BY <1>2, <1>4, <1>5 DEF PipelineOrdered, InOrder, Increasing
<1>8. StagesAgree
  BY <1>4, SubmissionBound DEF StagesAgree, NoCapture, IdleWorker, ClockInit
<1>9. CompletedHasFile
  BY <1>2, <1>4 DEF CompletedHasFile, IdleWorker
<1>. QED BY <1>1, <1>6, <1>7, <1>8, <1>9 DEF CaptureInvariant

LEMMA NextKeeps ==
  ASSUME CaptureInvariant, [Next]_vars
  PROVE  CaptureInvariant' /\ Moves
<1>1. CASE Request
  BY <1>1, RequestKeeps
<1>2. ASSUME NEW t \in Tasks, Cancel(t) PROVE CaptureInvariant' /\ Moves
  BY <1>2, CancelKeeps
<1>3. CASE PrepareFrame
  BY <1>3, PrepareKeeps
<1>4. CASE FrameSubmitted
  BY <1>4, SubmitKeeps
<1>5. CASE Update \/ UpdateAfterAllFrames
  BY <1>5, UpdatesKeep
<1>6. CASE WorkerStep
  <2>1. CaptureInvariant'
    BY <1>6, WorkerKeeps
  <2>2. state' = state
    BY <1>6 DEF WorkerStep, WorkerTake, WorkerEncode, WorkerPublish, WorkerCheck, WorkerExit,
                workerFrame, queueVars
  <2>. QED BY <2>1, <2>2 DEF Moves
<1>7. CASE ShutdownBegin
  BY <1>7, ShutdownBeginKeeps
<1>8. CASE ShutdownFinish
  BY <1>8, ShutdownFinishKeeps
<1>9. CASE RenderFrame \/ GpuFinish \/ ObserveCompletion \/ Exited \/ UNCHANGED vars
  <2>1. RenderFrame => UNCHANGED clockFrame
    BY DEF RenderFrame, clockFrame
  <2>2. \/ UNCHANGED clockFrame /\ (Submit \/ Finish \/ Observe)
        \/ UNCHANGED vars
    BY <1>9, <2>1 DEF RenderFrame, GpuFinish, ObserveCompletion, Exited
  <2>. QED BY <2>2, ClockKeeps
<1>. QED BY <1>1, <1>2, <1>3, <1>4, <1>5, <1>6, <1>7, <1>8, <1>9 DEF Next, WorkerStep

\* Every capture is in the one place its state names, the captures keep the
\* order of their requests, and the image of a completed one is on disk, for
\* any number of captures, of active tasks and of remembered ones.
THEOREM CapturesAccounted == Spec => []CaptureInvariant
<1>1. Init => CaptureInvariant
  BY InitEstablishes
<1>2. CaptureInvariant /\ [Next]_vars => CaptureInvariant'
  BY NextKeeps
<1>. QED BY <1>1, <1>2, PTL DEF Spec

\* transition() never throws: tasks take the transitions that
\* isValidCaptureTaskTransition allows, in every interleaving of the main
\* thread, the worker, the GPU and the shutdown.
THEOREM TransitionsNeverThrow == Spec => TransitionsValid
<1>1. CaptureInvariant /\ [Next]_vars =>
        [\A t \in Tasks :
           state'[t] # state[t] =>
             <<state[t], state'[t]>> \in ValidTransitions \cup {<<"Encoding", "Cancelled">>}]_vars
  BY NextKeeps, Zenon DEF Moves
<1>. QED BY <1>1, CapturesAccounted, PTL DEF Spec, TransitionsValid

\* A submitted capture's buffer is given up by update alone, for a serial the
\* GPU has finished.
LEMMA BufferStep ==
  ASSUME CaptureInvariant, [Next]_vars, active.serial # 0, active' # active
  PROVE  active.serial <= finished
<1>. USE DEF CaptureInvariant
<1>1. submitted \in Nat /\ finished \in Nat /\ completed \in Nat /\ active.serial \in Nat
  BY SubmissionBound DEF TypeOK, ClockTypeOK, Serials
<1>2. active # NoCapture /\ ~Recording
  BY DEF NoCapture, Recording
<1>3. CASE Update
  <2>1. Finished(completed)
    BY <1>3 DEF Update, UpdateAt
  <2>. QED BY <1>1, <2>1 DEF Finished, ClockOrder
<1>4. CASE UpdateAfterAllFrames \/ ShutdownBegin
  <2>1. finished = submitted
    BY <1>4 DEF UpdateAfterAllFrames, ShutdownBegin
  <2>. QED BY <2>1 DEF StagesAgree
<1>5. UNCHANGED active \/ Update \/ UpdateAfterAllFrames \/ ShutdownBegin
  BY <1>2 DEF Next, Request, Cancel, PrepareFrame, FrameSubmitted, RenderFrame, WorkerTake,
              WorkerEncode, WorkerPublish, WorkerCheck, WorkerExit, ShutdownFinish, Exited,
              GpuFinish, ObserveCompletion, vars, clockFrame, workerFrame
<1>. QED BY <1>3, <1>4, <1>5

\* The readback buffer is neither read nor released before the GPU has
\* finished the copy into it.
THEOREM BuffersOutliveCopies == Spec => BufferOutlivesCopy
<1>1. CaptureInvariant /\ [Next]_vars =>
        [active.serial # 0 /\ active' # active => active.serial <= finished]_vars
  BY BufferStep
<1>. QED BY <1>1, CapturesAccounted, PTL DEF Spec, BufferOutlivesCopy

=============================================================================
