-------------------------- MODULE SchedulerProofs ---------------------------
(***************************************************************************)
(* The theorems about Scheduler, for any set of requests, any batch size and *)
(* any wait: its invariants, what its counters may do, and that it implements *)
(* BatchService.                                                           *)
(***************************************************************************)
EXTENDS SchedulerStepProofs, FiniteSetTheorems

\* Every step preserves the invariant.
LEMMA NextInv == IInv /\ [Next]_vars => IInv'
<1> SUFFICES ASSUME IInv, [Next]_vars PROVE IInv'
  OBVIOUS
<1>1. CASE \E r \in Requests : Push(r) \/ NotifyOne(r) \/ GetResult(r)
  BY <1>1, PushInv, ClientInv
<1>2. CASE Start \/ StopRunning \/ Stop
  BY <1>2, ControlInv
<1>3. CASE Worker \/ SpuriousWake \/ ResetStats
  BY <1>3, WaitingInv, DrainInv, ValidateInv, ValidatedInv, EngineInv, AnswerStepsInv DEF Worker
<1>4. CASE UNCHANGED vars
  <2>1. UNCHANGED <<queue, stop_requested, accepted, promise, client, running, control, worker,
                    drained, batch, row, output, exec_recorded, stats, resetting>>
    BY <1>4 DEF vars, queueVars, loopVars, statVars, controlVars
  <2>2. TypeOK'
    BY <2>1 DEF IInv, TypeOK
  <2>3. ExitInv'
    BY <2>1 DEF IInv, ExitInv
  <2> QED
    BY <2>1, <2>2, <2>3, FrameInv
<1> QED
  BY <1>1, <1>2, <1>3, <1>4 DEF Next

\* The invariant of the scheduler holds throughout.
THEOREM Invariance == Spec => []IInv
  BY InitInv, NextInv, PTL DEF Spec

\* Type correctness.  It is not inductive alone: that output[row] is a request
\* depends on where run_loop is.
THEOREM TypeCorrect == Spec => []TypeOK
<1>1. IInv => TypeOK
  BY DEF IInv
<1> QED
  BY <1>1, Invariance, PTL

\* The worker leaves run_loop with nothing queued and nothing in its batch.
LEMMA ExitMeansAnswered == IInv => ExitDrained
<1> SUFFICES ASSUME IInv, worker = "exited" PROVE \A r \in Accepted : promise[r] # NoOutcome
  BY DEF ExitDrained
<1>1. queue = <<>> /\ drained = <<>>
  BY DEF IInv, ExitInv, LoopInv, BatchStates
<1>2. Finished = Len(accepted)
  BY <1>1 DEF Finished, IInv, TypeOK
<1> QED
  BY <1>2 DEF IInv, Answered, Accepted

\* When the worker has left run_loop, every accepted request has its answer.
THEOREM DrainedAtExit == Spec => []ExitDrained
  BY ExitMeansAnswered, Invariance, PTL

\* Nobody gets another request's row.
THEOREM OwnRowAlways == Spec => []OwnRow
<1>1. IInv => OwnRow
  BY DEF IInv
<1> QED
  BY <1>1, Invariance, PTL

\* run_loop satisfies no promise twice unless slicing itself throws.
THEOREM NoAbort == Spec => []WorkerSurvives
<1>1. IInv => WorkerSurvives
  BY DEF IInv, LoopInv, WorkerSurvives
<1> QED
  BY <1>1, Invariance, PTL

\* A condition the worker waits for never becomes true without somebody being
\* about to notify it.
THEOREM WakeupsAreNotLost == Spec => []NoLostWakeup
<1>1. Init => NoLostWakeup
  BY DEF Init, NoLostWakeup
<1>2. IInv /\ NoLostWakeup /\ [Next]_vars => NoLostWakeup'
  <2> SUFFICES ASSUME IInv, NoLostWakeup, [Next]_vars PROVE NoLostWakeup'
    OBVIOUS
  <2> USE DEF NoLostWakeup, WindowFull
  <2>a. client \in [Requests -> {"new", "notify", "waiting", "returned", "refused"}]
    BY DEF IInv, TypeOK
  <2>1. ASSUME NEW r \in Requests, Push(r) PROVE NoLostWakeup'
    <3>1. CASE stop_requested
      BY <2>a, <2>1, <3>1 DEF Push, queueVars, controlVars
    <3>2. CASE ~stop_requested
      <4>1. client'[r] = "notify"
        BY <2>a, <2>1, <3>2 DEF Push
      <4> QED
        BY <4>1
    <3> QED
      BY <3>1, <3>2
  <2>2. ASSUME NEW r \in Requests, NotifyOne(r) PROVE NoLostWakeup'
    BY <2>2 DEF NotifyOne, Wake
  <2>3. ASSUME NEW r \in Requests, GetResult(r) PROVE NoLostWakeup'
    <3>1. \A q \in Requests : client[q] = "notify" => client'[q] = "notify"
      BY <2>a, <2>3 DEF GetResult
    <3> QED
      BY <2>3, <3>1 DEF GetResult, queueVars, controlVars
  <2>4. CASE Start \/ StopRunning \/ Shutdown \/ NotifyAll \/ Join
    BY <2>4 DEF Start, StopRunning, Shutdown, NotifyAll, Join, Wake, queueVars
  <2>5. CASE Park \/ ReturnEmpty \/ OpenWindow \/ WindowExpires \/ SpuriousWake \/ CheckRunning
    BY <2>5 DEF Park, ReturnEmpty, OpenWindow, WindowExpires, SpuriousWake, CheckRunning, Wake,
       queueVars, controlVars
  <2>6. CASE Drain \/ Validate \/ Validated \/ Count
    BY <2>6 DEF Drain, Validate, Validated, Count, Abort, NextIteration
  <2>7. CASE EngineReturns \/ EngineThrows \/ ResolveRow \/ SliceThrows \/ Catch \/ FailRow
    BY <2>7 DEF EngineReturns, EngineThrows, ResolveRow, SliceThrows, Catch, FailRow, Abort,
       NextRow, NextIteration
  <2>8. CASE ResetStats
    BY <2>8 DEF ResetStats, queueVars, controlVars
  <2>9. CASE UNCHANGED vars
    BY <2>9 DEF vars, queueVars, controlVars
  <2> QED
    BY <2>1, <2>2, <2>3, <2>4, <2>5, <2>6, <2>7, <2>8, <2>9 DEF Next, Stop, Worker
<1> QED
  BY <1>1, <1>2, Invariance, PTL DEF Spec

\* While a counter is being updated, some request of the batch is unanswered.
LEMMA CountingIsPending ==
    ASSUME IInv, Count \/ EngineReturns \/ (Catch /\ ~exec_recorded)
    PROVE  \E r \in Accepted : promise[r] = NoOutcome
<1> USE SMTT(15), ZenonT(15) DEF IInv
<1>1. Unanswered /\ batch # <<>> /\ worker # "validate" /\ batch \in Seq(Requests)
  BY DEF Count, EngineReturns, Catch, LoopInv, BatchStates, TypeOK
<1>2. promise[batch[1]] = NoOutcome /\ 1 \in 1..Len(batch)
  BY <1>1 DEF Unanswered
<1>3. PICK j \in 1..Len(drained) : drained[j] = batch[1]
  BY <1>1, <1>2 DEF BatchFromDrained, Checked
<1>4. Finished + j \in 1..Len(accepted) /\ accepted[Finished + j] = batch[1]
  BY <1>3, PlacesFacts
<1> QED
  BY <1>2, <1>4 DEF Accepted

\* No counter grows once every accepted request has its answer.
THEOREM CountersSettled == Spec => CountersSettle
<1> DEFINE Settled == \A r \in Accepted : promise[r] # NoOutcome
           Shrink == \A c \in CounterNames : stats'[c] <= stats[c]
<1>1. IInv /\ [Next]_vars => [Settled => Shrink]_vars
  <2> SUFFICES ASSUME IInv, Next, Settled PROVE Shrink
    OBVIOUS
  <2>a. stats \in [CounterNames -> Nat]
    BY DEF IInv, TypeOK
  <2>b. stats' = stats => Shrink
    BY <2>a
  <2>1. ~(Count \/ EngineReturns \/ (Catch /\ ~exec_recorded))
    BY CountingIsPending
  <2>2. CASE ResetStats
    BY <2>a, <2>2 DEF ResetStats
  <2>3. CASE Catch /\ exec_recorded
    BY <2>b, <2>3 DEF Catch
  <2>4. CASE \E r \in Requests : Push(r) \/ NotifyOne(r) \/ GetResult(r)
    BY <2>b, <2>4 DEF Push, NotifyOne, GetResult, statVars
  <2>5. CASE Start \/ StopRunning \/ Shutdown \/ NotifyAll \/ Join
    BY <2>b, <2>5 DEF Start, StopRunning, Shutdown, NotifyAll, Join, statVars
  <2>6. CASE Park \/ ReturnEmpty \/ OpenWindow \/ Drain \/ WindowExpires \/ SpuriousWake
               \/ CheckRunning
    BY <2>b, <2>6 DEF Park, ReturnEmpty, OpenWindow, Drain, WindowExpires, SpuriousWake,
       CheckRunning, statVars
  <2>7. CASE Validate \/ Validated \/ EngineThrows \/ ResolveRow \/ SliceThrows \/ FailRow
    BY <2>b, <2>7 DEF Validate, Validated, EngineThrows, ResolveRow, SliceThrows, FailRow, statVars
  <2> QED
    BY <2>1, <2>2, <2>3, <2>4, <2>5, <2>6, <2>7 DEF Next, Stop, Worker
<1>2. CountersSettle <=> [][Settled => Shrink]_vars
  BY DEF CountersSettle
<1> QED
  BY <1>1, <1>2, Invariance, PTL DEF Spec
-----------------------------------------------------------------------------
(* The counters agree. *)

\* The requests whose size run_loop has looked at: a prefix of `accepted`.
Looked == Finished + Checked

\* The well-sized ones among the first n accepted.
WellSized(n) == {i \in 1..n : accepted[i] \notin MisSized}

\* What the counter in this place of `Counters` still lacks of the batch.
Owed(place) ==
    IF worker = "validate" \/ (worker = "count" /\ row <= place) THEN Len(batch) ELSE 0

\* 1 while a batch is counted and its execution is not.
Unmeasured ==
    IF \/ worker = "count" /\ row > 1
       \/ worker = "run"
       \/ worker = "catch" /\ ~exec_recorded
    THEN 1 ELSE 0

\* What the counters say in the middle of an iteration.
CountInv ==
    ~MayReset /\ worker # "aborted" =>
        /\ stats["total_requests"] + Owed(2) = Cardinality(WellSized(Looked))
        /\ stats["total_queue_wait"] + Owed(4) = Cardinality(WellSized(Looked))
        /\ stats["total_batches"] = stats["total_exec"] + Unmeasured
        /\ stats["max_batch_size_seen"] <= MaxBatchSize
        /\ Len(batch) <= Checked
        /\ exec_recorded => worker \in {"resolve", "catch", "fail"}

\* How many well-sized requests run_loop has looked at.
Tally == Cardinality(WellSized(Looked))

\* Where the prefix that run_loop has looked at ends.
LEMMA LookedFacts ==
    ASSUME IInv
    PROVE  /\ Looked \in 0..Len(accepted) /\ Checked \in 0..Len(drained)
           /\ Len(batch) \in Nat /\ Len(drained) \in 0..MaxBatchSize /\ Finished \in Nat
           /\ Len(accepted) \in Nat /\ Len(queue) \in Nat
           /\ Tally \in Nat
<1>1. /\ Len(batch) \in Nat /\ Len(drained) \in Nat /\ Len(accepted) \in Nat
      /\ Len(queue) \in Nat /\ row \in Nat \ {0}
  BY DEF IInv, TypeOK
<1>2. Checked \in 0..Len(drained)
  BY <1>1 DEF Checked, IInv, BatchFromDrained
<1>3. Finished \in Nat /\ Len(drained) <= MaxBatchSize /\ MaxBatchSize \in Nat
  BY <1>1, SchedulerAssumption DEF IInv, Places, Finished
<1>4. Looked \in 0..Len(accepted)
  BY <1>1, <1>2, <1>3 DEF Looked, Finished
<1>5. Tally \in Nat
  <2>1. IsFiniteSet(1..Looked) /\ WellSized(Looked) \subseteq 1..Looked
    BY <1>4, FS_Interval DEF WellSized
  <2> QED
    BY <2>1, FS_Subset, FS_CardinalityType, Zenon DEF Tally
<1> QED
  BY <1>1, <1>2, <1>3, <1>4, <1>5

\* A step that looks at no new request leaves the tally alone.
LEMMA TallyKept ==
    ASSUME IInv, Looked' = Looked, \A i \in 1..Looked : accepted'[i] = accepted[i]
    PROVE  Tally' = Tally
<1>1. WellSized(Looked)' = WellSized(Looked)
  BY DEF WellSized
<1> QED
  BY <1>1 DEF Tally

\* A step that looks at the next one adds it to the tally if it has the right
\* size.
LEMMA TallyGrows ==
    ASSUME IInv, Looked' = Looked + 1, UNCHANGED accepted
    PROVE  Tally' = IF accepted[Looked + 1] \in MisSized THEN Tally ELSE Tally + 1
<1>1. Looked \in Nat
  BY LookedFacts
<1>2. WellSized(Looked)' =
          IF accepted[Looked + 1] \in MisSized THEN WellSized(Looked)
          ELSE WellSized(Looked) \union {Looked + 1}
  BY <1>1 DEF WellSized
<1>3. IsFiniteSet(WellSized(Looked)) /\ Looked + 1 \notin WellSized(Looked)
  <2>1. IsFiniteSet(1..Looked) /\ WellSized(Looked) \subseteq 1..Looked
    BY <1>1, FS_Interval DEF WellSized
  <2>2. Looked + 1 \notin 1..Looked
    BY <1>1
  <2> QED
    BY <2>1, <2>2, FS_Subset, Zenon
<1>4. Cardinality(WellSized(Looked) \union {Looked + 1}) = Cardinality(WellSized(Looked)) + 1
  BY <1>3, FS_AddElement
<1> QED
  BY <1>2, <1>4 DEF Tally

\* Steps that neither count nor validate, and stay on their side of the loop.
LEMMA CountFrame ==
    ASSUME IInv, IInv', CountInv,
           UNCHANGED <<drained, batch, row, exec_recorded, stats>>,
           Len(accepted)' - Len(queue)' = Len(accepted) - Len(queue),
           \A i \in 1..Looked : accepted'[i] = accepted[i],
           worker' = worker \/ (worker \in IdleStates /\ worker' \in IdleStates)
    PROVE  CountInv'
<1>1. Finished' = Finished
  <2>1. /\ Len(accepted) \in Nat /\ Len(queue) \in Nat /\ Len(drained) \in Nat
        /\ Len(accepted)' \in Nat /\ Len(queue)' \in Nat
    BY DEF IInv, TypeOK
  <2> QED
    BY <2>1 DEF Finished
<1>2. Checked' = Checked /\ Owed(2)' = Owed(2) /\ Owed(4)' = Owed(4) /\ Unmeasured' = Unmeasured
  BY DEF Checked, Owed, Unmeasured, IdleStates
<1>3. Looked' = Looked
  BY <1>1, <1>2 DEF Looked
<1>4. Tally' = Tally
  BY <1>3, TallyKept
<1>5. (worker # "aborted")' => worker # "aborted"
  BY DEF IdleStates
<1>6. worker \in {"resolve", "catch", "fail"} => worker' = worker
  BY DEF IdleStates
<1> QED
  BY <1>2, <1>4, <1>5, <1>6 DEF CountInv, Tally

\* The steps of the clients, of start() and stop(), and of wait_and_drain up
\* to the drain.
LEMMA CountOutside ==
    ASSUME IInv, IInv', CountInv,
           \/ \E r \in Requests : Push(r) \/ NotifyOne(r) \/ GetResult(r)
           \/ Start \/ StopRunning \/ Stop
           \/ Park \/ ReturnEmpty \/ OpenWindow \/ WindowExpires \/ SpuriousWake \/ CheckRunning
           \/ UNCHANGED vars
    PROVE  CountInv'
<1>1. ASSUME NEW r \in Requests, Push(r) PROVE CountInv'
  <2>1. UNCHANGED <<drained, batch, row, exec_recorded, stats, worker>>
    BY <1>1 DEF Push, loopVars, statVars
  <2>2. \/ UNCHANGED <<queue, accepted>>
        \/ queue' = Append(queue, r) /\ accepted' = Append(accepted, r)
    BY <1>1 DEF Push, queueVars
  <2>3. queue \in Seq(Requests) /\ accepted \in Seq(Requests)
    BY DEF IInv, TypeOK
  <2>4. /\ Len(accepted)' - Len(queue)' = Len(accepted) - Len(queue)
        /\ \A i \in 1..Len(accepted) : accepted'[i] = accepted[i]
    <3>1. CASE UNCHANGED <<queue, accepted>>
      BY <3>1
    <3>2. CASE queue' = Append(queue, r) /\ accepted' = Append(accepted, r)
      <4>1. /\ Len(queue)' = Len(queue) + 1 /\ Len(accepted)' = Len(accepted) + 1
            /\ Len(queue) \in Nat /\ Len(accepted) \in Nat
        BY <2>3, <3>2
      <4>2. \A i \in 1..Len(accepted) : accepted'[i] = accepted[i]
        BY <2>3, <3>2
      <4> QED
        BY <4>1, <4>2
    <3> QED
      BY <2>2, <3>1, <3>2
  <2>5. \A i \in 1..Looked : accepted'[i] = accepted[i]
    BY <2>4, LookedFacts
  <2> QED
    BY <2>1, <2>4, <2>5, CountFrame
<1>2. ASSUME UNCHANGED <<queue, accepted, drained, batch, row, exec_recorded, stats>>,
             worker' = worker \/ (worker \in IdleStates /\ worker' \in IdleStates)
      PROVE  CountInv'
  BY <1>2, CountFrame
<1>3. ASSUME NEW r \in Requests, NotifyOne(r) \/ GetResult(r) PROVE CountInv'
  BY <1>2, <1>3 DEF NotifyOne, GetResult, Wake, queueVars, loopVars, statVars, IdleStates
<1>4. CASE Start
  <2>1. worker \in IdleStates
    BY <1>4 DEF Start, IInv, ExitInv, IdleStates
  <2> QED
    BY <1>2, <1>4, <2>1 DEF Start, queueVars, loopVars, statVars, IdleStates
<1>5. CASE StopRunning \/ Stop
  BY <1>2, <1>5 DEF StopRunning, Stop, Shutdown, NotifyAll, Join, Wake, queueVars, loopVars,
     statVars, IdleStates
<1>6. CASE Park \/ ReturnEmpty \/ OpenWindow
  BY <1>2, <1>6 DEF Park, ReturnEmpty, OpenWindow, InPhase1, queueVars, loopVars, statVars,
     IdleStates
<1>7. CASE WindowExpires \/ SpuriousWake \/ CheckRunning
  BY <1>2, <1>7 DEF WindowExpires, SpuriousWake, CheckRunning, Wake, queueVars, loopVars,
     statVars, IdleStates
<1>8. CASE UNCHANGED vars
  BY <1>2, <1>8 DEF vars, queueVars, loopVars, statVars
<1> QED
  BY <1>1, <1>3, <1>4, <1>5, <1>6, <1>7, <1>8, SMTT(30)

\* The counters the theorem is about.
LEMMA NamedCounters ==
    {"total_requests", "total_queue_wait", "total_batches", "total_exec",
     "max_batch_size_seen", "max_queue_wait"} \subseteq CounterNames
<1>1. /\ Counters[1] = "total_batches" /\ Counters[2] = "total_requests"
      /\ Counters[3] = "max_batch_size_seen" /\ Counters[4] = "total_queue_wait"
      /\ Counters[5] = "max_queue_wait" /\ Counters[6] = "total_exec"
  BY DEF Counters
<1> QED
  BY <1>1, CountersType

\* The request that validation looks at has no answer yet.
LEMMA ValidateFacts ==
    ASSUME IInv, Validate
    PROVE  /\ worker = "validate" /\ row \in 1..Len(drained) /\ row \in Nat
           /\ promise[drained[row]] = NoOutcome
           /\ UNCHANGED <<accepted, queue, drained, exec_recorded, stats, stop_requested, control>>
<1>1. row \in Nat /\ row >= 1 /\ Len(drained) \in Nat
  <2>1. row \in Nat \ {0} /\ drained \in Seq(Requests)
    BY DEF IInv, TypeOK
  <2> QED
    BY <2>1
<1>2. worker = "validate" /\ row <= Len(drained)
  BY DEF Validate
<1>3. row \in row..Len(drained) /\ row \in 1..Len(drained)
  BY <1>1, <1>2
<1>4. promise[drained[row]] = NoOutcome
  BY <1>2, <1>3 DEF IInv, LoopInv
<1>5. UNCHANGED <<accepted, queue, drained, exec_recorded, stats, stop_requested, control>>
  BY DEF Validate, Abort, queueVars, loopVars, statVars, controlVars
<1> QED
  BY <1>1, <1>2, <1>3, <1>4, <1>5

\* The counters are numbers.
LEMMA StatsType ==
    ASSUME IInv
    PROVE  /\ stats["total_requests"] \in Nat /\ stats["total_queue_wait"] \in Nat
           /\ stats["total_batches"] \in Nat /\ stats["total_exec"] \in Nat
           /\ stats["max_batch_size_seen"] \in Nat
<1>1. stats \in [CounterNames -> Nat]
  BY DEF IInv, TypeOK
<1> QED
  BY <1>1, NamedCounters

\* No counter but c changes; max_queue_wait is not one CountersAgree is about.
OthersKept(c) == \A d \in {"total_requests", "total_queue_wait", "total_batches", "total_exec",
                           "max_batch_size_seen"} : d # c => stats'[d] = stats[d]

\* CountOne(c) sets counter c and no other.
LEMMA CountOneEffect ==
    ASSUME IInv, NEW c \in {"total_requests", "total_queue_wait", "total_batches", "total_exec",
                            "max_batch_size_seen", "max_queue_wait"}, CountOne(c)
    PROVE  stats'[c] = Counted(c, Len(batch)) /\ OthersKept(c)
<1>1. stats \in [CounterNames -> Nat] /\ c \in CounterNames
  BY NamedCounters DEF IInv, TypeOK
<1>2. stats' = [stats EXCEPT ![c] = Counted(c, Len(batch))]
  BY DEF CountOne
<1> QED
  BY <1>1, <1>2, NamedCounters DEF OthersKept

\* The end of an iteration, when nothing is owed.
LEMMA CountIteration ==
    ASSUME IInv, IInv', CountInv, NextIteration, UNCHANGED <<queue, accepted, stats>>,
           worker \in {"validate", "resolve", "fail"},
           worker = "validate" => row > Len(drained) /\ batch = <<>>
    PROVE  CountInv'
<1>1. /\ worker' = "locking" /\ drained' = <<>> /\ batch' = <<>> /\ exec_recorded' = FALSE
      /\ Len(drained') = 0 /\ Len(batch') = 0
  BY DEF NextIteration
<1>2. Checked = Len(drained) /\ Checked' = 0
  <2>1. worker = "validate" => row - 1 = Len(drained)
    <3>1. row \in Nat /\ Len(drained) \in Nat
      BY DEF IInv, TypeOK
    <3>2. worker = "validate" => row <= Len(drained) + 1
      BY DEF IInv, BatchFromDrained
    <3> QED
      BY <3>1, <3>2
  <2> QED
    BY <1>1, <2>1 DEF Checked
<1>3. Finished' = Finished + Len(drained)
  BY <1>1, LookedFacts DEF Finished
<1>4. Looked' = Looked
  BY <1>2, <1>3, LookedFacts DEF Looked
<1>5. Tally' = Tally
  BY <1>4, TallyKept
<1>6. Owed(2) = 0 /\ Owed(4) = 0 /\ Unmeasured = 0
  BY DEF Owed, Unmeasured
<1>7. Owed(2)' = 0 /\ Owed(4)' = 0 /\ Unmeasured' = 0
  BY <1>1 DEF Owed, Unmeasured
<1> QED
  BY <1>1, <1>2, <1>5, <1>6, <1>7 DEF CountInv, Tally

\* Draining and the size checks.
LEMMA CountValidation ==
    ASSUME IInv, IInv', CountInv, Drain \/ Validate \/ Validated
    PROVE  CountInv'
<1>1. CASE Drain
  <2>1. /\ worker' = "validate" /\ UNCHANGED <<accepted, batch, row, exec_recorded, stats>>
        /\ worker \in IdleStates
    BY <1>1 DEF Drain, InPhase1, statVars, IdleStates
  <2>2. drained = <<>> /\ batch = <<>> /\ row = 1 /\ Len(drained) = 0 /\ Len(batch) = 0
    BY <2>1 DEF IInv, LoopInv, IdleStates, BatchStates
  <2>3. Len(drained') + Len(queue') = Len(queue)
    <3> DEFINE n == IF MaxBatchSize <= Len(queue) THEN MaxBatchSize ELSE Len(queue)
    <3>1. queue \in Seq(Requests) /\ n \in 0..Len(queue)
      BY SchedulerAssumption DEF IInv, TypeOK
    <3>2. drained' = SubSeq(queue, 1, n) /\ queue' = SubSeq(queue, n + 1, Len(queue))
      BY <1>1 DEF Drain
    <3> HIDE DEF n
    <3>3. Len(SubSeq(queue, 1, n)) = n
      BY <3>1
    <3>4. Len(SubSeq(queue, n + 1, Len(queue))) = Len(queue) - n
      BY <3>1
    <3>5. Len(drained') = n /\ Len(queue') = Len(queue) - n
      BY <3>2, <3>3, <3>4, Zenon
    <3>6. n \in Nat /\ Len(queue) \in Nat
      BY <3>1
    <3> QED
      BY <3>5, <3>6
  <2>4. Checked' = 0 /\ Checked = 0
    BY <2>1, <2>2 DEF Checked, IdleStates
  <2>5. Len(drained') \in Nat /\ Len(queue') \in Nat
    BY DEF IInv, TypeOK
  <2>6. Finished' = Finished
    BY <2>1, <2>2, <2>3, <2>5, LookedFacts DEF Finished
  <2>7. Tally' = Tally
    BY <2>1, <2>4, <2>6, TallyKept DEF Looked
  <2>8. Owed(2) = 0 /\ Owed(4) = 0 /\ Owed(2)' = 0 /\ Owed(4)' = 0 /\ Unmeasured = 0 /\ Unmeasured' = 0
    BY <2>1, <2>2 DEF Owed, Unmeasured, IdleStates
  <2>9. ~MayReset /\ worker # "aborted" => ~exec_recorded
    BY <2>1 DEF CountInv, IdleStates
  <2>10. worker # "aborted"
    BY <2>1 DEF IdleStates
  <2> QED
    BY <2>1, <2>2, <2>4, <2>7, <2>8, <2>9, <2>10 DEF CountInv, Tally
<1>2. CASE Validate
  <2>1. /\ worker = "validate" /\ row \in 1..Len(drained)
        /\ UNCHANGED <<accepted, queue, drained, exec_recorded, stats>>
    BY <1>2, ValidateFacts
  <2>2. /\ worker' = "validate" /\ row' = row + 1
        /\ batch' = IF drained[row] \in MisSized THEN batch ELSE Append(batch, drained[row])
    <3>1. ~Satisfied(drained[row])
      BY <1>2, ValidateFacts DEF Satisfied
    <3> QED
      BY <1>2, <2>1, <3>1 DEF Validate
  <2>3. Checked = row - 1 /\ Checked' = row /\ row \in Nat
    BY <2>1, <2>2 DEF Checked
  <2>4. Finished' = Finished
    BY <2>1 DEF Finished
  <2>5. Looked + 1 = Finished + row /\ Looked' = Looked + 1
    BY <2>3, <2>4, LookedFacts DEF Looked
  <2>6. accepted[Looked + 1] = drained[row]
    BY <2>1, <2>5 DEF IInv, Places
  <2>7. Tally' = IF drained[row] \in MisSized THEN Tally ELSE Tally + 1
    BY <2>1, <2>5, <2>6, TallyGrows
  <2>8. Len(batch') = IF drained[row] \in MisSized THEN Len(batch) ELSE Len(batch) + 1
    BY <2>2 DEF IInv, TypeOK
  <2>9. /\ Owed(2) = Len(batch) /\ Owed(4) = Len(batch) /\ Unmeasured = 0
        /\ Owed(2)' = Len(batch') /\ Owed(4)' = Len(batch') /\ Unmeasured' = 0
    BY <2>1, <2>2 DEF Owed, Unmeasured
  <2>10. /\ stats["total_requests"] \in Nat /\ stats["total_queue_wait"] \in Nat
         /\ stats["total_exec"] \in Nat
    BY StatsType
  <2>11. Len(batch) \in Nat /\ Tally \in Nat
    BY LookedFacts
  <2> SUFFICES ASSUME ~MayReset
               PROVE  /\ stats'["total_requests"] + Owed(2)' = Tally'
                      /\ stats'["total_queue_wait"] + Owed(4)' = Tally'
                      /\ stats'["total_batches"] = stats'["total_exec"] + Unmeasured'
                      /\ stats'["max_batch_size_seen"] <= MaxBatchSize
                      /\ Len(batch') <= Checked'
                      /\ ~exec_recorded'
    BY DEF CountInv, Tally
  <2>12. /\ stats["total_requests"] + Owed(2) = Tally
         /\ stats["total_queue_wait"] + Owed(4) = Tally
         /\ stats["total_batches"] = stats["total_exec"] + Unmeasured
         /\ stats["max_batch_size_seen"] <= MaxBatchSize
         /\ Len(batch) <= Checked
         /\ ~exec_recorded
    BY <2>1 DEF CountInv, Tally
  <2>13. /\ stats["total_requests"] + Len(batch') = Tally'
         /\ stats["total_queue_wait"] + Len(batch') = Tally'
    <3>1. stats["total_requests"] + Len(batch) = Tally /\ stats["total_queue_wait"] + Len(batch) = Tally
      BY <2>9, <2>12
    <3> QED
      BY <2>7, <2>8, <2>10, <2>11, <3>1
  <2>14. stats["total_batches"] = stats["total_exec"] + Unmeasured'
    BY <2>9, <2>12
  <2>15. Len(batch') <= Checked'
    BY <2>3, <2>8, <2>11, <2>12
  <2> QED
    BY <2>1, <2>9, <2>12, <2>13, <2>14, <2>15
<1>3. CASE Validated
  <2>1. CASE batch = <<>>
    BY <1>3, <2>1, CountIteration DEF Validated, queueVars, statVars
  <2>2. CASE batch # <<>>
    <3>1. /\ worker = "validate" /\ row > Len(drained) /\ worker' = "count" /\ row' = 1
          /\ UNCHANGED <<accepted, queue, drained, batch, exec_recorded, stats>>
      BY <1>3, <2>2, SMTT(30) DEF Validated, queueVars, statVars
    <3>2. Checked' = Checked
      BY <3>1, LookedFacts DEF Checked, IInv, TypeOK
    <3>3. Tally' = Tally
      BY <3>1, <3>2, TallyKept DEF Looked, Finished
    <3>4. /\ Owed(2) = Len(batch) /\ Owed(4) = Len(batch) /\ Unmeasured = 0
          /\ Owed(2)' = Len(batch) /\ Owed(4)' = Len(batch) /\ Unmeasured' = 0
      BY <3>1 DEF Owed, Unmeasured
    <3> QED
      BY <3>1, <3>2, <3>3, <3>4 DEF CountInv, Tally
  <2> QED
    BY <2>1, <2>2
<1> QED
  BY <1>1, <1>2, <1>3

\* Counting a batch, calling the engine, and the head of the catch block.
LEMMA CountCounters ==
    ASSUME IInv, IInv', CountInv, Count \/ EngineReturns \/ EngineThrows \/ SliceThrows \/ Catch
    PROVE  CountInv'
<1>1. /\ worker \in BatchStates /\ worker' \in BatchStates
      /\ UNCHANGED <<accepted, queue, drained, batch>>
  BY DEF Count, EngineReturns, EngineThrows, SliceThrows, Catch, queueVars, loopVars, BatchStates
<1>2. Checked' = Checked /\ Checked = Len(drained)
  BY <1>1 DEF Checked, BatchStates
<1>3. Tally' = Tally
  BY <1>1, <1>2, TallyKept DEF Looked, Finished
<1>4. worker # "aborted"
  BY <1>1 DEF BatchStates
<1>5. ASSUME ~MayReset
      PROVE  /\ stats["total_requests"] + Owed(2) = Tally
             /\ stats["total_queue_wait"] + Owed(4) = Tally
             /\ stats["total_batches"] = stats["total_exec"] + Unmeasured
             /\ stats["max_batch_size_seen"] <= MaxBatchSize
             /\ Len(batch) <= Checked
             /\ exec_recorded => worker \in {"resolve", "catch", "fail"}
  BY <1>4, <1>5 DEF CountInv, Tally
<1>6. SUFFICES ASSUME ~MayReset
               PROVE  /\ stats'["total_requests"] + Owed(2)' = Tally
                      /\ stats'["total_queue_wait"] + Owed(4)' = Tally
                      /\ stats'["total_batches"] = stats'["total_exec"] + Unmeasured'
                      /\ stats'["max_batch_size_seen"] <= MaxBatchSize
                      /\ exec_recorded' => worker' \in {"resolve", "catch", "fail"}
  BY <1>1, <1>2, <1>3, <1>5 DEF CountInv, Tally
<1>7. Len(batch) \in Nat /\ Len(batch) <= MaxBatchSize /\ MaxBatchSize \in Nat
  BY <1>2, <1>5, <1>6, LookedFacts, SchedulerAssumption, SMTT(30)
\* The hypothesis, for the values before the step.
<1>8. /\ stats["total_requests"] + Owed(2) = Tally
      /\ stats["total_queue_wait"] + Owed(4) = Tally
      /\ stats["total_batches"] = stats["total_exec"] + Unmeasured
      /\ stats["max_batch_size_seen"] <= MaxBatchSize
  BY <1>5, <1>6
<1>9. /\ stats["total_requests"] \in Nat /\ stats["total_queue_wait"] \in Nat
      /\ stats["total_batches"] \in Nat /\ stats["total_exec"] \in Nat
      /\ stats["max_batch_size_seen"] \in Nat
  BY StatsType
<1>10. CASE Count
  <2>1. /\ worker = "count" /\ row \in 1..5 /\ CountOne(Counters[row]) /\ UNCHANGED exec_recorded
        /\ worker' = (IF row < 5 THEN "count" ELSE "run")
        /\ row < 5 => row' = row + 1
    BY <1>10 DEF Count, IInv, LoopInv
  <2>2. ~exec_recorded
    BY <1>5, <1>6, <2>1
  <2>3. /\ Counters[1] = "total_batches" /\ Counters[2] = "total_requests"
        /\ Counters[3] = "max_batch_size_seen" /\ Counters[4] = "total_queue_wait"
        /\ Counters[5] = "max_queue_wait"
    BY DEF Counters
  <2>4. exec_recorded' => worker' \in {"resolve", "catch", "fail"}
    BY <2>1, <2>2
  <2>5. CASE row = 1
    <3>1. stats'["total_batches"] = stats["total_batches"] + 1 /\ OthersKept("total_batches")
      BY <2>1, <2>3, <2>5, CountOneEffect, SMTT(30) DEF Counted
    <3>2. /\ Owed(2) = Len(batch) /\ Owed(4) = Len(batch) /\ Unmeasured = 0
          /\ Owed(2)' = Len(batch) /\ Owed(4)' = Len(batch) /\ Unmeasured' = 1
      BY <1>1, <2>1, <2>5 DEF Owed, Unmeasured
    <3>3. /\ stats'["total_requests"] = stats["total_requests"]
          /\ stats'["total_queue_wait"] = stats["total_queue_wait"]
          /\ stats'["total_exec"] = stats["total_exec"]
          /\ stats'["max_batch_size_seen"] = stats["max_batch_size_seen"]
      BY <3>1 DEF OthersKept
    <3>4. stats'["total_batches"] = stats'["total_exec"] + Unmeasured'
      BY <1>8, <1>9, <3>1, <3>2, <3>3, SMTT(30)
    <3> QED
      BY <1>8, <2>4, <3>2, <3>3, <3>4
  <2>6. CASE row = 2
    <3>1. /\ stats'["total_requests"] = stats["total_requests"] + Len(batch)
          /\ OthersKept("total_requests")
      BY <2>1, <2>3, <2>6, CountOneEffect, SMTT(30) DEF Counted
    <3>2. /\ Owed(2) = Len(batch) /\ Owed(4) = Len(batch) /\ Unmeasured = 1
          /\ Owed(2)' = 0 /\ Owed(4)' = Len(batch) /\ Unmeasured' = 1
      BY <1>1, <2>1, <2>6 DEF Owed, Unmeasured
    <3>3. /\ stats'["total_queue_wait"] = stats["total_queue_wait"]
          /\ stats'["total_batches"] = stats["total_batches"]
          /\ stats'["total_exec"] = stats["total_exec"]
          /\ stats'["max_batch_size_seen"] = stats["max_batch_size_seen"]
      BY <3>1 DEF OthersKept
    <3>4. stats'["total_requests"] + Owed(2)' = Tally
      BY <1>7, <1>8, <1>9, <3>1, <3>2, SMTT(30)
    <3> QED
      BY <1>8, <2>4, <3>2, <3>3, <3>4, SMTT(30)
  <2>7. CASE row = 3
    <3>1. /\ stats'["max_batch_size_seen"] \in {Len(batch), stats["max_batch_size_seen"]}
          /\ OthersKept("max_batch_size_seen")
      BY <2>1, <2>3, <2>7, CountOneEffect, SMTT(30) DEF Counted
    <3>2. /\ Owed(2) = 0 /\ Owed(4) = Len(batch) /\ Unmeasured = 1
          /\ Owed(2)' = 0 /\ Owed(4)' = Len(batch) /\ Unmeasured' = 1
      BY <1>1, <2>1, <2>7, SMTT(30) DEF Owed, Unmeasured
    <3>3. /\ stats'["total_requests"] = stats["total_requests"]
          /\ stats'["total_queue_wait"] = stats["total_queue_wait"]
          /\ stats'["total_batches"] = stats["total_batches"]
          /\ stats'["total_exec"] = stats["total_exec"]
      BY <3>1 DEF OthersKept
    <3>4. stats'["max_batch_size_seen"] <= MaxBatchSize
      BY <1>7, <1>8, <3>1
    <3> QED
      BY <1>8, <2>4, <3>2, <3>3, <3>4, SMTT(30)
  <2>8. CASE row = 4
    <3>1. /\ stats'["total_queue_wait"] = stats["total_queue_wait"] + Len(batch)
          /\ OthersKept("total_queue_wait")
      BY <2>1, <2>3, <2>8, CountOneEffect, SMTT(30) DEF Counted
    <3>2. /\ Owed(2) = 0 /\ Owed(4) = Len(batch) /\ Unmeasured = 1
          /\ Owed(2)' = 0 /\ Owed(4)' = 0 /\ Unmeasured' = 1
      BY <1>1, <2>1, <2>8, SMTT(30) DEF Owed, Unmeasured
    <3>3. /\ stats'["total_requests"] = stats["total_requests"]
          /\ stats'["total_batches"] = stats["total_batches"]
          /\ stats'["total_exec"] = stats["total_exec"]
          /\ stats'["max_batch_size_seen"] = stats["max_batch_size_seen"]
      BY <3>1 DEF OthersKept
    <3>4. stats'["total_queue_wait"] + Owed(4)' = Tally
      BY <1>7, <1>8, <1>9, <3>1, <3>2, SMTT(30)
    <3> QED
      BY <1>8, <2>4, <3>2, <3>3, <3>4, SMTT(30)
  <2>9. CASE row = 5
    <3>1. OthersKept("max_queue_wait")
      BY <2>1, <2>3, <2>9, CountOneEffect, SMTT(30)
    <3>2. /\ Owed(2) = 0 /\ Owed(4) = 0 /\ Unmeasured = 1
          /\ Owed(2)' = 0 /\ Owed(4)' = 0 /\ Unmeasured' = 1
      BY <1>1, <2>1, <2>9, SMTT(30) DEF Owed, Unmeasured
    <3>3. /\ stats'["total_requests"] = stats["total_requests"]
          /\ stats'["total_queue_wait"] = stats["total_queue_wait"]
          /\ stats'["total_batches"] = stats["total_batches"]
          /\ stats'["total_exec"] = stats["total_exec"]
          /\ stats'["max_batch_size_seen"] = stats["max_batch_size_seen"]
      BY <3>1 DEF OthersKept
    <3> QED
      BY <1>8, <2>4, <3>2, <3>3, SMTT(30)
  <2> QED
    BY <2>1, <2>5, <2>6, <2>7, <2>8, <2>9, SMTT(30)
<1>11. CASE EngineReturns \/ (Catch /\ ~exec_recorded)
  <2>1. /\ worker = "run" \/ (worker = "catch" /\ ~exec_recorded)
        /\ CountOne("total_exec")
        /\ worker' \in {"resolve", "catch", "fail"}
        /\ worker' = "catch" => exec_recorded' = TRUE
    BY <1>11 DEF EngineReturns, Catch
  <2>2. stats'["total_exec"] = stats["total_exec"] + 1 /\ OthersKept("total_exec")
    BY <2>1, CountOneEffect, SMTT(30) DEF Counted
  <2>3. /\ Owed(2) = 0 /\ Owed(4) = 0 /\ Unmeasured = 1
        /\ Owed(2)' = 0 /\ Owed(4)' = 0 /\ Unmeasured' = 0
    BY <1>1, <2>1 DEF Owed, Unmeasured
  <2>4. /\ stats'["total_requests"] = stats["total_requests"]
        /\ stats'["total_queue_wait"] = stats["total_queue_wait"]
        /\ stats'["total_batches"] = stats["total_batches"]
        /\ stats'["max_batch_size_seen"] = stats["max_batch_size_seen"]
    BY <2>2 DEF OthersKept
  <2>5. stats'["total_batches"] = stats'["total_exec"] + Unmeasured'
    BY <1>8, <1>9, <2>2, <2>3, <2>4, SMTT(30)
  <2> QED
    BY <1>8, <2>1, <2>3, <2>4, <2>5, SMTT(30)
<1>12. CASE EngineThrows \/ SliceThrows \/ (Catch /\ exec_recorded)
  <2>1. /\ UNCHANGED <<stats, exec_recorded>>
        /\ \/ worker = "run" /\ worker' = "catch"
           \/ worker = "resolve" /\ worker' = "catch"
           \/ worker = "catch" /\ exec_recorded /\ worker' = "fail"
    BY <1>12, SMTT(30) DEF EngineThrows, SliceThrows, Catch, loopVars, statVars
  <2>2. worker = "resolve" => exec_recorded
    BY DEF IInv, LoopInv
  <2>3. worker = "run" => ~exec_recorded
    BY <1>5, <1>6
  <2>4. /\ Owed(2) = 0 /\ Owed(4) = 0 /\ Owed(2)' = 0 /\ Owed(4)' = 0
        /\ Unmeasured' = Unmeasured
    BY <1>1, <2>1, <2>2, <2>3, SMTT(30) DEF Owed, Unmeasured
  <2> QED
    BY <1>5, <1>6, <2>1, <2>4, SMTT(30)
<1> QED
  BY <1>10, <1>11, <1>12

\* Answering the requests of a batch.
LEMMA CountAnswers ==
    ASSUME IInv, IInv', CountInv, ResolveRow \/ FailRow
    PROVE  CountInv'
<1>1. /\ worker \in {"resolve", "fail"} /\ UNCHANGED <<accepted, queue, stats>>
  BY DEF ResolveRow, FailRow, queueVars, statVars
<1>2. CASE Abort
  BY <1>2 DEF Abort, CountInv
<1>3. CASE NextIteration
  BY <1>1, <1>3, CountIteration, SMTT(30)
<1>4. CASE ~Abort /\ ~NextIteration
  <2>1. UNCHANGED <<worker, drained, batch, exec_recorded>>
    <3>1. AnsweredTo(row) /\ row \in 1..Len(batch)
      BY <1>1, <1>4, AnswerSteps, ZenonT(30) DEF IInv, LoopInv
    <3>2. ~Satisfied(batch[row])
      BY <3>1 DEF AnsweredTo, Satisfied
    <3> QED
      BY <1>4, <3>2 DEF ResolveRow, FailRow, NextRow
  <2>2. Owed(2)' = Owed(2) /\ Owed(4)' = Owed(4) /\ Unmeasured' = Unmeasured /\ Checked' = Checked
    BY <1>1, <2>1 DEF Owed, Unmeasured, Checked
  <2>3. Tally' = Tally
    BY <1>1, <2>1, <2>2, TallyKept DEF Looked, Finished
  <2> QED
    BY <1>1, <2>1, <2>2, <2>3, SMTT(30) DEF CountInv, Tally
<1> QED
  BY <1>2, <1>3, <1>4, SMTT(30)

\* Between batches the counters agree with each other and with the queue, as
\* long as nobody resets them: failed batches are measured too, and no request
\* is counted twice or left out, however the batches fell.
THEOREM CountersAlwaysAgree == Spec => []CountersAgree
<1>1. Init => CountInv
  <2> SUFFICES ASSUME Init PROVE CountInv
    OBVIOUS
  <2>1. /\ Looked = 0 /\ Owed(2) = 0 /\ Owed(4) = 0 /\ Unmeasured = 0 /\ Checked = 0
        /\ Len(batch) = 0 /\ exec_recorded = FALSE
    BY DEF Init, Looked, Finished, Checked, Owed, Unmeasured
  <2>2. WellSized(Looked) = {}
    BY <2>1 DEF WellSized
  <2>3. Cardinality(WellSized(Looked)) = 0
    BY <2>2, FS_EmptySet
  <2>4. \A c \in CounterNames : stats[c] = 0
    BY DEF Init
  <2>5. {"total_requests", "total_queue_wait", "total_batches", "total_exec",
         "max_batch_size_seen"} \subseteq CounterNames
    BY NamedCounters
  <2>6. MaxBatchSize \in Nat
    BY SchedulerAssumption
  <2> QED
    BY <2>1, <2>3, <2>4, <2>5, <2>6, SMTT(30) DEF CountInv
<1>2. IInv /\ CountInv /\ [Next]_vars => CountInv'
  <2> SUFFICES ASSUME IInv, CountInv, [Next]_vars PROVE CountInv'
    OBVIOUS
  <2>1. IInv'
    BY NextInv
  <2>2. CASE ResetStats
    BY <2>2 DEF ResetStats, CountInv
  <2> QED
    BY <2>1, <2>2, CountOutside, CountValidation, CountCounters, CountAnswers, SMTT(30) DEF Next, Worker
<1>3. IInv /\ CountInv => CountersAgree
  <2> SUFFICES ASSUME IInv, CountInv, ~MayReset,
                      worker \in {"locking", "parked", "woken", "window", "exited"}
               PROVE  /\ stats["total_requests"] =
                            Cardinality({i \in 1..(Len(accepted) - Len(queue)) :
                                             accepted[i] \notin MisSized})
                      /\ stats["total_queue_wait"] = stats["total_requests"]
                      /\ stats["total_exec"] = stats["total_batches"]
                      /\ stats["max_batch_size_seen"] <= MaxBatchSize
    BY DEF CountersAgree
  <2>1. Owed(2) = 0 /\ Owed(4) = 0 /\ Unmeasured = 0 /\ worker # "aborted"
    BY DEF Owed, Unmeasured
  <2>2. Checked = Len(drained)
    BY DEF Checked
  <2>3. Looked = Len(accepted) - Len(queue)
    BY <2>2, LookedFacts DEF Looked, Finished
  <2>4. Cardinality({i \in 1..(Len(accepted) - Len(queue)) : accepted[i] \notin MisSized})
            = Cardinality(WellSized(Looked))
    BY <2>3 DEF WellSized
  <2> QED
    BY <2>1, <2>4, StatsType, SMTT(30) DEF CountInv
<1> QED
  BY <1>1, <1>2, <1>3, Invariance, PTL DEF Spec
-----------------------------------------------------------------------------
\* Setting the promise of a drained, unanswered request is a Resolve of the
\* abstract service: everything accepted MaxBatchSize places before it belongs
\* to a finished iteration.
LEMMA ResolveRefines ==
    ASSUME IInv, NEW j \in 1..Len(drained), promise[drained[j]] = NoOutcome,
           NEW answer \in Service!Answers(drained[j]),
           SetPromise(drained[j], answer),
           UNCHANGED <<accepted, stop_requested, control>>
    PROVE  Service!SNext
<1> DEFINE i == Finished + j
<1>1. i \in 1..Len(accepted) /\ drained[j] = accepted[i] /\ Finished \in Nat
  BY PlacesFacts
<1>2. j <= MaxBatchSize /\ MaxBatchSize \in Nat /\ j \in Nat
  <2>1. drained \in Seq(Requests) /\ Len(drained) <= MaxBatchSize
    BY DEF IInv, TypeOK, Places
  <2>2. Len(drained) \in Nat
    BY <2>1
  <2>3. MaxBatchSize \in Nat
    BY SchedulerAssumption
  <2> QED
    BY <2>1, <2>2, <2>3, SMTT(30)
<1>3. ASSUME NEW k \in 1..(i - MaxBatchSize) PROVE promise[accepted[k]] # NoOutcome
  <2>1. k \in 1..Finished
    BY <1>1, <1>2
  <2> QED
    BY <2>1 DEF IInv, Answered
<1>4. Service!Resolve(i)
  BY <1>1, <1>3, Zenon DEF Service!Resolve, SetPromise
<1> QED
  BY <1>1, <1>4, SMTT(30) DEF Service!SNext

\* A step that touches neither the promises, nor what was accepted, nor
\* whether the service is open or halted is invisible.
LEMMA StutterRefines ==
    ASSUME UNCHANGED <<accepted, promise, stop_requested>>,
           control' = control \/ (control # "down" /\ control' # "down")
    PROVE  UNCHANGED Service!svars
<1>1. (control' = "down") = (control = "down")
  OBVIOUS
<1>2. (~stop_requested') = (~stop_requested)
  OBVIOUS
<1> QED
  BY <1>1, <1>2 DEF Service!svars

\* A request of the batch has a place in `drained`.
LEMMA BatchPlace ==
    ASSUME IInv, worker \in BatchStates, NEW b \in 1..Len(batch)
    PROVE  /\ batch[b] \notin MisSized
           /\ \E j \in 1..Len(drained) : drained[j] = batch[b]
<1>1. Checked = Len(drained)
  BY DEF Checked, BatchStates
<1> QED
  BY <1>1 DEF IInv, BatchFromDrained

\* Every step of the scheduler is a step of the abstract service or invisible
\* to it.
LEMMA StepRefines == IInv /\ [Next]_vars => [Service!SNext]_(Service!svars)
<1> SUFFICES ASSUME IInv, [Next]_vars PROVE Service!SNext \/ UNCHANGED Service!svars
  OBVIOUS
<1> USE SMTT(15), ZenonT(15) DEF IInv
<1>1. ASSUME NEW r \in Requests, Push(r) PROVE Service!SNext \/ UNCHANGED Service!svars
  <2>1. CASE stop_requested
    BY <1>1, <2>1, StutterRefines DEF Push, queueVars, controlVars
  <2>2. CASE ~stop_requested
    <3>1. \A i \in 1..Len(accepted) : accepted[i] # r
      BY <1>1 DEF Push, AcceptedOnce
    <3>2. /\ accepted' = Append(accepted, r)
          /\ UNCHANGED <<promise, stop_requested, control>>
      BY <1>1, <2>2 DEF Push, controlVars
    <3>3. Service!Accept(r)
      BY <2>2, <3>1, <3>2, ZenonT(30) DEF Service!Accept
    <3> QED
      BY <3>3 DEF Service!SNext
  <2> QED
    BY <2>1, <2>2
<1>2. ASSUME NEW r \in Requests, NotifyOne(r) \/ GetResult(r) PROVE UNCHANGED Service!svars
  BY <1>2, StutterRefines DEF NotifyOne, GetResult, queueVars, controlVars
<1>3. CASE Start \/ StopRunning
  <2>1. /\ UNCHANGED <<accepted, promise, stop_requested>>
        /\ control' # "down"
    BY <1>3 DEF Start, StopRunning, queueVars
  <2>2. (control' = "down") = FALSE
    BY <2>1, Zenon
  <2>3. Service!Resume
    BY <2>1, <2>2, Zenon DEF Service!Resume
  <2> QED
    BY <2>3 DEF Service!SNext
<1>4. CASE Shutdown
  <2>1. /\ UNCHANGED <<accepted, promise>>
        /\ stop_requested' = TRUE
        /\ control # "down" /\ control' # "down"
    BY <1>4 DEF Shutdown
  <2>2. (~stop_requested') = FALSE /\ (control' = "down") = (control = "down")
    BY <2>1, Zenon
  <2>3. Service!Close
    BY <2>1, <2>2, Zenon DEF Service!Close
  <2> QED
    BY <2>3 DEF Service!SNext
<1>5. CASE NotifyAll
  BY <1>5, StutterRefines DEF NotifyAll, queueVars
<1>6. CASE Join
  <2>1. /\ UNCHANGED <<accepted, promise, stop_requested>>
        /\ control' = "down"
        /\ worker = "exited"
    BY <1>6 DEF Join, queueVars
  <2>2. \A i \in 1..Len(accepted) : promise[accepted[i]] # NoOutcome
    BY <2>1, ExitMeansAnswered DEF ExitDrained, Accepted
  <2>3. ~~stop_requested
    BY <2>1 DEF ExitInv
  <2>4. (control' = "down") = TRUE
    BY <2>1, Zenon
  <2>5. Service!Halt
    BY <2>1, <2>2, <2>3, <2>4, ZenonT(30) DEF Service!Halt
  <2> QED
    BY <2>5 DEF Service!SNext
<1>7. CASE Park \/ ReturnEmpty \/ OpenWindow \/ Drain \/ WindowExpires \/ SpuriousWake
             \/ CheckRunning
  BY <1>7, StutterRefines DEF Park, ReturnEmpty, OpenWindow, Drain, WindowExpires, SpuriousWake,
     CheckRunning, queueVars, controlVars
<1>8. CASE Validate
  <2>1. /\ row \in 1..Len(drained) /\ promise[drained[row]] = NoOutcome
        /\ UNCHANGED <<accepted, stop_requested, control>>
    BY <1>8, ValidateFacts
  <2>2. CASE drained[row] \notin MisSized
    BY <1>8, <2>1, <2>2, StutterRefines, Zenon DEF Validate
  <2>3. CASE drained[row] \in MisSized
    <3>1. SetPromise(drained[row], Failure)
      BY <1>8, <2>1, <2>3, Zenon DEF Validate, Satisfied
    <3>2. Failure \in Service!Answers(drained[row])
      BY <2>3, SMTT(30) DEF Service!Answers
    <3> QED
      BY <2>1, <3>1, <3>2, ResolveRefines, ZenonT(30)
  <2> QED
    BY <2>2, <2>3
<1>9. CASE Validated \/ Count \/ EngineReturns \/ EngineThrows \/ SliceThrows \/ Catch
  BY <1>9, StutterRefines DEF Validated, Count, EngineReturns, EngineThrows, SliceThrows, Catch,
     queueVars, controlVars
<1>10. CASE ResolveRow \/ FailRow
  <2>1. UNCHANGED <<accepted, stop_requested, control>>
    BY <1>10, Zenon DEF ResolveRow, FailRow, queueVars, controlVars
  <2>2. CASE Abort
    BY <2>1, <2>2, StutterRefines DEF Abort
  <2>3. CASE ~Abort
    <3>1. /\ worker \in {"resolve", "fail"} /\ AnsweredTo(row)
          /\ SetPromise(batch[row], batch[row]) \/ SetPromise(batch[row], Failure)
      BY <1>10, <2>3, AnswerSteps, SMTT(30)
    <3>2. row \in 1..Len(batch) /\ worker \in BatchStates
      BY <3>1, SMTT(30) DEF LoopInv, BatchStates
    <3>3. promise[batch[row]] = NoOutcome
      BY <3>1, <3>2 DEF AnsweredTo
    <3>4. PICK j \in 1..Len(drained) : drained[j] = batch[row]
      BY <3>2, BatchPlace
    <3>5. {batch[row], Failure} \subseteq Service!Answers(drained[j])
      BY <3>2, <3>4, BatchPlace, SMTT(30) DEF Service!Answers
    <3> QED
      BY <2>1, <3>1, <3>3, <3>4, <3>5, ResolveRefines, ZenonT(30)
  <2> QED
    BY <2>2, <2>3
<1>11. CASE ResetStats
  BY <1>11, StutterRefines DEF ResetStats, queueVars, controlVars
<1>12. CASE UNCHANGED vars
  BY <1>12, StutterRefines DEF vars, queueVars, controlVars
<1> QED
  BY <1>1, <1>2, <1>3, <1>4, <1>5, <1>6, <1>7, <1>8, <1>9, <1>10, <1>11, <1>12, SMTT(30)
  DEF Next, Stop, Worker

\* The scheduler implements BatchService: exactly one outcome per accepted
\* request, overtaking bounded by the batch size, nothing accepted after
\* shutdown(), and a stop() that returns only when nothing is left.
THEOREM Refinement == Spec => ImplementsService
<1>1. Init => Service!SInit
  <2> SUFFICES ASSUME Init PROVE Service!SInit
    OBVIOUS
  <2>1. (~stop_requested) = TRUE /\ (control = "down") = FALSE
    BY Zenon DEF Init
  <2> QED
    BY <2>1, Zenon DEF Init, Service!SInit
<1> QED
  BY <1>1, StepRefines, Invariance, PTL DEF Spec, ImplementsService, Service!SSpec
=============================================================================
