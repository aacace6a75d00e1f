------------------------ MODULE SchedulerStepProofs -------------------------
(***************************************************************************)
(* The inductive invariant of Scheduler, and that its steps preserve it:   *)
(* first those of the clients, of start() and stop(), and of the queue,    *)
(* then those of an iteration of run_loop, from the size check to the last *)
(* promise.  The invariant follows each accepted request by its place in   *)
(* `accepted`: first come the requests of finished iterations of run_loop, *)
(* then those of `drained`, then those of `queue`.                         *)
(***************************************************************************)
EXTENDS Scheduler, TLAPS, SequenceTheorems

\* The number of requests whose iteration of run_loop is over.
Finished == Len(accepted) - Len(queue) - Len(drained)

\* push() takes a request once, and only a taken request is ever answered.
AcceptedOnce ==
    /\ \A i, j \in 1..Len(accepted) : accepted[i] = accepted[j] => i = j
    /\ \A i \in 1..Len(accepted) : client[accepted[i]] \notin {"new", "refused"}
    /\ \A r \in Requests : promise[r] # NoOutcome => client[r] \notin {"new", "refused"}

\* Where the accepted requests are.
Places ==
    /\ Len(drained) <= MaxBatchSize
    /\ Finished >= 0
    /\ \A j \in 1..Len(drained) : drained[j] = accepted[Finished + j]
    /\ \A j \in 1..Len(queue) : queue[j] = accepted[Finished + Len(drained) + j]

\* The requests before `drained` are answered, those after it are not.
Answered ==
    /\ \A i \in 1..Finished : promise[accepted[i]] # NoOutcome
    /\ \A j \in 1..Len(queue) : promise[queue[j]] = NoOutcome

BatchStates == {"count", "run", "resolve", "catch", "fail"}

\* How far into `drained` the size check has come.
Checked == IF worker = "validate" THEN row - 1 ELSE Len(drained)

\* `batch` holds well-sized members of the checked part of `drained`, without
\* repetition; a checked request outside `batch` has its answer.
BatchFromDrained ==
    /\ worker = "validate" => row <= Len(drained) + 1
    /\ \A b \in 1..Len(batch) :
          /\ batch[b] \notin MisSized
          /\ \E j \in 1..Checked : drained[j] = batch[b]
    /\ \A b, c \in 1..Len(batch) : batch[b] = batch[c] => b = c
    /\ worker # "aborted" =>
          \A j \in 1..Checked :
              promise[drained[j]] = NoOutcome => \E b \in 1..Len(batch) : batch[b] = drained[j]

\* No request of `batch` is answered before the engine has been called.
Unanswered == \A b \in 1..Len(batch) : promise[batch[b]] = NoOutcome

\* The answered requests of `batch` come first.
AnsweredPrefix ==
    \A b, c \in 1..Len(batch) :
        b < c /\ promise[batch[c]] # NoOutcome => promise[batch[b]] # NoOutcome

AnsweredTo(n) ==
    \A b \in 1..Len(batch) : promise[batch[b]] # NoOutcome <=> b < n

\* What holds at each place of run_loop.
LoopInv ==
    /\ worker \notin BatchStates \union {"validate", "aborted"} =>
          drained = <<>> /\ batch = <<>> /\ row = 1
    /\ worker \in BatchStates => batch # <<>>
    /\ worker = "validate" =>
          /\ Unanswered
          /\ \A j \in row..Len(drained) : promise[drained[j]] = NoOutcome
    /\ worker \in {"count", "run"} => Unanswered
    /\ worker = "count" => row \in 1..5
    /\ worker = "run" => row = 1
    /\ worker = "resolve" =>
          row \in 1..Len(batch) /\ AnsweredTo(row) /\ output = batch /\ exec_recorded
    /\ worker = "catch" =>
          /\ AnsweredPrefix
          /\ ~MayExhaustMemory \/ ~exec_recorded => Unanswered
    /\ worker = "fail" =>
          /\ row \in 1..Len(batch)
          /\ AnsweredPrefix
          /\ \A b \in 1..(row - 1) : promise[batch[b]] # NoOutcome
          /\ ~MayExhaustMemory => AnsweredTo(row)
    /\ worker = "aborted" => MayExhaustMemory

\* The worker leaves its loop on an empty queue that can never fill again.
ExitInv ==
    /\ worker \in {"empty", "exited"} => queue = <<>> /\ stop_requested
    /\ control = "down" => worker = "exited"
    /\ control = "constructed" => worker = "unstarted"

IInv ==
    /\ TypeOK
    /\ AcceptedOnce
    /\ Places
    /\ Answered
    /\ BatchFromDrained
    /\ LoopInv
    /\ OwnRow
    /\ ExitInv
-----------------------------------------------------------------------------
\* Counters is a sequence of the counter names.
LEMMA CountersType ==
    /\ \A i \in 1..6 : Counters[i] \in CounterNames
    /\ "total_exec" \in CounterNames
<1>1. \A i \in 1..6 : Counters[i] \in CounterNames
  BY DEF CounterNames
<1>2. Counters[6] = "total_exec"
  BY DEF Counters
<1> QED
  BY <1>1, <1>2

\* Counting a batch keeps the counters natural numbers.
LEMMA CountOneType ==
    ASSUME NEW c \in CounterNames, stats \in [CounterNames -> Nat],
           batch \in Seq(Requests), CountOne(c)
    PROVE  stats' \in [CounterNames -> Nat]
<1>1. Counted(c, Len(batch)) \in Nat
  <2>1. c \in {"total_batches", "total_requests", "max_batch_size_seen",
               "total_queue_wait", "max_queue_wait", "total_exec"}
    BY DEF CounterNames, Counters
  <2>2. stats[c] \in Nat /\ Len(batch) \in Nat
    OBVIOUS
  <2> QED
    BY <2>1, <2>2 DEF Counted
<1> QED
  BY <1>1 DEF CountOne

\* The invariant holds of a scheduler just constructed.
LEMMA InitInv == Init => IInv
<1> SUFFICES ASSUME Init PROVE IInv
  OBVIOUS
<1> USE SchedulerAssumption DEF Init
<1>1. TypeOK
  <2>1. /\ queue \in Seq(Requests) /\ accepted \in Seq(Requests) /\ drained \in Seq(Requests)
        /\ batch \in Seq(Requests) /\ output \in Seq(Requests)
    OBVIOUS
  <2>2. /\ promise \in [Requests -> Requests \union {NoOutcome, Failure}]
        /\ client \in [Requests -> {"new", "notify", "waiting", "returned", "refused"}]
        /\ stats \in [CounterNames -> Nat]
    OBVIOUS
  <2>3. row \in Nat \ {0} /\ resetting \in 1..6
    OBVIOUS
  <2>4. worker \in WorkerStates
    BY DEF WorkerStates
  <2>5. stop_requested \in BOOLEAN /\ running \in BOOLEAN /\ exec_recorded \in BOOLEAN
    BY Zenon
  <2>6. control \in {"constructed", "up", "cleared", "flagged", "joining", "down"}
    OBVIOUS
  <2> QED
    BY <2>1, <2>2, <2>3, <2>4, <2>5, <2>6 DEF TypeOK
<1>2. AcceptedOnce /\ Places /\ Answered
  BY DEF AcceptedOnce, Places, Answered, Finished
<1>3. BatchFromDrained /\ LoopInv
  BY DEF BatchFromDrained, LoopInv, BatchStates, Checked
<1>4. OwnRow /\ ExitInv
  BY DEF OwnRow, ExitInv
<1> QED
  BY <1>1, <1>2, <1>3, <1>4 DEF IInv

\* Push(r) puts r last in `accepted` and in `queue`, or refuses it.
LEMMA PushInv ==
    ASSUME IInv, NEW r \in Requests, Push(r)
    PROVE  IInv'
<1> USE SMTT(15), ZenonT(15) DEF IInv
<1>a. /\ client[r] = "new"
      /\ UNCHANGED <<promise, running, control, worker, drained, batch, row, output,
                     exec_recorded, stats, resetting, stop_requested>>
  BY DEF Push, queueVars, loopVars, statVars, controlVars
<1>1. TypeOK'
  <2>1. client' \in [Requests -> {"new", "notify", "waiting", "returned", "refused"}]
    BY Zenon DEF TypeOK, Push
  <2>2. queue' \in Seq(Requests) /\ accepted' \in Seq(Requests)
    <3>1. \/ queue' = queue /\ accepted' = accepted
          \/ queue' = Append(queue, r) /\ accepted' = Append(accepted, r)
      BY DEF Push, queueVars
    <3>2. queue \in Seq(Requests) /\ accepted \in Seq(Requests)
      BY DEF TypeOK
    <3>3. Append(queue, r) \in Seq(Requests) /\ Append(accepted, r) \in Seq(Requests)
      BY <3>2
    <3> QED
      BY <3>1, <3>2, <3>3, Zenon
  <2> QED
    BY <1>a, <2>1, <2>2 DEF TypeOK
<1>2. CASE stop_requested
  <2>1. UNCHANGED <<queue, accepted>> /\ client' = [client EXCEPT ![r] = "refused"]
    BY <1>2 DEF Push, queueVars
  <2>2. AcceptedOnce'
    BY <1>a, <2>1 DEF AcceptedOnce, TypeOK
  <2>3. Places' /\ Answered' /\ OwnRow' /\ ExitInv'
    BY <1>a, <2>1 DEF Places, Answered, Finished, OwnRow, ExitInv
  <2>4. BatchFromDrained'
    BY <1>a, <2>1 DEF BatchFromDrained, Checked
  <2>5. LoopInv'
    BY <1>a, <2>1 DEF LoopInv, BatchStates, Unanswered, AnsweredPrefix, AnsweredTo
  <2> QED
    BY <1>1, <2>2, <2>3, <2>4, <2>5
<1>3. CASE ~stop_requested
  <2>1. /\ queue' = Append(queue, r)
        /\ accepted' = Append(accepted, r)
        /\ client' = [client EXCEPT ![r] = "notify"]
    BY <1>3 DEF Push
  <2>a. /\ queue \in Seq(Requests) /\ accepted \in Seq(Requests) /\ drained \in Seq(Requests)
        /\ promise[r] = NoOutcome
        /\ \A i \in 1..Len(accepted) : accepted[i] # r
    BY <1>a DEF AcceptedOnce, TypeOK
  <2>b. /\ Len(queue') = Len(queue) + 1
        /\ Len(accepted') = Len(accepted) + 1
        /\ \A i \in 1..Len(queue) : queue'[i] = queue[i]
        /\ \A i \in 1..Len(accepted) : accepted'[i] = accepted[i]
        /\ queue'[Len(queue) + 1] = r
        /\ accepted'[Len(accepted) + 1] = r
        /\ Len(queue) \in Nat /\ Len(accepted) \in Nat /\ Len(drained) \in Nat
    BY <2>1, <2>a
  <2>c. /\ Finished' = Finished /\ Finished \in Int
        /\ Finished + Len(drained) = Len(accepted) - Len(queue)
    BY <1>a, <2>b DEF Finished
  <2>2. AcceptedOnce'
    BY <1>a, <2>1, <2>a, <2>b DEF AcceptedOnce, TypeOK
  <2>3. Places'
    <3>1. ASSUME NEW j \in 1..Len(drained) PROVE drained[j] = accepted'[Finished + j]
      <4>1. Finished + j \in 1..Len(accepted)
        BY <2>b, <2>c DEF Places
      <4> QED
        BY <2>b, <4>1 DEF Places
    <3>2. ASSUME NEW j \in 1..Len(queue)
          PROVE  queue'[j] = accepted'[Finished + Len(drained) + j]
      <4>1. Finished + Len(drained) + j \in 1..Len(accepted)
        BY <2>b, <2>c DEF Places
      <4> QED
        BY <2>b, <4>1 DEF Places
    <3>3. queue'[Len(queue) + 1] = accepted'[Finished + Len(drained) + Len(queue) + 1]
      BY <2>b, <2>c
    <3>4. ASSUME NEW j \in 1..Len(queue')
          PROVE  queue'[j] = accepted'[Finished + Len(drained) + j]
      <4>1. j \in 1..Len(queue) \/ j = Len(queue) + 1
        BY <2>b
      <4>2. CASE j \in 1..Len(queue)
        BY <3>2, <4>2
      <4>3. CASE j = Len(queue) + 1
        <5>1. Finished + Len(drained) + j = Finished + Len(drained) + Len(queue) + 1
          BY <2>b, <2>c, <4>3
        <5> QED
          BY <3>3, <4>3, <5>1
      <4> QED
        BY <4>1, <4>2, <4>3
    <3> QED
      BY <1>a, <2>c, <3>1, <3>4 DEF Places
  <2>4. Answered'
    <3>1. ASSUME NEW i \in 1..Finished PROVE promise[accepted'[i]] # NoOutcome
      <4>1. i \in 1..Len(accepted)
        BY <2>b, <2>c
      <4> QED
        BY <2>b, <4>1 DEF Answered
    <3>2. ASSUME NEW j \in 1..Len(queue') PROVE promise[queue'[j]] = NoOutcome
      <4>1. j \in 1..Len(queue) \/ j = Len(queue) + 1
        BY <2>b
      <4>2. CASE j \in 1..Len(queue)
        BY <2>b, <4>2 DEF Answered
      <4>3. CASE j = Len(queue) + 1
        BY <2>a, <2>b, <4>3
      <4> QED
        BY <4>1, <4>2, <4>3
    <3> QED
      BY <1>a, <2>c, <3>1, <3>2 DEF Answered
  <2>5. BatchFromDrained' /\ LoopInv' /\ OwnRow'
    <3>1. BatchFromDrained' /\ OwnRow'
      BY <1>a DEF BatchFromDrained, Checked, OwnRow
    <3>2. LoopInv'
      BY <1>a DEF LoopInv, BatchStates, Unanswered, AnsweredPrefix, AnsweredTo
    <3> QED
      BY <3>1, <3>2
  <2>6. ExitInv'
    BY <1>a, <1>3 DEF ExitInv
  <2> QED
    BY <1>1, <2>2, <2>3, <2>4, <2>5, <2>6
<1> QED
  BY <1>2, <1>3

\* The states in which run_loop holds no requests.
IdleStates == {"unstarted", "locking", "parked", "woken", "window", "rewoken",
               "expired", "empty", "exited"}

\* Steps that move no request and set no promise preserve the invariant.
LEMMA FrameInv ==
    ASSUME IInv, TypeOK', ExitInv',
           UNCHANGED <<queue, accepted, promise, drained, batch, row, output, exec_recorded>>,
           \A r \in Requests : client'[r] \in {"new", "refused"} => client[r] \in {"new", "refused"},
           worker' = worker \/ (worker \in IdleStates /\ worker' \in IdleStates)
    PROVE  IInv'
<1> USE SMTT(15), ZenonT(15) DEF IInv
<1>1. AcceptedOnce'
  <2>1. \A i \in 1..Len(accepted) : accepted[i] \in Requests
    BY DEF TypeOK
  <2> QED
    BY <2>1 DEF AcceptedOnce
<1>2. Places' /\ Answered' /\ OwnRow'
  BY DEF Places, Answered, Finished, OwnRow
<1>3. CASE worker' = worker
  <2>1. BatchFromDrained'
    BY <1>3 DEF BatchFromDrained, Checked
  <2>2. LoopInv'
    BY <1>3 DEF LoopInv, BatchStates, Unanswered, AnsweredPrefix, AnsweredTo
  <2> QED
    BY <1>1, <1>2, <2>1, <2>2
<1>4. CASE worker \in IdleStates /\ worker' \in IdleStates
  <2>1. drained = <<>> /\ batch = <<>> /\ row = 1
    BY <1>4 DEF LoopInv, IdleStates, BatchStates
  <2>2. BatchFromDrained'
    BY <1>4, <2>1 DEF BatchFromDrained, Checked, IdleStates
  <2>3. LoopInv'
    BY <1>4, <2>1 DEF LoopInv, IdleStates, BatchStates
  <2> QED
    BY <1>1, <1>2, <2>2, <2>3
<1> QED
  BY <1>3, <1>4

\* The submitting threads' other steps.
LEMMA ClientInv ==
    ASSUME IInv, NEW r \in Requests, NotifyOne(r) \/ GetResult(r)
    PROVE  IInv'
<1> USE SMTT(15), ZenonT(15) DEF IInv
<1>1. /\ client[r] \in {"notify", "waiting"}
      /\ client' \in {[client EXCEPT ![r] = "waiting"], [client EXCEPT ![r] = "returned"]}
      /\ worker' \in {worker, "woken", "rewoken"}
      /\ worker' = worker \/ worker \in {"parked", "window"}
      /\ UNCHANGED <<queue, stop_requested, accepted, promise, running, control, drained, batch,
                     row, output, exec_recorded, stats, resetting>>
  BY DEF NotifyOne, GetResult, Wake, queueVars, loopVars, statVars, controlVars
<1>2. TypeOK'
  <2>1. client' \in [Requests -> {"new", "notify", "waiting", "returned", "refused"}]
    BY <1>1, Zenon DEF TypeOK
  <2>2. worker' \in WorkerStates
    BY <1>1 DEF TypeOK, WorkerStates
  <2> QED
    BY <1>1, <2>1, <2>2 DEF TypeOK
<1>3. ExitInv'
  BY <1>1 DEF ExitInv
<1>4. \A q \in Requests : client'[q] \in {"new", "refused"} => client[q] \in {"new", "refused"}
  BY <1>1 DEF TypeOK
<1>5. worker' = worker \/ (worker \in IdleStates /\ worker' \in IdleStates)
  BY <1>1 DEF IdleStates
<1> QED
  BY <1>1, <1>2, <1>3, <1>4, <1>5, FrameInv

\* The steps of start() and stop().
LEMMA ControlInv ==
    ASSUME IInv, Start \/ StopRunning \/ Stop
    PROVE  IInv'
<1> USE SMTT(15), ZenonT(15) DEF IInv
<1>0. UNCHANGED <<queue, accepted, promise, client, drained, batch, row, output, exec_recorded,
                  stats, resetting>>
  BY DEF Start, StopRunning, Stop, Shutdown, NotifyAll, Join, queueVars, loopVars, statVars
<1>1. /\ control' \in {"constructed", "up", "cleared", "flagged", "joining", "down"}
      /\ worker' \in WorkerStates
  BY DEF Start, StopRunning, Stop, Shutdown, NotifyAll, Join, Wake, TypeOK, WorkerStates
<1>2. stop_requested' \in BOOLEAN /\ running' \in BOOLEAN
  <2>1. CASE Start
    BY <2>1, Zenon DEF Start, queueVars, TypeOK
  <2>2. CASE StopRunning
    BY <2>2, Zenon DEF StopRunning, queueVars, TypeOK
  <2>3. CASE Shutdown
    BY <2>3, Zenon DEF Shutdown, TypeOK
  <2>4. CASE NotifyAll \/ Join
    BY <2>4, Zenon DEF NotifyAll, Join, queueVars, TypeOK
  <2> QED
    BY <2>1, <2>2, <2>3, <2>4 DEF Stop
<1>3. TypeOK'
  BY <1>0, <1>1, <1>2 DEF TypeOK
<1>4. worker' = worker \/ (worker \in IdleStates /\ worker' \in IdleStates)
  <2>1. CASE Start
    <3>1. worker \in {"unstarted", "exited"}
      BY <2>1 DEF Start, ExitInv
    <3> QED
      BY <2>1, <3>1 DEF Start, IdleStates
  <2>2. CASE StopRunning \/ Shutdown \/ Join
    BY <2>2 DEF StopRunning, Shutdown, Join
  <2>3. CASE NotifyAll
    BY <2>3 DEF NotifyAll, Wake, IdleStates
  <2> QED
    BY <2>1, <2>2, <2>3 DEF Stop
<1>5. ExitInv'
  BY <1>0 DEF ExitInv, Start, StopRunning, Stop, Shutdown, NotifyAll, Join, Wake, queueVars
<1> QED
  BY <1>0, <1>3, <1>4, <1>5, FrameInv

\* The steps of the worker that only wait, wake up or look at running_, and
\* the stores of reset_stats().
LEMMA WaitingInv ==
    ASSUME IInv,
           Park \/ ReturnEmpty \/ OpenWindow \/ WindowExpires \/ SpuriousWake
             \/ CheckRunning \/ ResetStats
    PROVE  IInv'
<1> USE SMTT(15), ZenonT(15) DEF IInv
<1>1. UNCHANGED <<queue, stop_requested, accepted, promise, client, running, control, drained,
                  batch, row, output, exec_recorded>>
  BY DEF Park, ReturnEmpty, OpenWindow, WindowExpires, SpuriousWake, CheckRunning, ResetStats,
     queueVars, loopVars, controlVars
<1>2. worker' = worker \/ (worker \in IdleStates /\ worker' \in IdleStates)
  BY DEF Park, ReturnEmpty, OpenWindow, WindowExpires, SpuriousWake, CheckRunning, ResetStats,
     InPhase1, Wake, IdleStates
<1>3. TypeOK'
  <2>1. stats' \in [CounterNames -> Nat] /\ resetting' \in 1..6
    <3>1. CASE ResetStats
      <4>1. Counters[resetting] \in CounterNames
        BY CountersType DEF TypeOK
      <4> QED
        BY <3>1, <4>1 DEF ResetStats, TypeOK
    <3>2. CASE ~ResetStats
      BY <3>2 DEF Park, ReturnEmpty, OpenWindow, WindowExpires, SpuriousWake, CheckRunning,
         statVars, TypeOK
    <3> QED
      BY <3>1, <3>2
  <2>2. worker' \in WorkerStates
    BY <1>2 DEF TypeOK, WorkerStates, IdleStates
  <2> QED
    BY <1>1, <2>1, <2>2 DEF TypeOK
<1>4. ExitInv'
  BY <1>1 DEF ExitInv, Park, ReturnEmpty, OpenWindow, WindowExpires, SpuriousWake, CheckRunning,
     ResetStats, InPhase1, Wake
<1> QED
  BY <1>1, <1>2, <1>3, <1>4, FrameInv

\* Drain moves the oldest requests from `queue` to `drained`.
LEMMA DrainInv ==
    ASSUME IInv, Drain
    PROVE  IInv'
<1> USE SMTT(15), ZenonT(15) DEF IInv
<1> DEFINE n == IF MaxBatchSize <= Len(queue) THEN MaxBatchSize ELSE Len(queue)
<1>a. /\ drained' = SubSeq(queue, 1, n)
      /\ queue' = SubSeq(queue, n + 1, Len(queue))
      /\ worker' = "validate"
      /\ worker \in {"locking", "woken", "rewoken", "expired"}
      /\ UNCHANGED <<stop_requested, accepted, promise, client, running, control, batch, row,
                     output, exec_recorded, stats, resetting>>
  BY DEF Drain, InPhase1, controlVars, statVars
<1>b. /\ drained = <<>> /\ batch = <<>> /\ row = 1
      /\ queue \in Seq(Requests) /\ accepted \in Seq(Requests)
  BY <1>a DEF LoopInv, BatchStates, TypeOK
<1>c. n \in 0..Len(queue) /\ n <= MaxBatchSize /\ Len(queue) \in Nat /\ Len(accepted) \in Nat
  BY <1>b, SchedulerAssumption
<1> HIDE DEF n
<1>d. /\ drained' \in Seq(Requests) /\ queue' \in Seq(Requests)
      /\ Len(drained') = n /\ Len(queue') = Len(queue) - n
      /\ \A j \in 1..n : drained'[j] = queue[j]
      /\ \A j \in 1..(Len(queue) - n) : queue'[j] = queue[n + j]
  <2>1. /\ SubSeq(queue, 1, n) \in Seq(Requests)
        /\ Len(SubSeq(queue, 1, n)) = n
        /\ \A j \in 1..n : SubSeq(queue, 1, n)[j] = queue[j]
    BY <1>b, <1>c
  <2>2. /\ SubSeq(queue, n + 1, Len(queue)) \in Seq(Requests)
        /\ Len(SubSeq(queue, n + 1, Len(queue))) = Len(queue) - n
        /\ \A j \in 1..(Len(queue) - n) : SubSeq(queue, n + 1, Len(queue))[j] = queue[n + j]
    BY <1>b, <1>c
  <2> QED
    BY <1>a, <2>1, <2>2
<1>e. Len(drained) = 0 /\ Finished' = Finished /\ Finished = Len(accepted) - Len(queue)
  <2>1. Len(drained) = 0
    BY <1>b
  <2>2. Len(accepted') = Len(accepted)
    BY <1>a
  <2> QED
    BY <1>c, <1>d, <2>1, <2>2 DEF Finished
<1>1. TypeOK'
  BY <1>a, <1>d DEF TypeOK, WorkerStates
<1>2. AcceptedOnce' /\ OwnRow'
  BY <1>a DEF AcceptedOnce, OwnRow
<1>f. \A j \in 1..Len(queue) : queue[j] = accepted[Finished + j] /\ promise[queue[j]] = NoOutcome
  <2>1. \A j \in 1..Len(queue) : Finished + Len(drained) + j = Finished + j
    BY <1>c, <1>e
  <2> QED
    BY <2>1 DEF Places, Answered
<1>3. Places'
  <2>1. \A j \in 1..n : drained'[j] = accepted[Finished + j]
    BY <1>c, <1>d, <1>f
  <2>2. ASSUME NEW j \in 1..(Len(queue) - n) PROVE queue'[j] = accepted[Finished + n + j]
    <3>1. n + j \in 1..Len(queue) /\ Finished + (n + j) = Finished + n + j
      BY <1>c, <1>e
    <3> QED
      BY <1>d, <1>f, <3>1
  <2>3. Len(drained') = n /\ Len(queue') = Len(queue) - n /\ Finished' = Finished /\ Finished >= 0
    BY <1>d, <1>e DEF Places
  <2> QED
    BY <1>a, <1>c, <2>1, <2>2, <2>3 DEF Places
<1>4. Answered'
  <2>1. ASSUME NEW j \in 1..(Len(queue) - n) PROVE promise[queue'[j]] = NoOutcome
    <3>1. n + j \in 1..Len(queue)
      BY <1>c
    <3> QED
      BY <1>d, <1>f, <3>1
  <2> QED
    BY <1>a, <1>d, <1>e, <2>1 DEF Answered
<1>5. BatchFromDrained'
  BY <1>a, <1>b, <1>c, <1>d DEF BatchFromDrained, Checked
<1>6. LoopInv'
  <2>1. batch' = <<>> /\ row' = 1 /\ promise' = promise
    BY <1>a, <1>b
  <2>2. \A j \in row'..Len(drained') : promise'[drained'[j]] = NoOutcome
    <3> HIDE DEF IInv
    <3> QED
      BY <1>c, <1>d, <1>f, <2>1
  <2>3. Unanswered'
    BY <2>1 DEF Unanswered
  <2> QED
    BY <1>a, <2>1, <2>2, <2>3, Zenon DEF LoopInv, BatchStates
<1>7. ExitInv'
  BY <1>a DEF ExitInv
<1> QED
  BY <1>1, <1>2, <1>3, <1>4, <1>5, <1>6, <1>7

\* What Places and AcceptedOnce say together: the three parts are disjoint.
LEMMA PlacesFacts ==
    ASSUME IInv
    PROVE  /\ Finished \in Nat
           /\ \A i \in 1..Finished : i \in 1..Len(accepted) /\ accepted[i] \in Requests
           /\ \A j \in 1..Len(drained) :
                 /\ Finished + j \in 1..Len(accepted)
                 /\ drained[j] = accepted[Finished + j]
                 /\ drained[j] \in Requests
                 /\ client[drained[j]] \notin {"new", "refused"}
           /\ \A j \in 1..Len(queue) : queue[j] \in Requests
           /\ \A i, j \in 1..Len(drained) : drained[i] = drained[j] => i = j
           /\ \A i \in 1..Finished, j \in 1..Len(drained) : accepted[i] # drained[j]
           /\ \A j \in 1..Len(drained), k \in 1..Len(queue) : drained[j] # queue[k]
<1> USE SMTT(15), ZenonT(15) DEF IInv
<1>1. /\ drained \in Seq(Requests) /\ accepted \in Seq(Requests) /\ queue \in Seq(Requests)
      /\ Len(drained) \in Nat /\ Len(queue) \in Nat /\ Len(accepted) \in Nat
  BY DEF TypeOK
<1>2. Finished \in Nat /\ Finished + Len(drained) + Len(queue) = Len(accepted)
  BY <1>1 DEF Finished, Places
<1>3. \A i \in 1..Finished : i \in 1..Len(accepted) /\ accepted[i] \in Requests
  BY <1>1, <1>2
<1>4. ASSUME NEW j \in 1..Len(drained)
      PROVE  Finished + j \in 1..Len(accepted) /\ drained[j] = accepted[Finished + j]
  BY <1>1, <1>2, <1>4 DEF Places
<1>5. \A j \in 1..Len(drained) :
         drained[j] \in Requests /\ client[drained[j]] \notin {"new", "refused"}
  BY <1>1, <1>4 DEF AcceptedOnce
<1>6. ASSUME NEW j \in 1..Len(queue)
      PROVE  /\ Finished + Len(drained) + j \in 1..Len(accepted)
             /\ queue[j] = accepted[Finished + Len(drained) + j]
  BY <1>1, <1>2 DEF Places
<1>7. \A i, j \in 1..Len(drained) : drained[i] = drained[j] => i = j
  <2> SUFFICES ASSUME NEW i \in 1..Len(drained), NEW j \in 1..Len(drained),
                      drained[i] = drained[j]
               PROVE  i = j
    OBVIOUS
  <2>1. Finished + i = Finished + j
    BY <1>4 DEF AcceptedOnce
  <2> QED
    BY <1>1, <1>2, <2>1
<1>8. \A i \in 1..Finished, j \in 1..Len(drained) : accepted[i] # drained[j]
  <2> TAKE i \in 1..Finished, j \in 1..Len(drained)
  <2>1. i # Finished + j
    BY <1>1, <1>2
  <2> QED
    BY <1>3, <1>4, <2>1 DEF AcceptedOnce
<1>9. \A j \in 1..Len(drained), k \in 1..Len(queue) : drained[j] # queue[k]
  <2> TAKE j \in 1..Len(drained), k \in 1..Len(queue)
  <2>1. Finished + j # Finished + Len(drained) + k
    BY <1>1, <1>2
  <2>2. accepted[Finished + j] # accepted[Finished + Len(drained) + k]
    BY <1>4, <1>6, <2>1 DEF AcceptedOnce
  <2> QED
    BY <1>4, <1>6, <2>2
<1>10. \A j \in 1..Len(queue) : queue[j] \in Requests
  BY <1>1
<1> HIDE DEF IInv
<1> QED
  BY <1>2, <1>3, <1>4, <1>5, <1>7, <1>8, <1>9, <1>10, Zenon

(***************************************************************************)
(* The steps of an iteration of run_loop.                                  *)
(***************************************************************************)

\* The size check of one request.
LEMMA ValidateInv ==
    ASSUME IInv, Validate
    PROVE  IInv'
<1> USE SMTT(15), ZenonT(15) DEF IInv
<1>a. /\ worker = "validate" /\ row \in 1..Len(drained)
      /\ UNCHANGED <<queue, stop_requested, accepted, client, running, control, drained,
                     output, exec_recorded, stats, resetting>>
      /\ Unanswered
      /\ \A j \in row..Len(drained) : promise[drained[j]] = NoOutcome
  BY DEF Validate, Abort, TypeOK, LoopInv, queueVars, controlVars, loopVars, statVars
<1>b. /\ drained \in Seq(Requests) /\ batch \in Seq(Requests) /\ accepted \in Seq(Requests)
      /\ queue \in Seq(Requests)
      /\ row \in Nat \ {0} /\ Len(drained) \in Nat /\ Len(batch) \in Nat /\ Len(queue) \in Nat
      /\ Len(accepted) \in Nat
      /\ drained[row] \in Requests
  BY <1>a DEF TypeOK
<1>c. promise[drained[row]] = NoOutcome /\ ~Satisfied(drained[row])
  BY <1>a, <1>b DEF Satisfied
<1>d. row' = row + 1 /\ worker' = worker
  BY <1>a, <1>c DEF Validate
<1>e. Finished' = Finished
  BY <1>a DEF Finished
<1>g. \A i, j \in 1..Len(drained) : drained[i] = drained[j] => i = j
  BY PlacesFacts
<1>1. CASE drained[row] \notin MisSized
  <2>a. batch' = Append(batch, drained[row]) /\ UNCHANGED promise
    BY <1>a, <1>1 DEF Validate
  <2>b. /\ batch' \in Seq(Requests) /\ Len(batch') = Len(batch) + 1
        /\ \A b \in 1..Len(batch) : batch'[b] = batch[b]
        /\ batch'[Len(batch) + 1] = drained[row]
    BY <2>a, <1>b
  <2>1. TypeOK'
    BY <1>a, <1>b, <1>d, <2>a, <2>b DEF TypeOK
  <2>2. AcceptedOnce' /\ Places' /\ Answered' /\ OwnRow' /\ ExitInv'
    BY <1>a, <1>d, <1>e, <2>a DEF AcceptedOnce, Places, Answered, OwnRow, ExitInv
  <2>3. BatchFromDrained'
    <3>1. ASSUME NEW b \in 1..Len(batch')
          PROVE  /\ batch'[b] \notin MisSized
                 /\ \E j \in 1..row : drained[j] = batch'[b]
      <4>1. CASE b \in 1..Len(batch)
        <5>1. batch'[b] = batch[b] /\ batch[b] \notin MisSized
          BY <2>b, <4>1 DEF BatchFromDrained
        <5>2. PICK j \in 1..(row - 1) : drained[j] = batch[b]
          BY <1>a, <4>1 DEF BatchFromDrained, Checked
        <5>3. j \in 1..row
          BY <1>b
        <5> QED
          BY <5>1, <5>2, <5>3
      <4>2. CASE b = Len(batch) + 1
        BY <1>1, <1>a, <1>b, <2>b, <4>2
      <4>3. b \in 1..Len(batch) \/ b = Len(batch) + 1
        BY <1>b, <2>b
      <4> QED
        BY <4>1, <4>2, <4>3
    <3>2. \A b \in 1..Len(batch) : batch[b] # drained[row]
      <4>1. \A b \in 1..Len(batch) : \E j \in 1..(row - 1) : drained[j] = batch[b]
        BY <1>a DEF BatchFromDrained, Checked
      <4> QED
        BY <1>a, <1>b, <1>g, <4>1
    <3>3. ASSUME NEW b \in 1..Len(batch'), NEW c \in 1..Len(batch'), batch'[b] = batch'[c]
          PROVE  b = c
      <4>1. /\ b \in 1..Len(batch) \/ b = Len(batch) + 1
            /\ c \in 1..Len(batch) \/ c = Len(batch) + 1
        BY <1>b, <2>b
      <4>2. CASE b \in 1..Len(batch) /\ c \in 1..Len(batch)
        <5>1. batch[b] = batch[c]
          BY <2>b, <3>3, <4>2
        <5> QED
          BY <4>2, <5>1 DEF BatchFromDrained
      <4>3. CASE b \in 1..Len(batch) /\ c = Len(batch) + 1
        BY <2>b, <3>2, <3>3, <4>3
      <4>4. CASE c \in 1..Len(batch) /\ b = Len(batch) + 1
        BY <2>b, <3>2, <3>3, <4>4
      <4> QED
        BY <4>1, <4>2, <4>3, <4>4
    <3>4. ASSUME NEW j \in 1..row, promise[drained[j]] = NoOutcome
          PROVE  \E b \in 1..Len(batch') : batch'[b] = drained[j]
      <4>1. CASE j = row
        BY <1>b, <2>b, <4>1
      <4>2. CASE j \in 1..(row - 1)
        <5>1. PICK b \in 1..Len(batch) : batch[b] = drained[j]
          BY <1>a, <3>4, <4>2 DEF BatchFromDrained, Checked
        <5>2. b \in 1..Len(batch')
          BY <1>b, <2>b
        <5>3. batch'[b] = drained[j]
          BY <2>b, <5>1
        <5> QED
          BY <5>2, <5>3, Zenon
      <4> QED
        BY <1>b, <4>1, <4>2
    <3>5. Checked' = row
      BY <1>a, <1>b, <1>d DEF Checked
    <3>6. row' <= Len(drained') + 1
      BY <1>a, <1>b, <1>d
    <3>7. UNCHANGED <<drained, promise>>
      BY <1>a, <2>a
    <3> QED
      BY <3>1, <3>3, <3>4, <3>5, <3>6, <3>7, Zenon DEF BatchFromDrained
  <2>4. LoopInv'
    <3>1. Unanswered'
      BY <1>a, <1>b, <1>c, <2>a, <2>b DEF Unanswered
    <3>2. \A j \in (row + 1)..Len(drained) : promise[drained[j]] = NoOutcome
      BY <1>a, <1>b
    <3> QED
      BY <1>a, <1>d, <2>a, <3>1, <3>2 DEF LoopInv, BatchStates
  <2> QED
    BY <2>1, <2>2, <2>3, <2>4
<1>2. CASE drained[row] \in MisSized
  <2>a. promise' = [promise EXCEPT ![drained[row]] = Failure] /\ UNCHANGED batch
    BY <1>a, <1>c, <1>2 DEF Validate, SetPromise
  <2>b. /\ promise'[drained[row]] = Failure
        /\ \A r \in Requests : r # drained[row] => promise'[r] = promise[r]
        /\ \A r \in Requests : promise[r] # NoOutcome => promise'[r] # NoOutcome
        /\ Failure # NoOutcome
    BY <1>b, <2>a, SchedulerAssumption DEF TypeOK
  <2>c. \A j \in 1..Len(drained) : j # row => promise'[drained[j]] = promise[drained[j]]
    BY <1>a, <1>b, <1>g, <2>b
  <2>1. TypeOK'
    BY <1>a, <1>b, <1>d, <2>a DEF TypeOK
  <2>2. AcceptedOnce'
    <3>1. client[drained[row]] \notin {"new", "refused"}
      BY <1>a, PlacesFacts
    <3> QED
      BY <1>a, <1>b, <2>b, <3>1 DEF AcceptedOnce
  <2>3. Places' /\ ExitInv'
    BY <1>a, <1>d, <1>e, <2>a DEF Places, ExitInv
  <2>4. Answered'
    <3>1. \A j \in 1..Len(queue) : queue[j] \in Requests /\ queue[j] # drained[row]
      BY <1>a, PlacesFacts
    <3>2. \A i \in 1..Finished : accepted[i] \in Requests
      BY PlacesFacts
    <3> QED
      BY <1>a, <1>e, <2>b, <3>1, <3>2 DEF Answered
  <2>5. OwnRow'
    BY <1>b, <2>a, <2>b, SchedulerAssumption DEF OwnRow
  <2>d. \A b \in 1..Len(batch) : batch[b] \in Requests /\ batch[b] # drained[row]
    BY <1>2, <1>b DEF BatchFromDrained
  <2>6. BatchFromDrained'
    <3>1. Checked' = row /\ Checked = row - 1
      BY <1>a, <1>b, <1>d DEF Checked
    <3>2. \A b \in 1..Len(batch) : \E j \in 1..row : drained[j] = batch[b]
      BY <1>b, <3>1 DEF BatchFromDrained
    <3>3. ASSUME NEW j \in 1..row, promise'[drained[j]] = NoOutcome
          PROVE  \E b \in 1..Len(batch) : batch[b] = drained[j]
      <4>1. j # row
        BY <2>b, <3>3
      <4>2. j \in 1..(row - 1) /\ j \in 1..Len(drained)
        BY <1>a, <1>b, <4>1
      <4>3. promise[drained[j]] = NoOutcome
        BY <2>c, <3>3, <4>1, <4>2
      <4> QED
        BY <1>a, <3>1, <4>2, <4>3 DEF BatchFromDrained
    <3> QED
      BY <1>a, <1>b, <1>d, <2>a, <3>1, <3>2, <3>3 DEF BatchFromDrained
  <2>7. LoopInv'
    <3>1. Unanswered'
      BY <1>a, <2>a, <2>b, <2>d DEF Unanswered
    <3>2. \A j \in (row + 1)..Len(drained) : promise'[drained[j]] = NoOutcome
      BY <1>a, <1>b, <2>c
    <3> QED
      BY <1>a, <1>d, <2>a, <3>1, <3>2 DEF LoopInv, BatchStates
  <2> QED
    BY <2>1, <2>2, <2>3, <2>4, <2>5, <2>6, <2>7
<1> QED
  BY <1>1, <1>2

\* The end of an iteration, once every drained request has its answer.
LEMMA IterationOver ==
    ASSUME IInv, NextIteration, TypeOK', AcceptedOnce', OwnRow',
           worker \in BatchStates \union {"validate"},
           UNCHANGED <<queue, stop_requested, accepted, client, running, control>>,
           \A i \in 1..Finished : promise'[accepted[i]] # NoOutcome,
           \A j \in 1..Len(drained) : promise'[drained[j]] # NoOutcome,
           \A j \in 1..Len(queue) : promise'[queue[j]] = NoOutcome
    PROVE  IInv'
<1> USE SMTT(15), ZenonT(15) DEF IInv
<1>a. worker' = "locking" /\ drained' = <<>> /\ batch' = <<>> /\ row' = 1
  BY DEF NextIteration
<1>b. /\ Len(drained) \in Nat /\ Len(queue) \in Nat /\ Len(accepted) \in Nat
      /\ Len(drained') = 0 /\ Len(queue') = Len(queue) /\ Len(accepted') = Len(accepted)
  BY <1>a DEF TypeOK
<1>c. Finished' = Finished + Len(drained) /\ Finished \in Nat
  BY <1>b, PlacesFacts DEF Finished
<1>1. Places'
  <2>1. \A j \in 1..Len(queue) : queue[j] = accepted[Finished + Len(drained) + j]
    BY DEF Places
  <2>2. \A j \in 1..Len(queue) : Finished' + 0 + j = Finished + Len(drained) + j
    BY <1>b, <1>c
  <2>3. \A j \in 1..Len(queue') : queue'[j] = accepted'[Finished' + Len(drained') + j]
    BY <1>b, <2>1, <2>2
  <2>4. Len(drained') <= MaxBatchSize /\ Finished' >= 0
    BY <1>b, <1>c, SchedulerAssumption
  <2> QED
    BY <1>b, <2>3, <2>4 DEF Places
<1>2. Answered'
  <2>1. ASSUME NEW i \in 1..(Finished + Len(drained)) PROVE promise'[accepted[i]] # NoOutcome
    <3>1. CASE i \in 1..Finished
      BY <3>1
    <3>2. CASE i \notin 1..Finished
      <4>1. i - Finished \in 1..Len(drained) /\ Finished + (i - Finished) = i
        BY <1>b, <1>c, <3>2
      <4>2. drained[i - Finished] = accepted[i]
        BY <4>1, PlacesFacts
      <4> QED
        BY <4>1, <4>2
    <3> QED
      BY <3>1, <3>2
  <2> QED
    BY <1>b, <1>c, <2>1 DEF Answered
<1>3. BatchFromDrained'
  BY <1>a, <1>b DEF BatchFromDrained, Checked
<1>4. LoopInv'
  BY <1>a DEF LoopInv, BatchStates
<1>5. ExitInv'
  BY <1>a DEF ExitInv, BatchStates
<1> QED
  BY <1>1, <1>2, <1>3, <1>4, <1>5

\* The end of the size check.
LEMMA ValidatedInv ==
    ASSUME IInv, Validated
    PROVE  IInv'
<1> USE SMTT(15), ZenonT(15) DEF IInv
<1>a. /\ worker = "validate" /\ row > Len(drained) /\ row <= Len(drained) + 1
      /\ UNCHANGED <<queue, stop_requested, accepted, promise, client, running, control,
                     stats, resetting>>
  BY DEF Validated, BatchFromDrained, queueVars, controlVars, statVars
<1>b. row \in Nat /\ Len(drained) \in Nat
  BY DEF TypeOK
<1>c. Checked = Len(drained)
  BY <1>a, <1>b DEF Checked
<1>1. CASE batch = <<>>
  <2>a. NextIteration
    BY <1>1 DEF Validated
  <2>1. TypeOK'
    <3>1. exec_recorded' \in BOOLEAN
      BY <2>a, Zenon DEF NextIteration
    <3> QED
      BY <1>a, <2>a, <3>1 DEF TypeOK, NextIteration, WorkerStates
  <2>2. AcceptedOnce' /\ OwnRow'
    BY <1>a DEF AcceptedOnce, OwnRow
  <2>3. \A j \in 1..Len(drained) : promise[drained[j]] # NoOutcome
    <3>1. \A j \in 1..Checked : promise[drained[j]] = NoOutcome =>
                \E b \in 1..Len(batch) : batch[b] = drained[j]
      BY <1>a, Zenon DEF BatchFromDrained
    <3>2. 1..Len(batch) = {}
      BY <1>1
    <3> QED
      BY <1>c, <3>1, <3>2, Zenon
  <2>4. /\ \A i \in 1..Finished : promise[accepted[i]] # NoOutcome
        /\ \A j \in 1..Len(queue) : promise[queue[j]] = NoOutcome
    BY DEF Answered
  <2> QED
    BY <1>a, <2>a, <2>1, <2>2, <2>3, <2>4, IterationOver
<1>2. CASE batch # <<>>
  <2>a. worker' = "count" /\ row' = 1 /\ UNCHANGED <<drained, batch, output, exec_recorded>>
    BY <1>2 DEF Validated
  <2>1. TypeOK'
    BY <1>a, <2>a DEF TypeOK, WorkerStates
  <2>2. AcceptedOnce' /\ OwnRow' /\ Places' /\ Answered' /\ ExitInv'
    BY <1>a, <2>a DEF AcceptedOnce, OwnRow, Places, Answered, ExitInv, Finished
  <2>3. BatchFromDrained'
    <3>1. Checked' = Checked
      BY <1>c, <2>a DEF Checked
    <3> QED
      BY <1>a, <2>a, <3>1, Zenon DEF BatchFromDrained
  <2>4. LoopInv'
    BY <1>2, <1>a, <2>a DEF LoopInv, BatchStates, Unanswered
  <2> QED
    BY <2>1, <2>2, <2>3, <2>4
<1> QED
  BY <1>1, <1>2

\* The steps between the size check and the first answer.  They leave the
\* requests where they are.
LEMMA EngineInv ==
    ASSUME IInv, Count \/ EngineReturns \/ EngineThrows \/ SliceThrows \/ Catch
    PROVE  IInv'
<1> USE SMTT(15), ZenonT(15) DEF IInv
<1>a. UNCHANGED <<queue, stop_requested, accepted, promise, client, running, control, drained,
                  batch>>
  BY DEF Count, EngineReturns, EngineThrows, SliceThrows, Catch, queueVars, controlVars, loopVars
<1>b. worker \in BatchStates /\ worker' \in BatchStates /\ batch # <<>>
  BY DEF Count, EngineReturns, EngineThrows, SliceThrows, Catch, BatchStates, LoopInv
<1>c. batch \in Seq(Requests) /\ Len(batch) \in Nat /\ Len(batch) >= 1
  BY <1>b DEF TypeOK
<1>1. stats' \in [CounterNames -> Nat] /\ resetting' \in 1..6
  <2>1. CASE Count
    <3>1. Counters[row] \in CounterNames /\ CountOne(Counters[row])
      BY <2>1, CountersType DEF Count, LoopInv
    <3> QED
      BY <2>1, <1>c, <3>1, CountOneType DEF Count, TypeOK
  <2>2. CASE EngineReturns
    BY <2>2, <1>c, CountersType, CountOneType DEF EngineReturns, TypeOK
  <2>3. CASE EngineThrows \/ SliceThrows
    BY <2>3 DEF EngineThrows, SliceThrows, statVars, TypeOK
  <2>4. CASE Catch
    BY <2>4, <1>c, CountersType, CountOneType DEF Catch, TypeOK
  <2> QED
    BY <2>1, <2>2, <2>3, <2>4
<1>2. row' \in Nat \ {0}
  BY DEF Count, EngineReturns, EngineThrows, SliceThrows, Catch, loopVars, TypeOK
<1>3. output' \in Seq(Requests) /\ exec_recorded' \in BOOLEAN
  <2>1. CASE EngineReturns
    <3>1. SubSeq(batch, 1, Len(batch) - 1) \in Seq(Requests)
      BY <1>c
    <3>2. output' \in Seq(Requests)
      BY <2>1, <1>c, <3>1 DEF EngineReturns
    <3>3. exec_recorded' \in BOOLEAN
      BY <2>1, Zenon DEF EngineReturns
    <3> QED
      BY <3>2, <3>3
  <2>2. CASE ~EngineReturns
    BY <2>2 DEF Count, EngineThrows, SliceThrows, Catch, loopVars, TypeOK
  <2> QED
    BY <2>1, <2>2
<1>4. TypeOK'
  BY <1>a, <1>b, <1>1, <1>2, <1>3 DEF TypeOK, WorkerStates, BatchStates
<1>5. AcceptedOnce' /\ OwnRow' /\ Places' /\ Answered'
  <2>1. AcceptedOnce'
    BY <1>a DEF AcceptedOnce
  <2>2. OwnRow'
    BY <1>a DEF OwnRow
  <2>3. Places'
    BY <1>a DEF Places, Finished
  <2>4. Answered'
    BY <1>a DEF Answered, Finished
  <2> QED
    BY <2>1, <2>2, <2>3, <2>4
<1>6. ExitInv'
  BY <1>a, <1>b DEF ExitInv, BatchStates
<1>7. BatchFromDrained'
  <2>1. Checked' = Checked
    BY <1>a, <1>b DEF Checked, BatchStates
  <2>2. worker' # "validate" /\ worker # "aborted" /\ worker' # "aborted"
    BY <1>b DEF BatchStates
  <2> QED
    BY <1>a, <2>1, <2>2 DEF BatchFromDrained
<1>8. LoopInv'
  <2>1. CASE Count
    <3>1. row \in 1..5 /\ Unanswered
      BY <2>1 DEF Count, LoopInv
    <3>2. \/ worker' = "count" /\ row' \in 1..5
          \/ worker' = "run" /\ row' = 1
      BY <2>1, <3>1 DEF Count
    <3> QED
      BY <1>a, <1>b, <3>1, <3>2 DEF LoopInv, BatchStates, Unanswered
  <2>2. CASE EngineReturns
    <3>1. Len(SubSeq(batch, 1, Len(batch) - 1)) = Len(batch) - 1
      <4>1. Len(batch) - 1 \in Nat /\ \A i \in 1..(Len(batch) - 1) : batch[i] \in Requests
        BY <1>c
      <4>2. Len(SubSeq(batch, 1, Len(batch) - 1))
              = IF 1 <= Len(batch) - 1 THEN (Len(batch) - 1) - 1 + 1 ELSE 0
        BY <4>1, SubSeqProperties
      <4>3. ASSUME NEW k \in Nat, NEW l, l = IF 1 <= k THEN k - 1 + 1 ELSE 0 PROVE l = k
        BY <4>3
      <4> QED
        BY <4>1, <4>2, <4>3, Zenon
    <3>2. row = 1 /\ Unanswered
      BY <2>2 DEF EngineReturns, LoopInv
    <3>3. CASE output' = batch
      <4>1. worker' = "resolve" /\ row' = 1 /\ exec_recorded' /\ output' = batch'
        BY <2>2, <1>a, <3>2, <3>3 DEF EngineReturns
      <4>2. AnsweredTo(row)'
        BY <1>a, <1>c, <3>2, <4>1 DEF Unanswered, AnsweredTo
      <4>3. row' \in 1..Len(batch') /\ batch' # <<>>
        BY <1>a, <1>c, <4>1
      <4> QED
        BY <4>1, <4>2, <4>3 DEF LoopInv, BatchStates
    <3>4. CASE output' # batch
      <4>1. worker' = "catch"
        BY <2>2, <1>c, <3>1, <3>4 DEF EngineReturns
      <4>2. Unanswered' /\ AnsweredPrefix' /\ batch' # <<>>
        BY <1>a, <1>b, <3>2 DEF Unanswered, AnsweredPrefix
      <4> QED
        BY <4>1, <4>2 DEF LoopInv, BatchStates
    <3> QED
      BY <3>3, <3>4
  <2>3. CASE EngineThrows
    BY <2>3, <1>a, <1>b DEF EngineThrows, LoopInv, BatchStates, Unanswered, AnsweredPrefix
  <2>4. CASE SliceThrows
    <3>1. MayExhaustMemory /\ worker' = "catch" /\ AnsweredTo(row) /\ row \in Nat
      BY <2>4 DEF SliceThrows, LoopInv, TypeOK
    <3>2. exec_recorded'
      BY <2>4 DEF SliceThrows, loopVars, LoopInv
    <3>3. AnsweredPrefix
      BY <1>c, <3>1 DEF AnsweredTo, AnsweredPrefix
    <3>4. AnsweredPrefix' /\ batch' # <<>>
      BY <1>a, <1>b, <3>3 DEF AnsweredPrefix
    <3> QED
      BY <3>1, <3>2, <3>4 DEF LoopInv, BatchStates
  <2>5. CASE Catch
    <3>1. worker' = "fail" /\ row' = 1 /\ AnsweredPrefix
      BY <2>5 DEF Catch, LoopInv
    <3>2. ~MayExhaustMemory => Unanswered
      BY <2>5 DEF Catch, LoopInv
    <3>3. AnsweredPrefix' /\ batch' # <<>> /\ Len(batch') = Len(batch)
      BY <1>a, <1>b, <3>1 DEF AnsweredPrefix
    <3>4. ~MayExhaustMemory => AnsweredTo(row)'
      BY <1>a, <1>c, <3>1, <3>2 DEF AnsweredTo, Unanswered
    <3>5. row' \in 1..Len(batch') /\ \A b \in 1..(row' - 1) : promise'[batch'[b]] # NoOutcome
      BY <1>c, <3>1, <3>3
    <3> QED
      BY <3>1, <3>3, <3>4, <3>5 DEF LoopInv, BatchStates
  <2> QED
    BY <2>1, <2>2, <2>3, <2>4, <2>5
<1> QED
  BY <1>4, <1>5, <1>6, <1>7, <1>8

\* Either loop answering the next request of the batch.
LEMMA AnswerInv ==
    ASSUME IInv, worker \in {"resolve", "fail"}, AnsweredTo(row),
           NEW answer \in {batch[row], Failure},
           SetPromise(batch[row], answer), NextRow,
           UNCHANGED <<queue, stop_requested, accepted, client, running, control, stats, resetting>>
    PROVE  IInv'
<1> USE SMTT(15), ZenonT(15) DEF IInv
<1>a. /\ row \in 1..Len(batch) /\ row \in Nat /\ Len(batch) \in Nat /\ Len(drained) \in Nat
      /\ batch \in Seq(Requests) /\ batch[row] \in Requests
  BY DEF LoopInv, TypeOK
<1>b. PICK j0 \in 1..Len(drained) : drained[j0] = batch[row]
  BY <1>a, Zenon DEF BatchFromDrained, Checked
<1>c. /\ promise'[batch[row]] = answer /\ answer # NoOutcome
      /\ \A r \in Requests : r # batch[row] => promise'[r] = promise[r]
      /\ \A r \in Requests : promise[r] # NoOutcome => promise'[r] # NoOutcome
      /\ promise' \in [Requests -> Requests \union {NoOutcome, Failure}]
  <2>1. /\ promise \in [Requests -> Requests \union {NoOutcome, Failure}]
        /\ promise' = [promise EXCEPT ![batch[row]] = answer]
    BY DEF SetPromise, TypeOK
  <2>2. answer \in Requests \union {Failure} /\ answer # NoOutcome
    BY <1>a, SchedulerAssumption
  <2> HIDE DEF IInv
  <2>3. \A r \in Requests : promise'[r] = IF r = batch[row] THEN answer ELSE promise[r]
    BY <2>1
  <2>4. promise' \in [Requests -> Requests \union {NoOutcome, Failure}]
    BY <2>1, <2>2, Zenon
  <2> QED
    BY <1>a, <2>2, <2>3, <2>4
<1>d. \A b \in 1..Len(batch) : batch[b] \in Requests /\ (b # row => batch[b] # batch[row])
  <2>1. \A b, c \in 1..Len(batch) : batch[b] = batch[c] => b = c
    BY DEF BatchFromDrained
  <2> HIDE DEF IInv
  <2>2. \A b \in 1..Len(batch) : batch[b] \in Requests
    BY <1>a
  <2> QED
    BY <1>a, <2>1, <2>2
<1>e. \A b \in 1..Len(batch) : promise'[batch[b]] # NoOutcome <=> b < row + 1
  <2> HIDE DEF IInv
  <2>1. \A b \in 1..Len(batch) : b # row => (promise'[batch[b]] # NoOutcome <=> b < row)
    BY <1>c, <1>d DEF AnsweredTo
  <2> QED
    BY <1>a, <1>c, <2>1
<1>1. AcceptedOnce'
  <2>1. client[batch[row]] \notin {"new", "refused"}
    BY <1>b, PlacesFacts DEF AcceptedOnce
  <2>2. ASSUME NEW r \in Requests, promise'[r] # NoOutcome
        PROVE  client[r] \notin {"new", "refused"}
    <3>1. CASE r = batch[row]
      BY <2>1, <3>1
    <3>2. CASE r # batch[row]
      BY <1>c, <2>2, <3>2 DEF AcceptedOnce
    <3> QED
      BY <3>1, <3>2
  <2> QED
    BY <2>2 DEF AcceptedOnce
<1>2. OwnRow'
  <2>1. batch[row] \notin MisSized
    BY <1>a DEF BatchFromDrained
  <2> QED
    BY <1>c, <2>1, SchedulerAssumption DEF OwnRow
<1>3. /\ \A i \in 1..Finished : promise'[accepted[i]] # NoOutcome
      /\ \A j \in 1..Len(queue) : promise'[queue[j]] = NoOutcome
  <2>1. \A i \in 1..Finished : accepted[i] \in Requests
    BY PlacesFacts
  <2>2. \A j \in 1..Len(queue) : queue[j] \in Requests /\ queue[j] # batch[row]
    BY <1>b, PlacesFacts
  <2> QED
    BY <1>c, <2>1, <2>2 DEF Answered
<1>4. CASE row < Len(batch)
  <2>a. row' = row + 1 /\ UNCHANGED <<worker, drained, batch, output, exec_recorded>>
    BY <1>4 DEF NextRow
  <2>1. TypeOK'
    <3>1. row' \in Nat \ {0}
      BY <1>a, <2>a
    <3>2. promise' \in [Requests -> Requests \union {NoOutcome, Failure}]
      BY <1>c
    <3> QED
      BY <2>a, <3>1, <3>2 DEF TypeOK
  <2>2. Places' /\ Answered' /\ ExitInv'
    BY <1>3, <2>a DEF Places, Answered, ExitInv, Finished
  <2>3. BatchFromDrained'
    <3>1. Checked' = Len(drained) /\ Checked = Len(drained) /\ worker' # "validate"
      BY <2>a DEF Checked
    <3>2. ASSUME NEW j \in 1..Len(drained), promise'[drained[j]] = NoOutcome
          PROVE  \E b \in 1..Len(batch) : batch[b] = drained[j]
      <4>1. promise[drained[j]] = NoOutcome
        BY <1>c, <3>2, PlacesFacts, Zenon
      <4> QED
        BY <3>1, <4>1, Zenon DEF BatchFromDrained
    <3> QED
      BY <2>a, <3>1, <3>2, Zenon DEF BatchFromDrained
  <2>4. LoopInv'
    <3>1. row' \in 1..Len(batch') /\ AnsweredTo(row)'
      <4> HIDE DEF IInv
      <4>1. row' \in 1..Len(batch')
        BY <1>a, <1>4, <2>a
      <4> QED
        BY <1>e, <2>a, <4>1, Zenon DEF AnsweredTo
    <3>2. AnsweredPrefix' /\ \A b \in 1..(row' - 1) : promise'[batch'[b]] # NoOutcome
      <4> HIDE DEF IInv
      <4> QED
        BY <1>a, <1>e, <1>4, <2>a DEF AnsweredPrefix
    <3>3. worker' \in {"resolve", "fail"} /\ batch' # <<>>
      BY <1>a, <2>a
    <3> QED
      BY <2>a, <3>1, <3>2, <3>3, Zenon DEF LoopInv, BatchStates
  <2> QED
    BY <1>1, <1>2, <2>1, <2>2, <2>3, <2>4
<1>5. CASE ~(row < Len(batch))
  <2>a. NextIteration
    BY <1>5 DEF NextRow
  <2>1. TypeOK'
    <3>1. exec_recorded' \in BOOLEAN
      BY <2>a, Zenon DEF NextIteration
    <3>2. promise' \in [Requests -> Requests \union {NoOutcome, Failure}]
      BY <1>c
    <3>3. /\ drained' \in Seq(Requests) /\ batch' \in Seq(Requests) /\ output' \in Seq(Requests)
          /\ row' \in Nat \ {0}
      BY <2>a DEF NextIteration
    <3>4. worker' \in WorkerStates
      BY <2>a DEF NextIteration, WorkerStates
    <3> QED
      BY <3>1, <3>2, <3>3, <3>4 DEF TypeOK
  <2>2. ASSUME NEW j \in 1..Len(drained) PROVE promise'[drained[j]] # NoOutcome
    <3>1. CASE promise[drained[j]] # NoOutcome
      BY <1>c, <3>1, PlacesFacts
    <3>2. CASE promise[drained[j]] = NoOutcome
      <4>1. PICK b \in 1..Len(batch) : batch[b] = drained[j]
        BY <3>2, Zenon DEF BatchFromDrained, Checked
      <4>2. b < row + 1
        BY <1>a, <1>5
      <4> QED
        BY <1>e, <4>1, <4>2, Zenon
    <3> QED
      BY <3>1, <3>2
  <2>3. worker \in BatchStates \union {"validate"}
    BY DEF BatchStates
  <2> QED
    BY <1>1, <1>2, <1>3, <2>a, <2>1, <2>2, <2>3, IterationOver
<1> QED
  BY <1>4, <1>5

\* A step of either loop either answers the next request or, in the catch
\* block and only after slicing has thrown, ends the process.
LEMMA AnswerSteps ==
    ASSUME IInv, ResolveRow \/ FailRow
    PROVE  \/ /\ worker \in {"resolve", "fail"} /\ AnsweredTo(row)
              /\ SetPromise(batch[row], batch[row]) \/ SetPromise(batch[row], Failure)
              /\ NextRow
           \/ /\ worker = "fail" /\ MayExhaustMemory /\ Abort
<1> USE SMTT(15), ZenonT(15) DEF IInv
<1>a. /\ worker \in {"resolve", "fail"} /\ row \in 1..Len(batch)
      /\ Len(batch) \in Nat
  BY DEF ResolveRow, FailRow, LoopInv, TypeOK
<1>1. CASE ResolveRow
  <2>1. worker = "resolve" /\ AnsweredTo(row) /\ output = batch
    BY <1>1 DEF ResolveRow, LoopInv
  <2>2. ~Satisfied(batch[row])
    BY <1>a, <2>1 DEF AnsweredTo, Satisfied
  <2> QED
    BY <1>1, <2>1, <2>2 DEF ResolveRow
<1>2. CASE FailRow
  <2>1. CASE Satisfied(batch[row])
    <3>1. ~AnsweredTo(row)
      BY <1>a, <2>1 DEF AnsweredTo, Satisfied
    <3> QED
      BY <1>2, <2>1, <3>1 DEF FailRow, LoopInv
  <2>2. CASE ~Satisfied(batch[row])
    <3>1. AnsweredPrefix /\ \A b \in 1..(row - 1) : promise[batch[b]] # NoOutcome
      BY <1>2 DEF FailRow, LoopInv
    <3>2. AnsweredTo(row)
      BY <1>a, <2>2, <3>1 DEF AnsweredTo, AnsweredPrefix, Satisfied
    <3> QED
      BY <1>2, <1>a, <2>2, <3>2 DEF FailRow
  <2> QED
    BY <2>1, <2>2
<1> QED
  BY <1>1, <1>2

\* Answering a row, whatever the answer, keeps the invariant.
LEMMA AnswerStepsInv ==
    ASSUME IInv, ResolveRow \/ FailRow
    PROVE  IInv'
<1> USE SMTT(15), ZenonT(15) DEF IInv
<1>a. UNCHANGED <<queue, stop_requested, accepted, client, running, control, stats, resetting>>
  BY Zenon DEF ResolveRow, FailRow, queueVars, controlVars, statVars
<1>1. CASE /\ worker \in {"resolve", "fail"} /\ AnsweredTo(row)
           /\ SetPromise(batch[row], batch[row]) \/ SetPromise(batch[row], Failure)
           /\ NextRow
  BY <1>1, <1>a, AnswerInv
<1>2. CASE worker = "fail" /\ MayExhaustMemory /\ Abort
  <2>1. /\ worker' = "aborted"
        /\ UNCHANGED <<promise, drained, batch, row, output, exec_recorded>>
    BY <1>2 DEF Abort, loopVars
  <2>2. TypeOK'
    BY <1>a, <2>1 DEF TypeOK, WorkerStates
  <2>3. AcceptedOnce' /\ OwnRow' /\ Places' /\ Answered'
    <3>1. AcceptedOnce'
      BY <1>a, <2>1, Zenon DEF AcceptedOnce
    <3>2. OwnRow'
      BY <2>1 DEF OwnRow
    <3>3. Places'
      BY <1>a, <2>1, Zenon DEF Places, Finished
    <3>4. Answered'
      BY <1>a, <2>1 DEF Answered, Finished
    <3> QED
      BY <3>1, <3>2, <3>3, <3>4
  <2>4. BatchFromDrained'
    BY <1>2, <2>1 DEF BatchFromDrained, Checked
  <2>5. LoopInv'
    BY <1>2, <2>1 DEF LoopInv, BatchStates
  <2>6. ExitInv'
    BY <1>2, <1>a, <2>1 DEF ExitInv
  <2> QED
    BY <2>2, <2>3, <2>4, <2>5, <2>6
<1> QED
  BY <1>1, <1>2, AnswerSteps
=============================================================================
