------------------------------ MODULE Scheduler ------------------------------
(***************************************************************************)
(* The dynamic-batching scheduler of src/cpp/src/scheduler: the producer   *)
(* threads that call Scheduler::submit, the mutex/condition-variable       *)
(* RequestQueue, the single worker thread that runs Scheduler::run_loop,   *)
(* the thread that calls start() and stop(), and a thread that calls       *)
(* reset_stats().                                                          *)
(*                                                                         *)
(* A critical section of RequestQueue::mutex_ is one step, and so is every *)
(* stretch of code between two accesses to shared state.  A notification   *)
(* is a step of its own, because the code notifies after it has unlocked.  *)
(***************************************************************************)
EXTENDS Integers, Sequences, FiniteSets

CONSTANTS
    Requests,          \* the requests that may be submitted, one thread each
    MisSized,          \* those whose input_data.size() # config_.input_elems
    MaxBatchSize,      \* config_.max_batch_size
    MaxWait,           \* config_.max_wait, in milliseconds
    MayExhaustMemory,  \* may an allocation of the result-slicing loop throw?
    MayReset,          \* does some thread call reset_stats()?
    NoOutcome,         \* a promise that is not satisfied yet
    Failure            \* a promise that holds an exception

\* config.py accepts only max_batch_size >= 1 and max_wait_ms >= 0.
ASSUME SchedulerAssumption ==
    /\ MisSized \subseteq Requests
    /\ MaxBatchSize \in Nat \ {0}
    /\ MaxWait \in Nat
    /\ MayExhaustMemory \in BOOLEAN
    /\ MayReset \in BOOLEAN
    /\ NoOutcome \notin Requests
    /\ Failure \notin Requests
    /\ NoOutcome # Failure

VARIABLES
    queue,           \* RequestQueue::queue_
    stop_requested,  \* RequestQueue::stop_requested_
    accepted,        \* history: every request push() has taken, in order
    promise,         \* what each request's result_promise holds
    client,          \* where each submitting thread is
    running,         \* Scheduler::running_
    control,         \* where the thread calling start() and stop() is
    worker,          \* where the worker thread is
    drained,         \* run_loop's `drained`
    batch,           \* run_loop's `batch`
    row,             \* the index of whichever loop run_loop is in
    output,          \* run_loop's `batched_output`, one entry per row
    exec_recorded,   \* run_loop's `exec_recorded`
    stats,           \* the six atomic counters
    resetting        \* which store of reset_stats() comes next

queueVars   == <<queue, stop_requested, accepted>>
loopVars    == <<drained, batch, row, output, exec_recorded>>
statVars    == <<stats, resetting>>
controlVars == <<running, control>>
vars == <<queueVars, promise, client, controlVars, worker, loopVars, statVars>>

\* The counters in the order in which both run_loop and reset_stats touch
\* them.  Durations are abstracted to one unit per measurement, so the wait
\* and execution totals count the measurements that went into them.
Counters == <<"total_batches", "total_requests", "max_batch_size_seen",
              "total_queue_wait", "max_queue_wait", "total_exec">>

CounterNames == {Counters[i] : i \in 1..6}

WorkerStates ==
    {"unstarted", "locking", "parked", "woken", "window", "rewoken", "expired",
     "empty", "validate", "count", "run", "resolve", "catch", "fail",
     "exited", "aborted"}

TypeOK ==
    /\ queue \in Seq(Requests)
    /\ stop_requested \in BOOLEAN
    /\ accepted \in Seq(Requests)
    /\ promise \in [Requests -> Requests \union {NoOutcome, Failure}]
    /\ client \in [Requests -> {"new", "notify", "waiting", "returned", "refused"}]
    /\ running \in BOOLEAN
    /\ control \in {"constructed", "up", "cleared", "flagged", "joining", "down"}
    /\ worker \in WorkerStates
    /\ drained \in Seq(Requests)
    /\ batch \in Seq(Requests)
    /\ row \in Nat \ {0}
    /\ output \in Seq(Requests)
    /\ exec_recorded \in BOOLEAN
    /\ stats \in [CounterNames -> Nat]
    /\ resetting \in 1..6

Init ==
    /\ queue = <<>>
    /\ stop_requested = FALSE
    /\ accepted = <<>>
    /\ promise = [r \in Requests |-> NoOutcome]
    /\ client = [r \in Requests |-> "new"]
    /\ running = FALSE
    /\ control = "constructed"
    /\ worker = "unstarted"
    /\ drained = <<>>
    /\ batch = <<>>
    /\ row = 1
    /\ output = <<>>
    /\ exec_recorded = FALSE
    /\ stats = [c \in CounterNames |-> 0]
    /\ resetting = 1
-----------------------------------------------------------------------------
\* Nothing happens any more in a process that has aborted.
Alive == worker # "aborted"

(* Submitting threads. *)

\* RequestQueue::push up to the unlock: refused once shutdown has taken the
\* lock, in which case submit() throws InferenceError.
Push(r) ==
    /\ Alive
    /\ client[r] = "new"
    /\ IF stop_requested
       THEN /\ client' = [client EXCEPT ![r] = "refused"]
            /\ UNCHANGED queueVars
       ELSE /\ client' = [client EXCEPT ![r] = "notify"]
            /\ queue' = Append(queue, r)
            /\ accepted' = Append(accepted, r)
            /\ UNCHANGED stop_requested
    /\ UNCHANGED <<promise, controlVars, worker, loopVars, statVars>>

\* What a notification does to the only thread that ever waits on cv_.  It is
\* lost when the worker is not waiting.
Wake ==
    worker' = CASE worker = "parked" -> "woken"
                [] worker = "window" -> "rewoken"
                [] OTHER -> worker

\* Mutant: push() forgets to notify.
SilentPush(r) ==
    /\ Alive
    /\ client[r] = "notify"
    /\ client' = [client EXCEPT ![r] = "waiting"]
    /\ UNCHANGED <<queueVars, promise, controlVars, worker, loopVars, statVars>>

\* push()'s cv_.notify_one(), after which submit() returns the future.
NotifyOne(r) ==
    /\ Alive
    /\ client[r] = "notify"
    /\ client' = [client EXCEPT ![r] = "waiting"]
    /\ Wake
    /\ UNCHANGED <<queueVars, promise, controlVars, loopVars, statVars>>

\* future.get() returns, or rethrows, once the promise is satisfied.
GetResult(r) ==
    /\ Alive
    /\ client[r] = "waiting"
    /\ promise[r] # NoOutcome
    /\ client' = [client EXCEPT ![r] = "returned"]
    /\ UNCHANGED <<queueVars, promise, controlVars, worker, loopVars, statVars>>
-----------------------------------------------------------------------------
(* The thread that owns the scheduler. *)

\* start(): a no-op while running_ is set, so only the other case is a step.
Start ==
    /\ Alive
    /\ control \in {"constructed", "down"}
    /\ ~running
    /\ running' = TRUE
    /\ control' = "up"
    /\ worker' = "locking"
    /\ UNCHANGED <<queueVars, promise, client, loopVars, statVars>>

\* stop(): running_ = false.  The destructor calls stop() again.
StopRunning ==
    /\ Alive
    /\ control \in {"up", "down"}
    /\ control' = "cleared"
    /\ running' = FALSE
    /\ UNCHANGED <<queueVars, promise, client, worker, loopVars, statVars>>

\* stop() -> RequestQueue::shutdown(), under the lock.
Shutdown ==
    /\ Alive
    /\ control = "cleared"
    /\ control' = "flagged"
    /\ stop_requested' = TRUE
    /\ UNCHANGED <<queue, accepted, promise, client, running, worker, loopVars, statVars>>

\* Mutant: shutdown() forgets to notify.
SilentShutdown ==
    /\ Alive
    /\ control = "flagged"
    /\ control' = "joining"
    /\ UNCHANGED <<queueVars, promise, client, running, worker, loopVars, statVars>>

\* shutdown()'s cv_.notify_all(), after the unlock.
NotifyAll ==
    /\ Alive
    /\ control = "flagged"
    /\ control' = "joining"
    /\ Wake
    /\ UNCHANGED <<queueVars, promise, client, running, loopVars, statVars>>

\* Mutant: stop() does not wait for the worker.
DetachInsteadOfJoin ==
    /\ Alive
    /\ control = "joining"
    /\ control' = "down"
    /\ UNCHANGED <<queueVars, promise, client, running, worker, loopVars, statVars>>

\* stop()'s worker_.join(), which a worker joined earlier does not delay.
Join ==
    /\ control = "joining"
    /\ worker = "exited"
    /\ control' = "down"
    /\ UNCHANGED <<queueVars, promise, client, running, worker, loopVars, statVars>>
-----------------------------------------------------------------------------
(* The worker thread: RequestQueue::wait_and_drain. *)

\* The predicate of the batching window.
WindowFull == Len(queue) >= MaxBatchSize \/ stop_requested

InPhase1 == worker \in {"locking", "woken"}

\* Phase 1: nothing to do yet, so wait on cv_ and release the mutex.
Park ==
    /\ InPhase1
    /\ queue = <<>>
    /\ ~stop_requested
    /\ worker' = "parked"
    /\ UNCHANGED <<queueVars, promise, client, controlVars, loopVars, statVars>>

\* Mutant: shutdown() ends phase 1 whether or not something is queued.
ReturnEmptyOnStop ==
    /\ InPhase1
    /\ stop_requested
    /\ worker' = "empty"
    /\ UNCHANGED <<queueVars, promise, client, controlVars, loopVars, statVars>>

\* Phase 1 ended by shutdown() with nothing queued: return {}.
ReturnEmpty ==
    /\ InPhase1
    /\ queue = <<>>
    /\ stop_requested
    /\ worker' = "empty"
    /\ UNCHANGED <<queueVars, promise, client, controlVars, loopVars, statVars>>

\* Phase 2: wait, now with a deadline, for a full batch or for shutdown().
\* A wake-up that finds the predicate false waits again.
OpenWindow ==
    /\ \/ InPhase1 /\ queue # <<>> /\ MaxWait > 0
       \/ worker = "rewoken"
    /\ ~WindowFull
    /\ worker' = "window"
    /\ UNCHANGED <<queueVars, promise, client, controlVars, loopVars, statVars>>

\* Mutant: an off-by-one leaves the last drained request in the queue.
DrainKeepsLast ==
    /\ \/ InPhase1 /\ queue # <<>> /\ (MaxWait = 0 \/ WindowFull)
       \/ worker = "rewoken" /\ WindowFull
       \/ worker = "expired"
    /\ LET n == IF MaxBatchSize <= Len(queue) THEN MaxBatchSize ELSE Len(queue)
       IN  /\ drained' = SubSeq(queue, 1, n)
           /\ queue' = SubSeq(queue, n, Len(queue))
    /\ worker' = "validate"
    /\ UNCHANGED <<stop_requested, accepted, promise, client, controlVars,
                   batch, row, output, exec_recorded, statVars>>

\* The end of phase 2, whatever ended it: take the oldest requests, at most
\* max_batch_size of them.
Drain ==
    /\ \/ InPhase1 /\ queue # <<>> /\ (MaxWait = 0 \/ WindowFull)
       \/ worker = "rewoken" /\ WindowFull
       \/ worker = "expired"
    /\ LET n == IF MaxBatchSize <= Len(queue) THEN MaxBatchSize ELSE Len(queue)
       IN  /\ drained' = SubSeq(queue, 1, n)
           /\ queue' = SubSeq(queue, n + 1, Len(queue))
    /\ worker' = "validate"
    /\ UNCHANGED <<stop_requested, accepted, promise, client, controlVars,
                   batch, row, output, exec_recorded, statVars>>

\* wait_for runs out of time; the worker drains when it has the lock again.
WindowExpires ==
    /\ worker = "window"
    /\ worker' = "expired"
    /\ UNCHANGED <<queueVars, promise, client, controlVars, loopVars, statVars>>

\* A condition variable may wake its waiter for no reason.
SpuriousWake ==
    /\ worker \in {"parked", "window"}
    /\ Wake
    /\ UNCHANGED <<queueVars, promise, client, controlVars, loopVars, statVars>>
-----------------------------------------------------------------------------
(* The worker thread: Scheduler::run_loop. *)

\* An empty batch ends the loop only when stop() has cleared running_.
CheckRunning ==
    /\ worker = "empty"
    /\ worker' = IF running THEN "locking" ELSE "exited"
    /\ UNCHANGED <<queueVars, promise, client, controlVars, loopVars, statVars>>

\* The end of an iteration: its local variables go out of scope.
NextIteration ==
    /\ worker' = "locking"
    /\ drained' = <<>>
    /\ batch' = <<>>
    /\ row' = 1
    /\ output' = <<>>
    /\ exec_recorded' = FALSE

\* set_value and set_exception throw std::future_error on a promise that is
\* satisfied already.
Satisfied(r) == promise[r] # NoOutcome

SetPromise(r, outcome) == promise' = [promise EXCEPT ![r] = outcome]

\* An exception that leaves run_loop leaves the thread function: the process
\* ends in std::terminate.
Abort == worker' = "aborted" /\ UNCHANGED <<promise, loopVars>>

\* Mutant: the size check is gone.
ValidateNothing ==
    /\ worker = "validate"
    /\ row <= Len(drained)
    /\ batch' = Append(batch, drained[row])
    /\ row' = row + 1
    /\ UNCHANGED <<queueVars, promise, client, controlVars, worker, drained,
                   output, exec_recorded, statVars>>

\* The size check of one drained request: fail it at once, or keep it.
Validate ==
    /\ worker = "validate"
    /\ row <= Len(drained)
    /\ IF drained[row] \notin MisSized
       THEN /\ batch' = Append(batch, drained[row])
            /\ row' = row + 1
            /\ UNCHANGED <<promise, worker, drained, output, exec_recorded>>
       ELSE IF Satisfied(drained[row])
       THEN Abort
       ELSE /\ SetPromise(drained[row], Failure)
            /\ row' = row + 1
            /\ UNCHANGED <<batch, worker, drained, output, exec_recorded>>
    /\ UNCHANGED <<queueVars, client, controlVars, statVars>>

\* Mutant: a batch that has become empty is not skipped.
ValidatedWithoutSkip ==
    /\ worker = "validate"
    /\ row > Len(drained)
    /\ worker' = "count"
    /\ row' = 1
    /\ UNCHANGED <<queueVars, promise, client, controlVars, drained, batch,
                   output, exec_recorded, statVars>>

\* Every drained request has been looked at; go on unless none is left.
Validated ==
    /\ worker = "validate"
    /\ row > Len(drained)
    /\ IF batch = <<>>
       THEN NextIteration
       ELSE /\ worker' = "count"
            /\ row' = 1
            /\ UNCHANGED <<drained, batch, output, exec_recorded>>
    /\ UNCHANGED <<queueVars, promise, client, controlVars, statVars>>

\* The value counter c takes when a batch of n requests is counted; the
\* compare-exchange loops compute a maximum.
Counted(c, n) ==
    CASE c = "total_batches"       -> stats[c] + 1
      [] c = "total_requests"      -> stats[c] + n
      [] c = "max_batch_size_seen" -> IF n > stats[c] THEN n ELSE stats[c]
      [] c = "total_queue_wait"    -> stats[c] + n
      [] c = "max_queue_wait"      -> IF 1 > stats[c] THEN 1 ELSE stats[c]
      [] c = "total_exec"          -> stats[c] + 1

CountOne(c) == stats' = [stats EXCEPT ![c] = Counted(c, Len(batch))]

\* The counters updated before the engine call, one atomic at a time.  The
\* waits of a batch are added up and compared in one step per counter, not
\* request by request.
Count ==
    /\ worker = "count"
    /\ CountOne(Counters[row])
    /\ IF row < 5
       THEN row' = row + 1 /\ UNCHANGED worker
       ELSE row' = 1 /\ worker' = "run"
    /\ UNCHANGED <<queueVars, promise, client, controlVars, drained, batch,
                   output, exec_recorded, resetting>>

\* run_inference returns: row i of the output is computed from row i of the
\* input.  An output of the wrong size is turned into an exception.
EngineReturns ==
    /\ worker = "run"
    /\ CountOne("total_exec")
    /\ exec_recorded' = TRUE
    /\ output' \in {batch, SubSeq(batch, 1, Len(batch) - 1)}
    /\ worker' = IF Len(output') = Len(batch) THEN "resolve" ELSE "catch"
    /\ UNCHANGED <<queueVars, promise, client, controlVars, drained, batch, row, resetting>>

\* run_inference throws.
EngineThrows ==
    /\ worker = "run"
    /\ worker' = "catch"
    /\ UNCHANGED <<queueVars, promise, client, controlVars, loopVars, statVars>>

\* The last two loops of run_loop: on to the next row, or to the next batch.
NextRow ==
    IF row < Len(batch)
    THEN row' = row + 1 /\ UNCHANGED <<worker, drained, batch, output, exec_recorded>>
    ELSE NextIteration

\* Slice out row `row` and hand it to the request at that place of the batch.
ResolveRow ==
    /\ worker = "resolve"
    /\ IF Satisfied(batch[row])
       THEN worker' = "catch" /\ UNCHANGED <<promise, loopVars>>
       ELSE SetPromise(batch[row], output[row]) /\ NextRow
    /\ UNCHANGED <<queueVars, client, controlVars, statVars>>

\* result.logits.assign() cannot allocate: an exception inside the try block.
SliceThrows ==
    /\ MayExhaustMemory
    /\ worker = "resolve"
    /\ worker' = "catch"
    /\ UNCHANGED <<queueVars, promise, client, controlVars, loopVars, statVars>>

\* Mutant: the catch block counts the execution a second time.
CatchCountsAgain ==
    /\ worker = "catch"
    /\ CountOne("total_exec")
    /\ worker' = "fail"
    /\ row' = 1
    /\ UNCHANGED <<queueVars, promise, client, controlVars, drained, batch,
                   output, exec_recorded, resetting>>

\* The head of the catch block: account for the execution if nobody has.
Catch ==
    /\ worker = "catch"
    /\ IF exec_recorded THEN UNCHANGED stats ELSE CountOne("total_exec")
    /\ worker' = "fail"
    /\ row' = 1
    /\ UNCHANGED <<queueVars, promise, client, controlVars, drained, batch,
                   output, exec_recorded, resetting>>

\* The catch block's loop gives every request of the batch the exception;
\* nothing catches what it throws itself.
FailRow ==
    /\ worker = "fail"
    /\ IF Satisfied(batch[row])
       THEN Abort
       ELSE SetPromise(batch[row], Failure) /\ NextRow
    /\ UNCHANGED <<queueVars, client, controlVars, statVars>>
-----------------------------------------------------------------------------
\* reset_stats(): six stores, one at a time, by any thread.
ResetStats ==
    /\ Alive
    /\ MayReset
    /\ stats' = [stats EXCEPT ![Counters[resetting]] = 0]
    /\ resetting' = IF resetting < 6 THEN resetting + 1 ELSE 1
    /\ UNCHANGED <<queueVars, promise, client, controlVars, worker, loopVars>>

Worker ==
    \/ Park \/ ReturnEmpty \/ OpenWindow \/ Drain \/ WindowExpires
    \/ CheckRunning \/ Validate \/ Validated \/ Count
    \/ EngineReturns \/ EngineThrows \/ ResolveRow \/ SliceThrows
    \/ Catch \/ FailRow

Stop == Shutdown \/ NotifyAll \/ Join

Next ==
    \/ \E r \in Requests : Push(r) \/ NotifyOne(r) \/ GetResult(r)
    \/ Start \/ StopRunning \/ Stop
    \/ Worker \/ SpuriousWake
    \/ ResetStats

Spec == Init /\ [][Next]_vars

\* Every thread that is in the middle of a call goes on and the engine returns
\* or throws.  The window closes whatever wakes the worker meanwhile, because
\* wait_for computes its deadline once.  Nobody has to submit, to stop or to
\* reset.
Fairness ==
    /\ WF_vars(Start /\ control = "constructed")
    /\ WF_vars(Stop)
    /\ WF_vars(Worker)
    /\ SF_vars(WindowExpires)
    /\ \A r \in Requests : WF_vars(NotifyOne(r)) /\ WF_vars(GetResult(r))

FairSpec == Spec /\ Fairness
-----------------------------------------------------------------------------
(* Properties. *)

Accepted == {accepted[i] : i \in 1..Len(accepted)}

\* When the worker has left run_loop, and so whenever join() returns in
\* stop(), every request that submit() took has been answered: "requests
\* queued just before shutdown are still processed rather than silently
\* dropped".
ExitDrained ==
    worker = "exited" => \A r \in Accepted : promise[r] # NoOutcome

\* Nobody gets somebody else's row: a promise holds the output row computed
\* from its own request's input, or an exception, and a mis-sized request
\* always gets an exception.
OwnRow ==
    \A r \in Requests :
        /\ promise[r] \in {NoOutcome, Failure, r}
        /\ r \in MisSized => promise[r] # r

\* No wake-up is lost: while the worker waits although its predicate holds,
\* some thread has still to notify it.  push() and shutdown() both notify
\* after they unlock, so this is about what happens in between.
NoLostWakeup ==
    \/ worker = "parked" /\ (queue # <<>> \/ stop_requested)
    \/ worker = "window" /\ WindowFull
    => control = "flagged" \/ \E r \in Requests : client[r] = "notify"

\* As long as slicing does not throw, run_loop never sets a promise twice, so
\* no std::future_error ends the process.
WorkerSurvives == MayExhaustMemory \/ worker # "aborted"

\* The comment at the exception registration in module.cpp: "Engine/scheduler
\* failures arrive in Python as a catchable exception rather than an abort."
FailuresAreCatchable == worker # "aborted"

\* Between batches, and unless somebody resets them, the counters agree: every
\* well-sized request taken off the queue is in total_requests and has its
\* queue wait measured, and every counted batch, failed ones included, has its
\* execution measured, as run_loop's comment on both paths says.
CountersAgree ==
    (~MayReset /\ worker \in {"locking", "parked", "woken", "window", "exited"}) =>
        /\ stats["total_requests"] =
              Cardinality({i \in 1..(Len(accepted) - Len(queue)) : accepted[i] \notin MisSized})
        /\ stats["total_queue_wait"] = stats["total_requests"]
        /\ stats["total_exec"] = stats["total_batches"]
        /\ stats["max_batch_size_seen"] <= MaxBatchSize

\* All counter updates for a batch come before its last promise is set.  This
\* is what lets the server wait for its start-up probe, call reset_stats() and
\* rely on the counters staying zero until a client sends something.
CountersSettle ==
    [][(\A r \in Accepted : promise[r] # NoOutcome)
          => \A c \in CounterNames : stats'[c] <= stats[c]]_vars

\* The scheduler does what BatchService says: one outcome per accepted
\* request, bounded overtaking, nothing accepted after shutdown(), stop()
\* returning only when nothing is left.
Service ==
    INSTANCE BatchService WITH
        outcome <- promise,
        open    <- ~stop_requested,
        halted  <- control = "down"

ImplementsService == Service!SSpec

\* Every caller whose request was taken gets an answer.  Each calls once, so
\* this says that again and again nobody is left waiting.
EveryRequestAnswered ==
    []<>(\A r \in Requests : client[r] \notin {"notify", "waiting"})

\* A stop() that has begun returns, however often it is called.
StopReturns == []<>(control \notin {"cleared", "flagged", "joining"})
=============================================================================
