----------------------------- MODULE BatchWindow -----------------------------
(***************************************************************************)
(* RequestQueue::wait_and_drain and Scheduler::run_loop with time: how     *)
(* long a request waits for company, and for the engine.  (Scheduler has   *)
(* every lock and notification of the same code, without time.)            *)
(*                                                                         *)
(* Time is discrete and passes when the worker has nothing to do at once:  *)
(* it is in one of the two waits of wait_and_drain, or in the engine,      *)
(* whose calls take at most MaxExec.                                       *)
(***************************************************************************)
EXTENDS Integers, Sequences, FiniteSets

CONSTANTS
    Requests,
    MaxBatchSize,  \* SchedulerConfig::max_batch_size
    MaxWait,       \* SchedulerConfig::max_wait
    MaxExec        \* bound: the time of an engine call

ASSUME WindowAssumption ==
    /\ IsFiniteSet(Requests) /\ {"pending", "failure"} \cap Requests = {}
    /\ MaxBatchSize \in Nat \ {0} /\ MaxWait \in Nat /\ MaxExec \in Nat

VARIABLES
    running, stop_requested,  \* Scheduler::running_, RequestQueue::stop_requested_
    queue,
    worker,   \* where run_loop is
    window,   \* the time left of wait_for
    exec,     \* the time left of the engine call
    batch,
    total,    \* total_requests_
    outcome   \* what each promise was given

queueVars == <<running, stop_requested, queue, worker, window, exec, batch, total, outcome>>

Pending == [of |-> "pending", id |-> 0]
Failure == [of |-> "failure", id |-> 0]
Answer(r, id) == [of |-> r, id |-> id]

WindowInit ==
    /\ running = FALSE /\ stop_requested = FALSE /\ queue = <<>>
    /\ worker = "none" /\ window = 0 /\ exec = 0 /\ batch = <<>> /\ total = 0
    /\ outcome = [r \in Requests |-> Pending]

Start ==
    /\ running' = TRUE
    /\ worker' = "phase1"
    /\ UNCHANGED <<stop_requested, queue, window, exec, batch, total, outcome>>

\* Mutant: a request is counted when it is submitted.
PushAndCount(r, id) ==
    /\ ~stop_requested
    /\ queue' = Append(queue, [of |-> r, id |-> id])
    /\ total' = total + 1
    /\ UNCHANGED <<running, stop_requested, worker, window, exec, batch, outcome>>

Push(r, id) ==
    /\ ~stop_requested
    /\ queue' = Append(queue, [of |-> r, id |-> id])
    /\ UNCHANGED <<running, stop_requested, worker, window, exec, batch, total, outcome>>

\* stop() up to the join.
StopQueue ==
    /\ running' = FALSE /\ stop_requested' = TRUE
    /\ UNCHANGED <<queue, worker, window, exec, batch, total, outcome>>

\* wait_and_drain, phase 1: the first request opens the window, which is timed
\* from here and not from the request's arrival; with nothing queued after
\* shutdown the worker leaves.
OpenWindow ==
    /\ worker = "phase1" /\ queue # <<>>
    /\ worker' = "window" /\ window' = MaxWait
    /\ UNCHANGED <<running, stop_requested, queue, exec, batch, total, outcome>>

Exit ==
    /\ worker = "phase1" /\ queue = <<>> /\ stop_requested /\ ~running
    /\ worker' = "exited"
    /\ UNCHANGED <<running, stop_requested, queue, window, exec, batch, total, outcome>>

WindowOver == Len(queue) >= MaxBatchSize \/ stop_requested \/ window = 0

\* Phase 2 ends: at most MaxBatchSize requests are taken, the oldest first, and
\* counted; the engine is called.
Drain ==
    LET n == IF Len(queue) < MaxBatchSize THEN Len(queue) ELSE MaxBatchSize IN
    /\ worker = "window" /\ WindowOver
    /\ batch' = SubSeq(queue, 1, n)
    /\ queue' = SubSeq(queue, n + 1, Len(queue))
    /\ total' = total + n
    /\ worker' = "engine" /\ window' = 0
    /\ exec' \in 0..MaxExec
    /\ UNCHANGED <<running, stop_requested, outcome>>

\* The engine returns, or throws and fails the whole batch.
EngineDone ==
    /\ worker = "engine" /\ exec = 0
    /\ \E failed \in BOOLEAN :
          outcome' = [r \in Requests |->
                        IF \E i \in 1..Len(batch) : batch[i].of = r
                        THEN IF failed THEN Failure
                             ELSE Answer(r, batch[CHOOSE i \in 1..Len(batch) : batch[i].of = r].id)
                        ELSE outcome[r]]
    /\ batch' = <<>>
    /\ worker' = "phase1"
    /\ UNCHANGED <<running, stop_requested, queue, window, exec, total>>

Worker == OpenWindow \/ Exit \/ Drain \/ EngineDone

\* The worker is in one of its waits.
Blocked ==
    \/ worker \in {"none", "exited"}
    \/ worker = "phase1" /\ queue = <<>> /\ ~stop_requested
    \/ worker = "window" /\ ~WindowOver
    \/ worker = "engine" /\ exec > 0

Elapse ==
    /\ Blocked
    /\ window' = IF worker = "window" THEN window - 1 ELSE window
    /\ exec' = IF worker = "engine" THEN exec - 1 ELSE exec
    /\ UNCHANGED <<running, stop_requested, queue, worker, batch, total, outcome>>

\* How long a request with this many ahead of it may take: the batch in the
\* engine, the full batches ahead of it, its own window and its own batch.
Bound(n) == MaxExec * (2 + n \div MaxBatchSize) + MaxWait
=============================================================================
