------------------------------- MODULE Runtime -------------------------------
(***************************************************************************)
(* InferenceRuntime, the object Python holds: predict() from executor      *)
(* threads, stats() from the event loop, and the three ways to stop it, of *)
(* which shutdown() releases the GIL and __exit__ and the destructor keep  *)
(* it while they join the worker.                                          *)
(*                                                                         *)
(* A thread that holds the GIL and is not waiting for another runs on at   *)
(* once; only then may time pass.                                          *)
(***************************************************************************)
EXTENDS BatchWindow

CONSTANTS
    OnnxBuild,  \* CUDA_DB_ENABLE_ONNX
    MaxStops,   \* bound: the calls of stop()
    MaxReads    \* bound: the calls of stats()

ASSUME RuntimeAssumption ==
    /\ OnnxBuild \in BOOLEAN
    /\ MaxStops \in Nat /\ MaxReads \in Nat

VARIABLES
    gil,       \* the thread that holds it
    caller,    \* where each predict() is
    request,   \* the id of each
    next_id,   \* next_request_id_
    age,       \* the time since each predict() was called, while it runs
    ahead,     \* how many requests were queued before its own
    returned,  \* what it returned
    main,      \* where the thread that made the runtime is
    engine,    \* engine_name_
    joined,    \* worker_ is not joinable any more
    stops, reads,
    snapshot   \* what stats() read: total_requests and queue_depth

pyVars == <<gil, caller, request, next_id, age, ahead, returned, main, engine, joined, stops, reads,
            snapshot>>
vars == <<queueVars, pyVars>>

Nobody == "nobody"
Main == "main"
NoSnapshot == [total |-> 0, depth |-> 0]
Free(thread) == gil \in {Nobody, thread}

Init ==
    /\ WindowInit
    /\ gil = Nobody
    /\ caller = [r \in Requests |-> "idle"]
    /\ request = [r \in Requests |-> 0] /\ next_id = 0
    /\ age = [r \in Requests |-> 0] /\ ahead = [r \in Requests |-> 0]
    /\ returned = [r \in Requests |-> Pending]
    /\ main = "new" /\ engine = "none" /\ joined = FALSE
    /\ stops = 0 /\ reads = 0 /\ snapshot = NoSnapshot

\* make_engine: without a model the stub, with one ONNX.
make_engine(model) == IF model THEN "onnx" ELSE "stub"

\* The constructor.  It throws for a model in a build without ONNX Runtime, or
\* one that cannot be loaded.
Construct(model) ==
    /\ main = "new"
    /\ \/ /\ model => OnnxBuild
          /\ engine' = make_engine(model)
          /\ main' = "open"
          /\ Start
       \/ /\ model
          /\ main' = "failed"
          /\ UNCHANGED <<queueVars, engine>>
    /\ UNCHANGED <<gil, caller, request, next_id, age, ahead, returned, joined, stops, reads,
                   snapshot>>
-----------------------------------------------------------------------------
(* predict(). *)

Goto(r, place) == caller' = [caller EXCEPT ![r] = place]
Leave(r, place) ==
    /\ Goto(r, place)
    /\ age' = [age EXCEPT ![r] = 0] /\ ahead' = [ahead EXCEPT ![r] = 0]
    /\ gil' = Nobody
UnchangedBut == UNCHANGED <<main, engine, joined, stops, reads, snapshot>>

Call(r) ==
    /\ caller[r] = "idle" /\ main \in {"open", "stopping", "closed"}
    /\ Goto(r, "entering")
    /\ UNCHANGED <<queueVars, gil, request, next_id, age, ahead, returned>> /\ UnchangedBut

\* Mutant: the GIL is kept while the result is awaited.
EnterKeepingGil(r) ==
    /\ caller[r] = "entering" /\ gil = Nobody
    /\ \/ /\ Leave(r, "raised")
          /\ UNCHANGED <<request, next_id>>
       \/ /\ request' = [request EXCEPT ![r] = next_id]
          /\ next_id' = next_id + 1
          /\ Goto(r, "submit")
          /\ gil' = r
          /\ UNCHANGED <<age, ahead>>
    /\ UNCHANGED <<queueVars, returned>> /\ UnchangedBut

\* With the GIL: an array of the wrong size is refused, another gets a request
\* and an id.  The GIL is then released.
Enter(r) ==
    /\ caller[r] = "entering" /\ gil = Nobody
    /\ \/ /\ Leave(r, "raised")
          /\ UNCHANGED <<request, next_id>>
       \/ /\ request' = [request EXCEPT ![r] = next_id]
          /\ next_id' = next_id + 1
          /\ Goto(r, "submit")
          /\ UNCHANGED <<gil, age, ahead>>
    /\ UNCHANGED <<queueVars, returned>> /\ UnchangedBut

\* submit(): queued, or refused by a queue that has been shut down.
Submit(r) ==
    /\ caller[r] = "submit"
    /\ \/ /\ Push(r, request[r])
          /\ ahead' = [ahead EXCEPT ![r] = Len(queue)]
          /\ Goto(r, "waiting")
       \/ /\ stop_requested
          /\ Goto(r, "refused")
          /\ UNCHANGED <<queueVars, ahead>>
    /\ UNCHANGED <<gil, request, next_id, age, returned>> /\ UnchangedBut

\* Mutant: the id is read back from the runtime.
ReturnLastId(r) ==
    /\ caller[r] = "waiting" /\ outcome[r] # Pending /\ Free(r)
    /\ returned' = [returned EXCEPT ![r] =
                      IF outcome[r] = Failure THEN Failure
                                              ELSE [outcome[r] EXCEPT !.id = next_id - 1]]
    /\ Leave(r, IF outcome[r] = Failure THEN "raised" ELSE "done")
    /\ UNCHANGED <<queueVars, request, next_id>> /\ UnchangedBut

\* The future is ready and the GIL taken again: the id kept in a local and the
\* output are returned, or the exception is raised.
Return(r) ==
    /\ caller[r] = "waiting" /\ outcome[r] # Pending /\ Free(r)
    /\ returned' = [returned EXCEPT ![r] =
                      IF outcome[r] = Failure THEN Failure
                                              ELSE [outcome[r] EXCEPT !.id = request[r]]]
    /\ Leave(r, IF outcome[r] = Failure THEN "raised" ELSE "done")
    /\ UNCHANGED <<queueVars, request, next_id>> /\ UnchangedBut

RaiseRefused(r) ==
    /\ caller[r] = "refused" /\ Free(r)
    /\ Leave(r, "raised")
    /\ UNCHANGED <<queueVars, request, next_id, returned>> /\ UnchangedBut
-----------------------------------------------------------------------------
(* stats() and stop(). *)

UnchangedCalls == UNCHANGED <<caller, request, next_id, age, ahead, returned, engine>>

\* stats() holds the GIL: the counters first, then the queue's size.
ReadCounters ==
    /\ main = "open" /\ gil = Nobody /\ reads < MaxReads
    /\ gil' = Main /\ reads' = reads + 1
    /\ snapshot' = [snapshot EXCEPT !.total = total]
    /\ main' = "stats"
    /\ UNCHANGED <<queueVars, joined, stops>> /\ UnchangedCalls

ReadDepth ==
    /\ main = "stats"
    /\ snapshot' = [snapshot EXCEPT !.depth = Len(queue)]
    /\ main' = "report"
    /\ UNCHANGED <<queueVars, gil, joined, stops, reads>> /\ UnchangedCalls

Report ==
    /\ main = "report"
    /\ snapshot' = NoSnapshot
    /\ gil' = Nobody
    /\ main' = "open"
    /\ UNCHANGED <<queueVars, joined, stops, reads>> /\ UnchangedCalls

Stop(holder) ==
    /\ gil = Nobody /\ stops < MaxStops
    /\ stops' = stops + 1
    /\ StopQueue
    /\ gil' = holder
    /\ UNCHANGED <<joined, reads, snapshot>> /\ UnchangedCalls

\* shutdown() releases the GIL around stop().
Shutdown == main \in {"open", "closed"} /\ main' = "stopping" /\ Stop(Nobody)

\* __exit__ does not.
ExitContext == main \in {"open", "closed"} /\ main' = "stopping" /\ Stop(Main)

\* Nor does the destructor, which runs when no caller has the runtime any more.
Delete ==
    /\ main \in {"open", "closed"}
    /\ \A r \in Requests : caller[r] \in {"idle", "done", "raised"}
    /\ main' = "deleting"
    /\ Stop(Main)

\* Mutant: the worker is joined without asking whether it is joinable.
JoinUnconditionally ==
    /\ main \in {"stopping", "deleting"} /\ worker = "exited" /\ ~joined /\ Free(Main)
    /\ joined' = TRUE
    /\ gil' = Nobody
    /\ main' = IF main = "deleting" THEN "deleted" ELSE "closed"
    /\ UNCHANGED <<queueVars, stops, reads, snapshot>> /\ UnchangedCalls

\* stop() returns once the worker has been joined, now or by an earlier stop().
Join ==
    /\ main \in {"stopping", "deleting"} /\ Free(Main)
    /\ joined \/ worker = "exited"
    /\ joined' = TRUE
    /\ gil' = Nobody
    /\ main' = IF main = "deleting" THEN "deleted" ELSE "closed"
    /\ UNCHANGED <<queueVars, stops, reads, snapshot>> /\ UnchangedCalls
-----------------------------------------------------------------------------
\* Mutant: the engine calls back into Python.
WorkerNeedsGil == Worker /\ (worker = "engine" => gil = Nobody) /\ UNCHANGED pyVars

WorkerStep == Worker /\ UNCHANGED pyVars

\* A thread that could go on at once.
Urgent ==
    \/ \E r \in Requests :
          \/ caller[r] = "entering" /\ gil = Nobody
          \/ caller[r] = "submit"
          \/ caller[r] = "waiting" /\ outcome[r] # Pending /\ Free(r)
          \/ caller[r] = "refused" /\ Free(r)
    \/ main \in {"stats", "report"}
    \/ main \in {"stopping", "deleting"} /\ worker = "exited" /\ Free(Main)

InPredict(r) == caller[r] \in {"entering", "submit", "waiting"}

Cap == Bound(Cardinality(Requests)) + 1

Tick ==
    /\ ~Urgent
    /\ Elapse
    /\ age' = [r \in Requests |-> IF InPredict(r) /\ age[r] < Cap THEN age[r] + 1 ELSE age[r]]
    /\ UNCHANGED <<gil, caller, request, next_id, ahead, returned, main, engine, joined, stops, reads,
                   snapshot>>

Predict(r) == Enter(r) \/ Submit(r) \/ Return(r) \/ RaiseRefused(r)

Next ==
    \/ \E model \in BOOLEAN : Construct(model)
    \/ \E r \in Requests : Call(r) \/ Predict(r)
    \/ ReadCounters \/ ReadDepth \/ Report
    \/ Shutdown \/ ExitContext \/ Delete \/ Join
    \/ WorkerStep \/ Tick

Spec == Init /\ [][Next]_vars

\* Threads that can run do, and time passes.
FairSpec ==
    /\ Spec
    /\ WF_vars(WorkerStep) /\ WF_vars(Tick) /\ WF_vars(ReadDepth \/ Report) /\ WF_vars(Join)
    /\ \A r \in Requests : WF_vars(Predict(r))
-----------------------------------------------------------------------------
(* Properties. *)

\* A predict() that returns gives the output computed from its own array and
\* the id its own request was queued under; no two have the same.
OwnAnswer ==
    \A r \in Requests : caller[r] = "done" =>
        /\ returned[r] = outcome[r] /\ returned[r].of = r
        /\ \A s \in Requests \ {r} : caller[s] = "done" => returned[s].id # returned[r].id

\* Until the runtime is stopped a predict() takes no longer than the batch in
\* the engine, the full batches ahead of it, one window and its own batch,
\* however requests arrive: the window is not prolonged by later arrivals, and
\* no caller waits for the GIL while another waits for its result.
LatencyBounded ==
    ~stop_requested => \A r \in Requests : InPredict(r) => age[r] <= Bound(ahead[r])

\* stats() counts no request twice: what it calls served and what it calls
\* queued are together no more than were submitted.
NoDoubleCount == snapshot.total + snapshot.depth <= next_id

\* Every predict() returns or raises, also while __exit__ or the destructor
\* holds the GIL and waits for the worker: each is called at most once here, so
\* again and again there is none left in progress.
EveryPredictReturns == []<>(\A r \in Requests : caller[r] \in {"idle", "done", "raised"})

\* "Idempotent": each stop() returns, also one that follows another.
EveryStopReturns == []<>(main \notin {"stopping", "deleting"})
=============================================================================
