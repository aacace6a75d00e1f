------------------------------ MODULE Admission ------------------------------
(***************************************************************************)
(* The HTTP front of the server: the admission controller and its leases,  *)
(* the prediction admission middleware with its deadline, its disconnect   *)
(* watcher and its cleanup, the prediction route, and the thread pool that *)
(* makes the blocking native call (python/cuda_db/server: admission.py,    *)
(* routes.py, executor.py and the error handlers of app.py).               *)
(*                                                                         *)
(* Three kinds of threads take steps: the event loop, which runs the tasks *)
(* of all requests and switches between them only at an await; the         *)
(* executor's threads; and the thread that waits in _wait_until_drained.   *)
(* A stretch of event-loop code that touches what the other threads touch  *)
(* is split, and LoopFree keeps other tasks out of it.                     *)
(***************************************************************************)
EXTENDS Integers, Sequences, FiniteSets

CONSTANTS
    Requests,   \* the POST requests to a prediction path
    Abandoned,  \* those their client or the server may give up
    Capacity,   \* settings.max_inflight_requests
    Workers     \* settings.executor_workers

\* config.py accepts only positive limits.
ASSUME AdmissionAssumption ==
    /\ IsFiniteSet(Requests)
    /\ Abandoned \subseteq Requests
    /\ Capacity \in Nat \ {0}
    /\ Workers \in Nat \ {0}

VARIABLES
    inflight,   \* AdmissionController._inflight
    closed,     \* AdmissionController._closed
    drain,      \* where the thread in _wait_until_drained is
    ready,      \* app.state.ready, which /readyz reports
    lease,      \* the flags each request's AdmissionLease has set
    mw,         \* where each PredictionAdmissionMiddleware call is
    app,        \* where each app_task, and so the route, is
    work,       \* where each native call is
    outcome,    \* how each native call ended
    delivered,  \* has the event loop seen the native future done?
    started,    \* how many http.response.start messages have been sent
    expired,    \* has the request's deadline passed?
    hangup      \* who gave the request up: its client or the server

controllerVars == <<inflight, closed, drain, ready>>
taskVars       == <<mw, app, started, expired, hangup>>
workVars       == <<work, outcome, delivered>>
vars == <<controllerVars, lease, taskVars, workVars>>

Leases == SUBSET {"http_finished", "work", "work_finished", "released"}

Outcomes == {"ok", "inference_error", "other_error"}

TypeOK ==
    /\ inflight \in Nat
    /\ closed \in BOOLEAN
    /\ drain \in {"none", "checking", "parked", "over"}
    /\ ready \in BOOLEAN
    /\ lease \in [Requests -> Leases]
    /\ mw \in [Requests -> {"new", "refused", "reading", "waiting", "cancelling",
                            "responding", "finally", "releasing", "done"}]
    /\ app \in [Requests -> {"none", "created", "submitted", "awaiting", "sending",
                             "finished", "raised", "cancelled"}]
    /\ work \in [Requests -> {"none", "queued", "running", "finished", "releasing", "over"}]
    /\ outcome \in [Requests -> Outcomes \union {"none"}]
    /\ delivered \in [Requests -> BOOLEAN]
    /\ started \in [Requests -> Nat]
    /\ expired \in [Requests -> BOOLEAN]
    /\ hangup \in [Requests -> {"none", "client", "server"}]

\* AdmissionController.__init__ and AdmissionLease.__init__.
AdmissionInit ==
    /\ inflight = 0
    /\ closed = FALSE
    /\ drain = "none"
    /\ lease = [r \in Requests |-> {}]
    /\ mw = [r \in Requests |-> "new"]
    /\ app = [r \in Requests |-> "none"]
    /\ work = [r \in Requests |-> "none"]
    /\ outcome = [r \in Requests |-> "none"]
    /\ delivered = [r \in Requests |-> FALSE]
    /\ started = [r \in Requests |-> 0]
    /\ expired = [r \in Requests |-> FALSE]
    /\ hangup = [r \in Requests |-> "none"]

\* A server whose start-up has succeeded.
Init == AdmissionInit /\ ready = TRUE
-----------------------------------------------------------------------------
(* The controller. *)

\* No task is in the middle of a stretch that was split: between submit() and
\* attach_work(), or between the two locks of finish_http().
LoopFree == \A r \in Requests : app[r] # "submitted" /\ mw[r] # "releasing"

\* Mutant: the waiting thread is not notified.
NotifyNobody == UNCHANGED drain

\* _condition.notify_all(): wakes the thread in _wait_until_drained.
NotifyDrain == drain' = IF drain = "parked" THEN "checking" ELSE drain

\* AdmissionController._release.
Release == inflight' = inflight - 1 /\ NotifyDrain /\ UNCHANGED <<closed, ready>>

\* What both reactions to an InferenceError do: go unready, close admission.
EngineFailed == ready' = FALSE /\ closed' = TRUE /\ NotifyDrain /\ UNCHANGED inflight

\* Mutant: admission is drained but not closed.
BeginDrainOpen ==
    /\ LoopFree
    /\ drain = "none"
    /\ ready' = FALSE
    /\ drain' = "checking"
    /\ UNCHANGED <<inflight, closed, lease, taskVars, workVars>>

\* stop_runtime() up to its first await: unready, closed, then drain().
BeginDrain ==
    /\ LoopFree
    /\ drain = "none"
    /\ ready' = FALSE
    /\ closed' = TRUE
    /\ drain' = "checking"
    /\ UNCHANGED <<inflight, lease, taskVars, workVars>>

\* _wait_until_drained: wait_for evaluates its predicate under the lock.
DrainCheck ==
    /\ drain = "checking"
    /\ drain' = IF inflight = 0 THEN "over" ELSE "parked"
    /\ UNCHANGED <<inflight, closed, ready, lease, taskVars, workVars>>
-----------------------------------------------------------------------------
(* The middleware, up to the creation of its two tasks. *)

\* A response is started, whatever its status.
Respond(r) == started' = [started EXCEPT ![r] = @ + 1]

\* Mutant: the capacity test is off by one.
TryAcquireOneMore(r) ==
    /\ LoopFree
    /\ mw[r] = "new"
    /\ IF closed \/ inflight > Capacity
       THEN /\ mw' = [mw EXCEPT ![r] = "refused"]
            /\ Respond(r)
            /\ UNCHANGED inflight
       ELSE /\ mw' = [mw EXCEPT ![r] = "reading"]
            /\ inflight' = inflight + 1
            /\ UNCHANGED started
    /\ UNCHANGED <<closed, drain, ready, lease, app, expired, hangup, workVars>>

\* try_acquire(): 503 when it returns None.
TryAcquire(r) ==
    /\ LoopFree
    /\ mw[r] = "new"
    /\ IF closed \/ inflight >= Capacity
       THEN /\ mw' = [mw EXCEPT ![r] = "refused"]
            /\ Respond(r)
            /\ UNCHANGED inflight
       ELSE /\ mw' = [mw EXCEPT ![r] = "reading"]
            /\ inflight' = inflight + 1
            /\ UNCHANGED started
    /\ UNCHANGED <<closed, drain, ready, lease, app, expired, hangup, workVars>>

\* Time passes.
Expire(r) ==
    /\ mw[r] \in {"reading", "waiting"}
    /\ ~expired[r]
    /\ expired' = [expired EXCEPT ![r] = TRUE]
    /\ UNCHANGED <<controllerVars, lease, mw, app, started, hangup, workVars>>

RejectBody(r) ==
    /\ LoopFree
    /\ mw[r] = "reading"
    /\ Respond(r)
    /\ mw' = [mw EXCEPT ![r] = "responding"]
    /\ UNCHANGED <<controllerVars, lease, app, expired, hangup, workVars>>

\* The body, or its announced length, is too large: 413.
BodyTooLarge(r) == RejectBody(r)

\* The body is not complete at the deadline: 408.
BodyLate(r) == expired[r] /\ RejectBody(r)

\* The whole body has arrived: create app_task and disconnect_task.
BodyComplete(r) ==
    /\ LoopFree
    /\ mw[r] = "reading"
    /\ mw' = [mw EXCEPT ![r] = "waiting"]
    /\ app' = [app EXCEPT ![r] = "created"]
    /\ UNCHANGED <<controllerVars, lease, started, expired, hangup, workVars>>

\* http.disconnect arrives: _read_body returns, or disconnect_task finishes.
Disconnect(r) ==
    /\ r \in Abandoned
    /\ LoopFree
    /\ mw[r] \in {"reading", "waiting"}
    /\ hangup[r] = "none"
    /\ hangup' = [hangup EXCEPT ![r] = "client"]
    /\ mw' = IF mw[r] = "reading" THEN [mw EXCEPT ![r] = "finally"] ELSE mw
    /\ UNCHANGED <<controllerVars, lease, app, started, expired, workVars>>
-----------------------------------------------------------------------------
(* The route, in app_task.  Once the middleware has called cancel(), the   *)
(* next thing the task sees is CancelledError.                             *)

AppLive(r) == app[r] \in {"created", "awaiting", "sending"}

\* An invalid tensor is refused with 400 or 422, and a valid one whose deadline
\* has passed with 504.
RefuseInput(r) ==
    /\ LoopFree
    /\ mw[r] = "waiting"
    /\ app[r] = "created"
    /\ Respond(r)
    /\ app' = [app EXCEPT ![r] = "sending"]
    /\ UNCHANGED <<controllerVars, lease, mw, expired, hangup, workVars>>

\* executor.submit(runtime.predict, array).
Submit(r) ==
    /\ LoopFree
    /\ mw[r] = "waiting"
    /\ app[r] = "created"
    /\ ~expired[r]
    /\ app' = [app EXCEPT ![r] = "submitted"]
    /\ work' = [work EXCEPT ![r] = "queued"]
    /\ UNCHANGED <<controllerVars, lease, mw, started, expired, hangup, outcome, delivered>>

\* lease.attach_work(work), then await the shielded future.  If the call is
\* over already, add_done_callback runs _work_done at once, in this thread.
Attach(r) ==
    /\ app[r] = "submitted"
    /\ app' = [app EXCEPT ![r] = "awaiting"]
    /\ lease' = [lease EXCEPT ![r] =
                    @ \union IF work[r] = "finished" THEN {"work", "work_finished"} ELSE {"work"}]
    /\ work' = IF work[r] = "finished" THEN [work EXCEPT ![r] = "over"] ELSE work
    /\ UNCHANGED <<controllerVars, mw, started, expired, hangup, outcome, delivered>>

\* Mutant: nobody looks at a result that nobody waits for.
DeliverUnobserved(r) ==
    /\ LoopFree
    /\ "work" \in lease[r]
    /\ work[r] \in {"finished", "releasing", "over"}
    /\ ~delivered[r]
    /\ delivered' = [delivered EXCEPT ![r] = TRUE]
    /\ UNCHANGED <<controllerVars, lease, taskVars, work, outcome>>

\* The native future is done in the event loop: _finish_native_future, which
\* runs whether or not anybody still waits for the result.
Deliver(r) ==
    /\ LoopFree
    /\ "work" \in lease[r]
    /\ work[r] \in {"finished", "releasing", "over"}
    /\ ~delivered[r]
    /\ delivered' = [delivered EXCEPT ![r] = TRUE]
    /\ IF outcome[r] = "inference_error" THEN EngineFailed ELSE UNCHANGED controllerVars
    /\ UNCHANGED <<lease, taskVars, work, outcome>>

\* The route goes on: a result is started, an InferenceError goes to its handler,
\* anything else leaves app_task as an exception.
AppResumes(r) ==
    /\ LoopFree
    /\ mw[r] = "waiting"
    /\ app[r] = "awaiting"
    /\ delivered[r]
    /\ \/ /\ outcome[r] = "ok"
          /\ Respond(r)
          /\ app' = [app EXCEPT ![r] = "sending"]
          /\ UNCHANGED controllerVars
       \/ /\ outcome[r] = "inference_error"
          /\ EngineFailed
          /\ Respond(r)
          /\ app' = [app EXCEPT ![r] = "sending"]
       \/ /\ outcome[r] = "other_error"
          /\ app' = [app EXCEPT ![r] = "raised"]
          /\ UNCHANGED <<controllerVars, started>>
    /\ UNCHANGED <<lease, mw, expired, hangup, workVars>>

\* The response has been handed to the transport: app_task is done.
AppSent(r) ==
    /\ LoopFree
    /\ mw[r] = "waiting"
    /\ app[r] = "sending"
    /\ app' = [app EXCEPT ![r] = "finished"]
    /\ UNCHANGED <<controllerVars, lease, mw, started, expired, hangup, workVars>>

\* CancelledError reaches app_task and ends it.
AppCancelled(r) ==
    /\ LoopFree
    /\ mw[r] \in {"cancelling", "finally"}
    /\ AppLive(r)
    /\ app' = [app EXCEPT ![r] = "cancelled"]
    /\ UNCHANGED <<controllerVars, lease, mw, started, expired, hangup, workVars>>
-----------------------------------------------------------------------------
(* The executor's threads. *)

\* Threads inside a work item, its done callbacks included.
Busy == {r \in Requests : work[r] \in {"running", "finished", "releasing"}}

StartWork(r) ==
    /\ work[r] = "queued"
    /\ Cardinality(Busy) < Workers
    /\ work' = [work EXCEPT ![r] = "running"]
    /\ UNCHANGED <<controllerVars, lease, taskVars, outcome, delivered>>

\* runtime.predict returns or raises, and the future is set.
FinishWork(r) ==
    /\ work[r] = "running"
    /\ \E o \in Outcomes : outcome' = [outcome EXCEPT ![r] = o]
    /\ work' = [work EXCEPT ![r] = "finished"]
    /\ UNCHANGED <<controllerVars, lease, taskVars, delivered>>

\* Mutant: the lease relies on the HTTP side to come last.
WorkDoneKeepsPermit(r) ==
    /\ work[r] = "finished"
    /\ "work" \in lease[r]
    /\ lease' = [lease EXCEPT ![r] = @ \union {"work_finished"}]
    /\ work' = [work EXCEPT ![r] = "over"]
    /\ UNCHANGED <<controllerVars, taskVars, outcome, delivered>>

\* _work_done, under the lease's lock.
WorkDone(r) ==
    /\ work[r] = "finished"
    /\ "work" \in lease[r]
    /\ LET release == "http_finished" \in lease[r] /\ "released" \notin lease[r]
       IN  /\ lease' = [lease EXCEPT ![r] =
                    @ \union {"work_finished"} \union IF release THEN {"released"} ELSE {}]
           /\ work' = [work EXCEPT ![r] = IF release THEN "releasing" ELSE "over"]
    /\ UNCHANGED <<controllerVars, taskVars, outcome, delivered>>

\* _work_done's call of _release(), after the unlock.
WorkReleases(r) ==
    /\ work[r] = "releasing"
    /\ work' = [work EXCEPT ![r] = "over"]
    /\ Release
    /\ UNCHANGED <<lease, taskVars, outcome, delivered>>
-----------------------------------------------------------------------------
(* The middleware, from asyncio.wait on. *)

AppDone(r) == app[r] \in {"finished", "raised"}

\* asyncio.wait returns.  What is done is looked at now: app_task first, then
\* the disconnect; neither means the timeout.
WaitReturns(r) ==
    /\ LoopFree
    /\ mw[r] = "waiting"
    /\ AppDone(r) \/ hangup[r] = "client" \/ expired[r]
    /\ mw' = [mw EXCEPT ![r] = IF AppDone(r) THEN "finally" ELSE "cancelling"]
    /\ UNCHANGED <<controllerVars, lease, app, started, expired, hangup, workVars>>

\* Mutant: 504 although a response may be on its way.
AfterCancelAlways504(r) ==
    /\ LoopFree
    /\ mw[r] = "cancelling"
    /\ app[r] = "cancelled"
    /\ IF hangup[r] # "client"
       THEN Respond(r) /\ mw' = [mw EXCEPT ![r] = "responding"]
       ELSE mw' = [mw EXCEPT ![r] = "finally"] /\ UNCHANGED started
    /\ UNCHANGED <<controllerVars, lease, app, expired, hangup, workVars>>

\* app_task has acknowledged the cancellation: 504 unless the client has left
\* or a response is on its way.
AfterCancel(r) ==
    /\ LoopFree
    /\ mw[r] = "cancelling"
    /\ app[r] = "cancelled"
    /\ IF hangup[r] # "client" /\ started[r] = 0
       THEN Respond(r) /\ mw' = [mw EXCEPT ![r] = "responding"]
       ELSE mw' = [mw EXCEPT ![r] = "finally"] /\ UNCHANGED started
    /\ UNCHANGED <<controllerVars, lease, app, expired, hangup, workVars>>

\* The middleware's own response has been sent.
Responded(r) ==
    /\ LoopFree
    /\ mw[r] = "responding"
    /\ mw' = [mw EXCEPT ![r] = "finally"]
    /\ UNCHANGED <<controllerVars, lease, app, started, expired, hangup, workVars>>

\* The server cancels the middleware's task at an await.  While it waits for
\* a cancelled app_task, suppress(CancelledError) swallows the cancellation.
CancelTask(r) ==
    /\ r \in Abandoned
    /\ LoopFree
    /\ mw[r] \in {"reading", "responding", "waiting"}
    /\ mw' = [mw EXCEPT ![r] = "finally"]
    /\ hangup' = [hangup EXCEPT ![r] = "server"]
    /\ UNCHANGED <<controllerVars, lease, app, started, expired, workVars>>

\* The call returns and its locals go out of scope.  When it returns with an
\* exception of app_task, the error boundary of RequestLoggingMiddleware sends
\* 500 if no response has started.
Unwind(r) ==
    /\ mw' = [mw EXCEPT ![r] = "done"]
    /\ app' = [app EXCEPT ![r] = "none"]
    /\ expired' = [expired EXCEPT ![r] = FALSE]
    /\ IF app[r] = "raised" /\ hangup[r] # "server" /\ started[r] = 0
       THEN Respond(r)
       ELSE UNCHANGED started

\* Mutant: the permit goes with the HTTP task, native work or not.
FinishHttpFreesPermit(r) ==
    /\ LoopFree
    /\ mw[r] = "finally"
    /\ ~AppLive(r)
    /\ lease' = [lease EXCEPT ![r] = @ \union {"http_finished", "released"}]
    /\ mw' = [mw EXCEPT ![r] = "releasing"]
    /\ UNCHANGED <<controllerVars, app, expired, started, hangup, workVars>>

\* finish_http(), under the lease's lock, once app_task is over.
FinishHttp(r) ==
    /\ LoopFree
    /\ mw[r] = "finally"
    /\ ~AppLive(r)
    /\ LET release == /\ "work" \notin lease[r] \/ "work_finished" \in lease[r]
                      /\ "released" \notin lease[r]
       IN  /\ lease' = [lease EXCEPT ![r] =
                    @ \union {"http_finished"} \union IF release THEN {"released"} ELSE {}]
           /\ IF release
              THEN /\ mw' = [mw EXCEPT ![r] = "releasing"]
                   /\ UNCHANGED <<app, expired, started>>
              ELSE Unwind(r)
    /\ UNCHANGED <<controllerVars, hangup, workVars>>

\* finish_http()'s call of _release(), after the unlock.
HttpReleases(r) ==
    /\ mw[r] = "releasing"
    /\ Release
    /\ Unwind(r)
    /\ UNCHANGED <<lease, hangup, workVars>>
-----------------------------------------------------------------------------
\* The steps the program takes by itself ...
Serve(r) ==
    \/ BodyLate(r) \/ RefuseInput(r) \/ Submit(r) \/ Attach(r) \/ Deliver(r) \/ AppResumes(r)
    \/ AppSent(r) \/ AppCancelled(r)
    \/ StartWork(r) \/ FinishWork(r) \/ WorkDone(r) \/ WorkReleases(r)
    \/ WaitReturns(r) \/ AfterCancel(r) \/ Responded(r)
    \/ FinishHttp(r) \/ HttpReleases(r)

\* ... and those its clients and its host decide on.
Environment(r) ==
    \/ TryAcquire(r) \/ BodyTooLarge(r) \/ BodyComplete(r) \/ Disconnect(r) \/ CancelTask(r)

RequestStep(r) == Serve(r) \/ Environment(r) \/ Expire(r)

Next ==
    \/ \E r \in Requests : RequestStep(r)
    \/ BeginDrain \/ DrainCheck

Spec == Init /\ [][Next]_vars

\* Every task and every thread that can go on does, a native call returns or
\* raises, and time passes.  Clients need not send, and nobody has to shut the
\* server down.
Fairness ==
    /\ WF_vars(DrainCheck)
    /\ \A r \in Requests :
          /\ WF_vars(Serve(r))
          /\ WF_vars(Expire(r))

FairSpec == Spec /\ Fairness
-----------------------------------------------------------------------------
(* Properties. *)

HttpActive(r) ==
    mw[r] \in {"reading", "waiting", "cancelling", "responding", "finally", "releasing"}

WorkActive(r) == work[r] \in {"queued", "running"}

\* The requests whose permit has not been given back.
Holders ==
    {r \in Requests : /\ mw[r] \notin {"new", "refused"}
                      /\ "released" \notin lease[r] \/ mw[r] = "releasing" \/ work[r] = "releasing"}

\* Each lease accounts for one permit and gives it back once, although the
\* loop thread and an executor thread race to do so; no permit is given out
\* beyond the capacity, and _release() never raises.
PermitsAccounted ==
    /\ inflight = Cardinality(Holders)
    /\ inflight <= Capacity

\* The module's claim: what the capacity bounds is requests in any stage,
\* native calls that have outlived their HTTP task included.
WorkBounded ==
    Cardinality({r \in Requests : HttpActive(r) \/ WorkActive(r)}) <= Capacity

\* At most one response is started for a request, whichever of the route, the
\* deadline and the error boundary comes first; exactly one if the request is
\* over and neither the client nor the server gave it up.
OneResponse ==
    \A r \in Requests :
        /\ started[r] <= 1
        /\ mw[r] = "done" /\ hangup[r] = "none" => started[r] = 1

\* After drain() nothing is left and nothing can start: "an executor task
\* cannot submit after the scheduler has stopped" rests on this.
DrainedMeansIdle ==
    drain = "over" => closed /\ \A r \in Requests : ~HttpActive(r) /\ ~WorkActive(r)

\* README.md says of /readyz: "it returns 503 while draining or after an engine
\* failure".  A failed native call is what the server knows of one.
EngineFailureUnready ==
    \A r \in Requests : delivered[r] /\ outcome[r] # "ok" => ~ready

\* The liveness properties say that what must end is, again and again, over: a
\* request comes once, drain() is called once, and a failure stays a failure.

\* Its permit comes back.
PermitReturns == []<>(Holders = {})

\* An engine failure is noticed although nobody waits for the call any more.
LateFailureNoticed ==
    []<>(\A r \in Requests : outcome[r] = "inference_error" => closed /\ ~ready)
=============================================================================
