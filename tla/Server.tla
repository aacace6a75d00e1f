-------------------------------- MODULE Server --------------------------------
(***************************************************************************)
(* The life of the server process around Admission: the lifespan function  *)
(* of python/cuda_db/server/app.py, which loads the keys, builds the       *)
(* executor and the native runtime, runs the start-up probe, opens for     *)
(* business, and tears everything down again in stop_runtime; and the      *)
(* authentication middleware in front of admission.                        *)
(***************************************************************************)
EXTENDS Admission

CONSTANTS
    AuthRequired,  \* settings.auth_required
    Keyed          \* the requests that carry a key of the key store

ASSUME ServerAssumption ==
    /\ AuthRequired \in BOOLEAN
    /\ Keyed \subseteq Requests

VARIABLES
    phase,      \* where lifespan is
    listening,  \* has lifespan reached its yield, so that requests come in?
    keys,       \* does the authenticator hold digests?
    pool,       \* the executor
    runtime,    \* the native InferenceRuntime
    probe       \* the start-up probe's future

lifeVars == <<phase, listening, keys, pool, runtime, probe>>
serverVars == <<vars, lifeVars>>

ProbeDone == probe \in {"none", "good", "bad", "error"}

ServerInit ==
    /\ AdmissionInit
    /\ ready = FALSE
    /\ phase = "loading"
    /\ listening = FALSE
    /\ keys = FALSE
    /\ pool = "none"
    /\ runtime = "none"
    /\ probe = "none"
-----------------------------------------------------------------------------
(* Start-up. *)

\* The except clause, or the finally clause after the yield: stop_runtime.
TearDown == BeginDrain /\ phase' = "draining"

\* authenticator.load() and the model digest.
LoadKeys ==
    /\ phase = "loading"
    /\ \/ keys' = TRUE /\ phase' = "building" /\ UNCHANGED vars
       \/ TearDown /\ keys' \in BOOLEAN
    /\ UNCHANGED <<listening, pool, runtime, probe>>

\* make_executor, InferenceRuntime(...), the require_gpu check and the probe's
\* submission, with no await in between.
Build ==
    /\ phase = "building"
    /\ pool' = "up"
    /\ \/ runtime' = "up" /\ probe' = "queued" /\ phase' = "probing" /\ UNCHANGED vars
       \/ runtime' \in {"none", "up"} /\ UNCHANGED probe /\ TearDown
    /\ UNCHANGED <<listening, keys>>

ProbeStarts ==
    /\ probe = "queued"
    /\ probe' = "running"
    /\ UNCHANGED <<vars, phase, listening, keys, pool, runtime>>

\* predict() returns a usable output, returns one of the wrong size or with
\* values that are not finite, or raises.
ProbeEnds ==
    /\ probe = "running"
    /\ probe' \in {"good", "bad", "error"}
    /\ UNCHANGED <<vars, phase, listening, keys, pool, runtime>>

\* Mutant: any output will do.
ProbeAwaitedUnchecked ==
    /\ phase = "probing"
    /\ ProbeDone
    /\ IF probe # "error"
       THEN /\ ready' = TRUE
            /\ phase' = "serving"
            /\ listening' = TRUE
            /\ UNCHANGED <<inflight, closed, drain, lease, taskVars, workVars>>
       ELSE TearDown /\ UNCHANGED listening
    /\ UNCHANGED <<keys, pool, runtime, probe>>

\* Mutant: a probe that fails is not handled.
ProbeAwaitedForever ==
    /\ phase = "probing"
    /\ probe = "good"
    /\ ready' = TRUE
    /\ phase' = "serving"
    /\ listening' = TRUE
    /\ UNCHANGED <<inflight, closed, drain, lease, taskVars, workVars,
                   keys, pool, runtime, probe>>

\* The awaited probe is over: reset the counters and be ready, or fail.
ProbeAwaited ==
    /\ phase = "probing"
    /\ ProbeDone
    /\ IF probe = "good"
       THEN /\ ready' = TRUE
            /\ phase' = "serving"
            /\ listening' = TRUE
            /\ UNCHANGED <<inflight, closed, drain, lease, taskVars, workVars>>
       ELSE TearDown /\ UNCHANGED listening
    /\ UNCHANGED <<keys, pool, runtime, probe>>

\* Start-up is cancelled while it awaits the probe, which the shield keeps
\* running.
CancelStartup ==
    /\ phase = "probing"
    /\ TearDown
    /\ UNCHANGED <<listening, keys, pool, runtime, probe>>
-----------------------------------------------------------------------------
(* Serving: AuthenticationMiddleware, then everything Admission describes. *)

\* A request may come in from the yield on, also during stop_runtime.
Arriving(r) == mw[r] = "new" /\ listening /\ phase # "stopped"

Authenticated(r) == ~AuthRequired \/ (keys /\ r \in Keyed)

\* 401 before admission.
RefuseUnauthenticated(r) ==
    /\ Arriving(r)
    /\ LoopFree
    /\ ~Authenticated(r)
    /\ mw' = [mw EXCEPT ![r] = "refused"]
    /\ Respond(r)
    /\ UNCHANGED <<controllerVars, lease, app, expired, hangup, workVars, lifeVars>>

ServeRequest(r) ==
    /\ RequestStep(r)
    /\ mw[r] = "new" => Arriving(r) /\ Authenticated(r)
    /\ UNCHANGED lifeVars

DrainStep == DrainCheck /\ UNCHANGED lifeVars
-----------------------------------------------------------------------------
(* Shutdown. *)

\* The host ends the lifespan.
RequestShutdown ==
    /\ phase = "serving"
    /\ TearDown
    /\ UNCHANGED <<listening, keys, pool, runtime, probe>>

\* Mutant: the abandoned probe is forgotten.
JoinNothing ==
    /\ phase = "draining"
    /\ drain = "over"
    /\ phase' = "stopping"
    /\ UNCHANGED <<vars, listening, keys, pool, runtime, probe>>

\* drain() has returned; wait for a probe that start-up abandoned.
JoinProbe ==
    /\ phase = "draining"
    /\ drain = "over"
    /\ ProbeDone
    /\ phase' = "stopping"
    /\ UNCHANGED <<vars, listening, keys, pool, runtime, probe>>

\* runtime.shutdown() is called, if there is a runtime, and returns.
ShutdownRuntime ==
    /\ \/ /\ phase = "stopping"
          /\ runtime' = IF runtime = "up" THEN "stopping" ELSE runtime
          /\ phase' = "shutting"
       \/ /\ phase = "shutting"
          /\ runtime' = IF runtime = "stopping" THEN "down" ELSE runtime
          /\ phase' = "closing"
    /\ UNCHANGED <<vars, listening, keys, pool, probe>>

\* executor.shutdown(True) waits for the threads; then authenticator.clear().
CloseExecutor ==
    /\ phase = "closing"
    /\ \A r \in Requests : work[r] \in {"none", "over"}
    /\ pool' = IF pool = "up" THEN "down" ELSE pool
    /\ keys' = FALSE
    /\ phase' = "stopped"
    /\ UNCHANGED <<vars, listening, runtime, probe>>
-----------------------------------------------------------------------------
Lifespan ==
    \/ LoadKeys \/ Build \/ ProbeStarts \/ ProbeEnds \/ ProbeAwaited
    \/ DrainStep \/ JoinProbe \/ ShutdownRuntime \/ CloseExecutor

ServerNext ==
    \/ Lifespan \/ CancelStartup \/ RequestShutdown
    \/ \E r \in Requests : ServeRequest(r) \/ RefuseUnauthenticated(r)

ServerSpec == ServerInit /\ [][ServerNext]_serverVars

\* As in Admission; the probe returns and lifespan goes on.
ServerFairness ==
    /\ WF_serverVars(Lifespan)
    /\ \A r \in Requests :
          /\ WF_serverVars(Serve(r) /\ UNCHANGED lifeVars)
          /\ WF_serverVars(Expire(r) /\ UNCHANGED lifeVars)

FairServerSpec == ServerSpec /\ ServerFairness
-----------------------------------------------------------------------------
(* Properties. *)

\* The scheduler is stopped only when no native call is left that could still
\* submit to it, the start-up probe included: architecture.md's "so an executor
\* task cannot submit after the scheduler has stopped".
NoCallOnStopped ==
    runtime \in {"stopping", "down"} =>
        ProbeDone /\ \A r \in Requests : ~WorkActive(r)

\* /readyz answers 200 only after the probe has passed, while everything is up
\* and admission is open.
ReadyMeansServing ==
    ready => /\ phase = "serving"
             /\ probe = "good"
             /\ runtime = "up" /\ pool = "up"
             /\ ~closed

\* A shutdown, or a failed start-up, comes to its end: the lifespan is not for
\* ever on the way to "stopped".
ShutdownCompletes == []<>(phase \notin {"draining", "stopping", "shutting", "closing"})

\* Start-up comes to a decision.
StartupDecides == []<>(phase \notin {"loading", "building", "probing"})
=============================================================================
