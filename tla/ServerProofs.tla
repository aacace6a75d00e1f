---------------------------- MODULE ServerProofs ----------------------------
(***************************************************************************)
(* For any number of requests, capacity, executor threads and keys.        *)
(*                                                                         *)
(* First Admission by itself: permits are accounted for, work is bounded   *)
(* by the capacity, what drain() promises holds, and no request is         *)
(* answered twice.  The inductive invariant relates, for each request, its *)
(* lease, its middleware call, its application task and its native call    *)
(* (LeaseInv), and what it has been sent so far (ResponseInv).  Each       *)
(* action is shown to keep these, and to change the set of permit holders  *)
(* exactly as it changes the count.                                        *)
(*                                                                         *)
(* Then the server around it: the scheduler is stopped only when no native *)
(* call is left, readiness means what it says, and the guarantees of       *)
(* Admission hold in the whole server, through start-up, authentication    *)
(* and shutdown.  The lifespan's own invariant (LifeInv) says what is up   *)
(* in each phase.  Two of its clauses reach into Admission: before the     *)
(* yield no request has come in, so nothing can have closed admission      *)
(* behind start-up's back; and past drain() there is no permit out, which  *)
(* AInv turns into "no native call".                                       *)
(***************************************************************************)
EXTENDS Server, FiniteSetTheorems, TLAPS


\* A permit is released by whoever comes second of finish_http() and
\* _work_done(), and native work exists only for an admitted request.
LeaseInv(r) ==
    /\ mw[r] \in {"new", "refused", "reading"} =>
          app[r] = "none" /\ work[r] = "none" /\ "work" \notin lease[r]
    /\ "http_finished" \in lease[r] <=> mw[r] \in {"releasing", "done"}
    /\ "released" \in lease[r] =>
          mw[r] \in {"releasing", "done"} /\ work[r] \in {"none", "releasing", "over"}
    /\ mw[r] = "releasing" => "released" \in lease[r] /\ work[r] # "releasing"
    /\ work[r] = "releasing" => "released" \in lease[r] /\ mw[r] = "done"
    /\ "work_finished" \in lease[r] => work[r] \in {"releasing", "over"}
    /\ work[r] # "none" /\ "work" \notin lease[r] => app[r] = "submitted"
    /\ app[r] = "submitted" =>
          /\ mw[r] = "waiting" /\ "work" \notin lease[r]
          /\ work[r] \in {"queued", "running", "finished"}
    /\ app[r] = "created" => work[r] = "none" /\ "work" \notin lease[r]

\* What has been sent, by where the request is.
ResponseInv(r) ==
    /\ started[r] \in {0, 1}
    /\ mw[r] \in {"new", "reading"} => started[r] = 0
    /\ mw[r] = "responding" => started[r] = 1
    /\ app[r] \in {"created", "submitted", "awaiting", "raised"} => started[r] = 0
    /\ app[r] \in {"sending", "finished"} => started[r] = 1
    /\ mw[r] \in {"finally", "releasing"} /\ hangup[r] = "none" =>
          started[r] = 1 \/ app[r] = "raised"
    /\ mw[r] = "done" /\ hangup[r] = "none" => started[r] = 1

RequestInv == \A r \in Requests : LeaseInv(r) /\ ResponseInv(r)

ControllerInv ==
    /\ PermitsAccounted
    /\ drain # "none" => closed
    /\ drain = "over" => inflight = 0

AInv == TypeOK /\ RequestInv /\ ControllerInv

\* A step of r leaves the other requests alone ...
Local(r) ==
    \A s \in Requests \ {r} :
        /\ lease'[s] = lease[s] /\ mw'[s] = mw[s] /\ app'[s] = app[s]
        /\ work'[s] = work[s] /\ started'[s] = started[s] /\ hangup'[s] = hangup[s]

\* ... and takes a permit, gives one back, or does neither.
Held(r) ==
    /\ mw[r] \notin {"new", "refused"}
    /\ "released" \notin lease[r] \/ mw[r] = "releasing" \/ work[r] = "releasing"

PermitEffect(r) ==
    \/ inflight' = inflight /\ (Held(r)' <=> Held(r))
    \/ ~closed /\ inflight < Capacity /\ inflight' = inflight + 1 /\ ~Held(r) /\ Held(r)'
    \/ inflight' = inflight - 1 /\ Held(r) /\ ~Held(r)'

\* What each action of a request keeps.
Kept(r) == LeaseInv(r)' /\ ResponseInv(r)' /\ Local(r) /\ PermitEffect(r)

\* Every action keeps the types, given that the permits stay accounted for.
LEMMA TypesKept == TypeOK /\ [Next]_vars /\ inflight' \in Nat => TypeOK'
<1> USE DEF TypeOK
<1> SUFFICES ASSUME TypeOK, [Next]_vars, inflight' \in Nat PROVE TypeOK'
    OBVIOUS
<1>1. CASE UNCHANGED vars
    BY <1>1 DEF vars, controllerVars, taskVars, workVars
<1>2. CASE BeginDrain \/ DrainCheck
    BY <1>2, ZenonT(30) DEF BeginDrain, DrainCheck, taskVars, workVars
<1>3. ASSUME NEW r \in Requests, RequestStep(r) PROVE TypeOK'
  <2> USE DEF controllerVars, taskVars, workVars
  <2>1. CASE TryAcquire(r)
      BY <2>1 DEF TryAcquire, Respond
  <2>2. CASE BodyTooLarge(r) \/ BodyLate(r) \/ BodyComplete(r)
      BY <2>2 DEF BodyTooLarge, BodyLate, RejectBody, Respond, BodyComplete
  <2>3. CASE Disconnect(r)
      BY <2>3 DEF Disconnect
  <2>13. CASE CancelTask(r)
      BY <2>13 DEF CancelTask
  <2>15. CASE Expire(r)
      BY <2>15 DEF Expire
  <2>4. CASE RefuseInput(r) \/ Submit(r) \/ AppSent(r) \/ AppCancelled(r)
      BY <2>4 DEF RefuseInput, Submit, AppSent, AppCancelled, Respond
  <2>5. CASE Attach(r)
      BY <2>5 DEF Attach, Leases
  <2>6. CASE Deliver(r)
      BY <2>6, Zenon DEF Deliver, EngineFailed, NotifyDrain
  <2>7. CASE AppResumes(r)
    <3>1. CASE outcome[r] = "ok"
        BY <2>7, <3>1 DEF AppResumes, Respond
    <3>2. CASE outcome[r] = "inference_error"
      <4>1. /\ closed' \in BOOLEAN /\ ready' \in BOOLEAN
            /\ drain' \in {"none", "checking", "parked", "over"}
          BY <2>7, <3>2, Zenon DEF AppResumes, EngineFailed, NotifyDrain
      <4>2. /\ started' = [started EXCEPT ![r] = @ + 1]
            /\ app' = [app EXCEPT ![r] = "sending"]
          BY <2>7, <3>2 DEF AppResumes, Respond
      <4>. QED
          BY <2>7, <4>1, <4>2 DEF AppResumes
    <3>3. CASE outcome[r] = "other_error"
        BY <2>7, <3>3 DEF AppResumes
    <3>. QED
        BY <2>7, <3>1, <3>2, <3>3 DEF AppResumes
  <2>8. CASE StartWork(r) \/ FinishWork(r)
      BY <2>8 DEF StartWork, FinishWork, Outcomes
  <2>9. CASE WorkDone(r)
      BY <2>9 DEF WorkDone, Leases
  <2>10. CASE WorkReleases(r)
      BY <2>10 DEF WorkReleases, Release, NotifyDrain
  <2>14. CASE HttpReleases(r)
    <3>1. started' \in [Requests -> Nat]
        BY <2>14 DEF HttpReleases, Unwind, Respond
    <3>. QED
        BY <2>14, <3>1, Zenon DEF HttpReleases, Release, NotifyDrain, Unwind
  <2>11. CASE WaitReturns(r) \/ AfterCancel(r) \/ Responded(r)
      BY <2>11 DEF WaitReturns, AfterCancel, Responded, Respond
  <2>12. CASE FinishHttp(r)
    <3>1. started' \in [Requests -> Nat]
        BY <2>12 DEF FinishHttp, Unwind, Respond
    <3>2. lease' \in [Requests -> Leases]
        BY <2>12 DEF FinishHttp, Leases
    <3>3. /\ mw' = [mw EXCEPT ![r] = "releasing"] \/ mw' = [mw EXCEPT ![r] = "done"]
          /\ app' = app \/ app' = [app EXCEPT ![r] = "none"]
          /\ expired' = expired \/ expired' = [expired EXCEPT ![r] = FALSE]
        BY <2>12 DEF FinishHttp, Unwind
    <3>4. /\ mw' \in [Requests -> {"new", "refused", "reading", "waiting", "cancelling",
                                   "responding", "finally", "releasing", "done"}]
          /\ app' \in [Requests -> {"none", "created", "submitted", "awaiting", "sending",
                                    "finished", "raised", "cancelled"}]
          /\ expired' \in [Requests -> BOOLEAN]
      <4>1. mw' \in [Requests -> {"new", "refused", "reading", "waiting", "cancelling",
                                  "responding", "finally", "releasing", "done"}]
          BY <3>3
      <4>2. app' \in [Requests -> {"none", "created", "submitted", "awaiting", "sending",
                                   "finished", "raised", "cancelled"}]
          BY <3>3
      <4>3. expired' \in [Requests -> BOOLEAN]
          BY <3>3, Zenon
      <4>. QED
          BY <4>1, <4>2, <4>3
    <3>5. UNCHANGED <<closed, drain, ready, work, outcome, delivered, hangup>>
        BY <2>12 DEF FinishHttp
    <3>. QED
        BY <3>1, <3>2, <3>4, <3>5
  <2>. QED
      BY <1>3, <2>1, <2>2, <2>3, <2>4, <2>5, <2>6, <2>7, <2>8, <2>9, <2>10, <2>11, <2>12, <2>13, <2>14, <2>15, SMTT(30)
         DEF RequestStep, Serve, Environment
<1>. QED
    BY <1>1, <1>2, <1>3 DEF Next

\* finish_http() keeps the permit while native work is not over; otherwise it
\* marks the lease released and is the only one to do so.
LEMMA FinishHttpKeeps ==
    ASSUME TypeOK, NEW r \in Requests, LeaseInv(r), ResponseInv(r), FinishHttp(r)
    PROVE  Kept(r)
<1> DEFINE release == /\ "work" \notin lease[r] \/ "work_finished" \in lease[r]
                      /\ "released" \notin lease[r]
<1>1. /\ mw[r] = "finally" /\ app[r] \notin {"created", "submitted", "awaiting", "sending"}
      /\ work' = work /\ inflight' = inflight /\ hangup' = hangup
    BY DEF FinishHttp, AppLive, LoopFree, controllerVars, workVars
<1>2. lease'[r] = lease[r] \union {"http_finished"} \union IF release THEN {"released"} ELSE {}
    BY DEF FinishHttp, TypeOK
<1>3. Local(r)
  <2>1. \A s \in Requests \ {r} : lease'[s] = lease[s] /\ mw'[s] = mw[s]
      BY DEF FinishHttp, Unwind, TypeOK
  <2>2. \A s \in Requests \ {r} : app'[s] = app[s] /\ started'[s] = started[s]
      BY DEF FinishHttp, Unwind, Respond, TypeOK
  <2>. QED
      BY <1>1, <2>1, <2>2 DEF Local
<1>4. CASE release
  <2>1. mw'[r] = "releasing" /\ app' = app /\ started' = started
      BY <1>4 DEF FinishHttp, TypeOK
  <2>2. LeaseInv(r)'
      BY <1>1, <1>2, <1>4, <2>1 DEF LeaseInv
  <2>3. ResponseInv(r)'
      BY <1>1, <2>1 DEF ResponseInv
  <2>4. PermitEffect(r)
      BY <1>1, <1>2, <1>4, <2>1 DEF PermitEffect, Held
  <2>. QED
      BY <1>3, <2>2, <2>3, <2>4 DEF Kept
<1>5. CASE ~release
  <2>1. mw'[r] = "done" /\ app'[r] = "none"
      BY <1>5 DEF FinishHttp, Unwind, TypeOK
  <2>2. lease'[r] = lease[r] \union {"http_finished"}
      BY <1>2, <1>5
  <2>3. "released" \notin lease[r] /\ work[r] # "releasing"
      BY <1>1 DEF LeaseInv
  <2>4. LeaseInv(r)'
      BY <1>1, <1>5, <2>1, <2>2, <2>3 DEF LeaseInv
  <2>5. started'[r] = IF app[r] = "raised" /\ hangup[r] # "server" /\ started[r] = 0
                      THEN started[r] + 1 ELSE started[r]
      BY <1>5 DEF FinishHttp, Unwind, Respond, TypeOK
  <2>6. ResponseInv(r)'
      BY <1>1, <2>1, <2>5 DEF ResponseInv
  <2>7. PermitEffect(r)
      BY <1>1, <2>1, <2>2, <2>3 DEF PermitEffect, Held
  <2>. QED
      BY <1>3, <2>4, <2>6, <2>7 DEF Kept
<1>. QED
    BY <1>4, <1>5

\* Its call of _release() gives the permit back, and the call returns.
LEMMA HttpReleasesKeeps ==
    ASSUME TypeOK, NEW r \in Requests, LeaseInv(r), ResponseInv(r), HttpReleases(r)
    PROVE  Kept(r)
<1>1. /\ mw[r] = "releasing" /\ mw'[r] = "done" /\ app'[r] = "none"
      /\ lease' = lease /\ work' = work /\ hangup' = hangup /\ inflight' = inflight - 1
    BY DEF HttpReleases, Unwind, Release, TypeOK, workVars
<1>2. Local(r)
  <2>1. \A s \in Requests \ {r} : mw'[s] = mw[s] /\ app'[s] = app[s] /\ started'[s] = started[s]
      BY DEF HttpReleases, Unwind, Respond, TypeOK
  <2>. QED
      BY <1>1, <2>1 DEF Local
<1>3. LeaseInv(r)'
    BY <1>1 DEF LeaseInv
<1>4. started'[r] = IF app[r] = "raised" /\ hangup[r] # "server" /\ started[r] = 0
                    THEN started[r] + 1 ELSE started[r]
    BY SMTT(30) DEF HttpReleases, Unwind, Respond, TypeOK
<1>5. ResponseInv(r)'
  <2>0. started[r] = 0 \/ started[r] = 1
      BY DEF ResponseInv
  <2>1. started'[r] \in {0, 1}
      BY <1>4, <2>0, SMTT(30)
  <2>a. hangup[r] = "none" => started[r] = 1 \/ (started[r] = 0 /\ app[r] = "raised")
      BY <1>1 DEF ResponseInv
  <2>2. hangup[r] = "none" => started'[r] = 1
      BY <1>4, <2>a, SMTT(30)
  <2>. QED
      BY <1>1, <2>1, <2>2 DEF ResponseInv
<1>6. PermitEffect(r)
    BY <1>1 DEF PermitEffect, Held, LeaseInv
<1>. QED
    BY <1>2, <1>3, <1>5, <1>6 DEF Kept

\* Every action of a request keeps its invariants.
LEMMA RequestKeeps ==
    ASSUME TypeOK, RequestInv, NEW r \in Requests, RequestStep(r)
    PROVE  Kept(r)
<1>0. LeaseInv(r) /\ ResponseInv(r)
    BY DEF RequestInv
<1> USE DEF controllerVars, taskVars, workVars, LoopFree
<1>1. CASE TryAcquire(r)
  <2>0. started[r] = 0
      BY <1>0, <1>1 DEF TryAcquire, ResponseInv
  <2>1. /\ mw[r] = "new"
        /\ lease' = lease /\ app' = app /\ work' = work /\ hangup' = hangup
        /\ \/ mw'[r] = "refused" /\ started'[r] = 1
           \/ mw'[r] = "reading" /\ started' = started
      BY <1>1, <2>0 DEF TryAcquire, Respond, TypeOK
  <2>a. \/ mw'[r] = "refused" /\ inflight' = inflight
        \/ mw'[r] = "reading" /\ ~closed /\ inflight < Capacity /\ inflight' = inflight + 1
      BY <1>1, AdmissionAssumption, SMTT(30) DEF TryAcquire, TypeOK
  <2>b. app[r] = "none"
      BY <1>0, <2>1 DEF LeaseInv
  <2>2. LeaseInv(r)'
      BY <1>0, <2>1 DEF LeaseInv
  <2>3. ResponseInv(r)'
      BY <2>0, <2>1, <2>b DEF ResponseInv
  <2>4. Local(r)
      BY <1>1, SMTT(30) DEF TryAcquire, Respond, TypeOK, Local
  <2>5. PermitEffect(r)
      BY <1>0, <2>1, <2>a, SMTT(30) DEF PermitEffect, Held, LeaseInv
  <2>. QED
      BY <2>2, <2>3, <2>4, <2>5 DEF Kept
<1>2. CASE RejectBody(r)
  <2>0. started[r] = 0
      BY <1>0, <1>2, Zenon DEF RejectBody, ResponseInv
  <2>1. /\ mw[r] = "reading" /\ mw'[r] = "responding"
        /\ started'[r] = 1
        /\ lease' = lease /\ app' = app /\ work' = work /\ hangup' = hangup /\ inflight' = inflight
      BY <1>2, <2>0 DEF RejectBody, Respond, TypeOK
  <2>a. app[r] = "none"
      BY <1>0, <2>1 DEF LeaseInv
  <2>2. LeaseInv(r)'
      BY <1>0, <2>1 DEF LeaseInv
  <2>3. ResponseInv(r)'
      BY <2>1, <2>a DEF ResponseInv
  <2>4. Local(r)
      BY <1>2 DEF RejectBody, Respond, TypeOK, Local
  <2>b. Held(r)' <=> Held(r)
      BY <1>0, <2>1 DEF Held, LeaseInv
  <2>5. PermitEffect(r)
      BY <2>1, <2>b DEF PermitEffect
  <2>. QED
      BY <2>2, <2>3, <2>4, <2>5 DEF Kept
<1>3. CASE BodyComplete(r)
  <2>1. /\ mw[r] = "reading" /\ mw'[r] = "waiting" /\ app'[r] = "created"
        /\ lease' = lease /\ work' = work /\ started' = started /\ hangup' = hangup
        /\ inflight' = inflight
      BY <1>3 DEF BodyComplete, TypeOK
  <2>2. LeaseInv(r)'
      BY <1>0, <2>1 DEF LeaseInv
  <2>3. ResponseInv(r)'
      BY <1>0, <2>1 DEF ResponseInv
  <2>4. Local(r)
      BY <1>3 DEF BodyComplete, TypeOK, Local
  <2>b. Held(r)' <=> Held(r)
      BY <1>0, <2>1 DEF Held, LeaseInv
  <2>5. PermitEffect(r)
      BY <2>1, <2>b DEF PermitEffect
  <2>. QED
      BY <2>2, <2>3, <2>4, <2>5 DEF Kept
<1>4. CASE Disconnect(r)
  <2>1. /\ (mw[r] = "reading" /\ mw'[r] = "finally") \/ (mw[r] = "waiting" /\ mw'[r] = "waiting")
        /\ hangup'[r] = "client" /\ app[r] # "submitted"
        /\ lease' = lease /\ app' = app /\ work' = work /\ started' = started
        /\ inflight' = inflight
      BY <1>4 DEF Disconnect, TypeOK
  <2>2. LeaseInv(r)'
      BY <1>0, <2>1, ZenonT(30) DEF LeaseInv
  <2>3. ResponseInv(r)'
      BY <1>0, <2>1 DEF ResponseInv, LeaseInv
  <2>4. Local(r)
      BY <1>4, SMTT(30) DEF Disconnect, TypeOK, Local
  <2>b. Held(r)' <=> Held(r)
      BY <1>0, <2>1 DEF Held, LeaseInv
  <2>5. PermitEffect(r)
      BY <2>1, <2>b DEF PermitEffect
  <2>. QED
      BY <2>2, <2>3, <2>4, <2>5 DEF Kept
<1>5. CASE CancelTask(r)
  <2>1. /\ mw[r] \in {"reading", "responding", "waiting"} /\ mw'[r] = "finally"
        /\ hangup'[r] = "server" /\ app[r] # "submitted"
        /\ lease' = lease /\ app' = app /\ work' = work /\ started' = started
        /\ inflight' = inflight
      BY <1>5 DEF CancelTask, TypeOK
  <2>2. LeaseInv(r)'
      BY <1>0, <2>1 DEF LeaseInv
  <2>3. ResponseInv(r)'
      BY <1>0, <2>1 DEF ResponseInv, LeaseInv
  <2>4. Local(r)
      BY <1>5, SMTT(30) DEF CancelTask, TypeOK, Local
  <2>b. Held(r)' <=> Held(r)
      BY <1>0, <2>1, SMTT(30) DEF Held, LeaseInv
  <2>5. PermitEffect(r)
      BY <2>1, <2>b DEF PermitEffect
  <2>. QED
      BY <2>2, <2>3, <2>4, <2>5 DEF Kept
<1>6. CASE Expire(r)
  <2>1. /\ mw' = mw /\ lease' = lease /\ app' = app /\ work' = work /\ started' = started
        /\ hangup' = hangup /\ inflight' = inflight
      BY <1>6 DEF Expire, TypeOK
  <2>2. LeaseInv(r)'
      BY <1>0, <2>1 DEF LeaseInv
  <2>3. ResponseInv(r)'
      BY <1>0, <2>1 DEF ResponseInv
  <2>4. Local(r)
      BY <1>6, SMTT(30) DEF Expire, TypeOK, Local
  <2>b. Held(r)' <=> Held(r)
      BY <1>0, <2>1 DEF Held, LeaseInv
  <2>5. PermitEffect(r)
      BY <2>1, <2>b, SMTT(30) DEF PermitEffect
  <2>. QED
      BY <2>2, <2>3, <2>4, <2>5 DEF Kept
<1>7. CASE RefuseInput(r)
  <2>0. started[r] = 0
      BY <1>0, <1>7 DEF RefuseInput, ResponseInv
  <2>1. /\ mw[r] = "waiting" /\ app[r] = "created" /\ app'[r] = "sending"
        /\ started'[r] = 1
        /\ lease' = lease /\ mw' = mw /\ work' = work /\ hangup' = hangup /\ inflight' = inflight
      BY <1>7, <2>0 DEF RefuseInput, Respond, TypeOK
  <2>2. LeaseInv(r)'
      BY <1>0, <2>1 DEF LeaseInv
  <2>3. ResponseInv(r)'
      BY <1>0, <2>1, Zenon DEF ResponseInv
  <2>4. Local(r)
      BY <1>7 DEF RefuseInput, Respond, TypeOK, Local
  <2>b. Held(r)' <=> Held(r)
      BY <1>0, <2>1 DEF Held, LeaseInv
  <2>5. PermitEffect(r)
      BY <2>1, <2>b DEF PermitEffect
  <2>. QED
      BY <2>2, <2>3, <2>4, <2>5 DEF Kept
<1>8. CASE Submit(r)
  <2>1. /\ mw[r] = "waiting" /\ app[r] = "created"
        /\ app'[r] = "submitted" /\ work'[r] = "queued"
        /\ lease' = lease /\ mw' = mw /\ started' = started /\ hangup' = hangup
        /\ inflight' = inflight
      BY <1>8 DEF Submit, TypeOK
  <2>2. LeaseInv(r)'
      BY <1>0, <2>1 DEF LeaseInv
  <2>3. ResponseInv(r)'
      BY <1>0, <2>1 DEF ResponseInv
  <2>4. Local(r)
      BY <1>8, SMTT(30) DEF Submit, TypeOK, Local
  <2>b. Held(r)' <=> Held(r)
      BY <1>0, <2>1 DEF Held, LeaseInv
  <2>5. PermitEffect(r)
      BY <2>1, <2>b DEF PermitEffect
  <2>. QED
      BY <2>2, <2>3, <2>4, <2>5 DEF Kept
<1>9. CASE Attach(r)
  <2>1. /\ app[r] = "submitted" /\ app'[r] = "awaiting"
        /\ \/ /\ work[r] = "finished" /\ work'[r] = "over"
              /\ lease'[r] = lease[r] \union {"work", "work_finished"}
           \/ /\ work[r] # "finished" /\ work'[r] = work[r]
              /\ lease'[r] = lease[r] \union {"work"}
        /\ mw' = mw /\ started' = started /\ hangup' = hangup /\ inflight' = inflight
      BY <1>9 DEF Attach, TypeOK
  <2>2. LeaseInv(r)'
      BY <1>0, <2>1, Zenon DEF LeaseInv
  <2>3. ResponseInv(r)'
      BY <1>0, <2>1 DEF ResponseInv
  <2>4. Local(r)
      BY <1>9 DEF Attach, TypeOK, Local
  <2>b. Held(r)' <=> Held(r)
      BY <1>0, <2>1, ZenonT(30) DEF Held, LeaseInv
  <2>5. PermitEffect(r)
      BY <2>1, <2>b DEF PermitEffect
  <2>. QED
      BY <2>2, <2>3, <2>4, <2>5 DEF Kept
<1>10. CASE Deliver(r)
  <2>1. /\ lease' = lease /\ mw' = mw /\ app' = app /\ work' = work /\ started' = started
        /\ hangup' = hangup /\ inflight' = inflight
      BY <1>10 DEF Deliver, EngineFailed, TypeOK
  <2>2. LeaseInv(r)'
      BY <1>0, <2>1, Zenon DEF LeaseInv
  <2>3. ResponseInv(r)'
      BY <1>0, <2>1, Zenon DEF ResponseInv
  <2>4. Local(r)
      BY <1>10, SMTT(30) DEF Deliver, EngineFailed, TypeOK, Local
  <2>b. Held(r)' <=> Held(r)
      BY <1>0, <2>1 DEF Held, LeaseInv
  <2>5. PermitEffect(r)
      BY <2>1, <2>b DEF PermitEffect
  <2>. QED
      BY <2>2, <2>3, <2>4, <2>5 DEF Kept
<1>11. CASE AppResumes(r)
  <2>0. started[r] = 0
      BY <1>0, <1>11, Zenon DEF AppResumes, ResponseInv
  <2>1. /\ mw[r] = "waiting" /\ app[r] = "awaiting"
        /\ \/ app'[r] = "sending" /\ started'[r] = 1
           \/ app'[r] = "raised" /\ started' = started
        /\ lease' = lease /\ mw' = mw /\ work' = work /\ hangup' = hangup /\ inflight' = inflight
      BY <1>11, <2>0 DEF AppResumes, EngineFailed, Respond, TypeOK
  <2>2. LeaseInv(r)'
      BY <1>0, <2>1, Zenon DEF LeaseInv
  <2>3. ResponseInv(r)'
      BY <1>0, <2>1, Zenon DEF ResponseInv
  <2>4. Local(r)
      BY <1>11, SMTT(30) DEF AppResumes, EngineFailed, Respond, TypeOK, Local
  <2>b. Held(r)' <=> Held(r)
      BY <1>0, <2>1, SMTT(30) DEF Held, LeaseInv
  <2>5. PermitEffect(r)
      BY <2>1, <2>b DEF PermitEffect
  <2>. QED
      BY <2>2, <2>3, <2>4, <2>5 DEF Kept
<1>12. CASE AppSent(r)
  <2>1. /\ mw[r] = "waiting" /\ app[r] = "sending" /\ app'[r] = "finished"
        /\ lease' = lease /\ mw' = mw /\ work' = work /\ started' = started /\ hangup' = hangup
        /\ inflight' = inflight
      BY <1>12, SMTT(30) DEF AppSent, TypeOK
  <2>2. LeaseInv(r)'
      BY <1>0, <2>1 DEF LeaseInv
  <2>3. ResponseInv(r)'
      BY <1>0, <2>1 DEF ResponseInv
  <2>4. Local(r)
      BY <1>12 DEF AppSent, TypeOK, Local
  <2>b. Held(r)' <=> Held(r)
      BY <1>0, <2>1, ZenonT(30) DEF Held, LeaseInv
  <2>5. PermitEffect(r)
      BY <2>1, <2>b DEF PermitEffect
  <2>. QED
      BY <2>2, <2>3, <2>4, <2>5 DEF Kept
<1>13. CASE AppCancelled(r)
  <2>1. /\ mw[r] \in {"cancelling", "finally"}
        /\ app[r] \in {"created", "awaiting", "sending"} /\ app'[r] = "cancelled"
        /\ lease' = lease /\ mw' = mw /\ work' = work /\ started' = started /\ hangup' = hangup
        /\ inflight' = inflight
      BY <1>13, SMTT(30) DEF AppCancelled, AppLive, TypeOK
  <2>2. LeaseInv(r)'
      BY <1>0, <2>1 DEF LeaseInv
  <2>3. ResponseInv(r)'
      BY <1>0, <2>1 DEF ResponseInv
  <2>4. Local(r)
      BY <1>13, SMTT(30) DEF AppCancelled, AppLive, TypeOK, Local
  <2>b. Held(r)' <=> Held(r)
      BY <2>1, ZenonT(30) DEF Held
  <2>5. PermitEffect(r)
      BY <2>1, <2>b DEF PermitEffect
  <2>. QED
      BY <2>2, <2>3, <2>4, <2>5 DEF Kept
<1>14. CASE StartWork(r)
  <2>1. /\ work[r] = "queued" /\ work'[r] = "running"
        /\ lease' = lease /\ mw' = mw /\ app' = app /\ started' = started /\ hangup' = hangup
        /\ inflight' = inflight
      BY <1>14 DEF StartWork, TypeOK
  <2>2. LeaseInv(r)'
      BY <1>0, <2>1, SMTT(30) DEF LeaseInv
  <2>3. ResponseInv(r)'
      BY <1>0, <2>1 DEF ResponseInv
  <2>4. Local(r)
      BY <1>14 DEF StartWork, TypeOK, Local
  <2>b. Held(r)' <=> Held(r)
      BY <1>0, <2>1, ZenonT(30) DEF Held, LeaseInv
  <2>5. PermitEffect(r)
      BY <2>1, <2>b DEF PermitEffect
  <2>. QED
      BY <2>2, <2>3, <2>4, <2>5 DEF Kept
<1>15. CASE FinishWork(r)
  <2>1. /\ work[r] = "running" /\ work'[r] = "finished"
        /\ lease' = lease /\ mw' = mw /\ app' = app /\ started' = started /\ hangup' = hangup
        /\ inflight' = inflight
      BY <1>15 DEF FinishWork, TypeOK
  <2>2. LeaseInv(r)'
      BY <1>0, <2>1, Zenon DEF LeaseInv
  <2>3. ResponseInv(r)'
      BY <1>0, <2>1, Zenon DEF ResponseInv
  <2>4. Local(r)
      BY <1>15 DEF FinishWork, TypeOK, Local
  <2>b. Held(r)' <=> Held(r)
      BY <1>0, <2>1, Zenon DEF Held, LeaseInv
  <2>5. PermitEffect(r)
      BY <2>1, <2>b DEF PermitEffect
  <2>. QED
      BY <2>2, <2>3, <2>4, <2>5 DEF Kept
<1>16. CASE WorkDone(r)
  <2>0. "released" \notin lease[r]
      BY <1>0, <1>16, Zenon DEF WorkDone, LeaseInv
  <2>1. /\ work[r] = "finished" /\ "work" \in lease[r]
        /\ \/ /\ "http_finished" \in lease[r] /\ work'[r] = "releasing"
              /\ lease'[r] = lease[r] \union {"work_finished", "released"}
           \/ /\ "http_finished" \notin lease[r] /\ work'[r] = "over"
              /\ lease'[r] = lease[r] \union {"work_finished"}
        /\ mw' = mw /\ app' = app /\ started' = started /\ hangup' = hangup /\ inflight' = inflight
    <3>1. CASE "http_finished" \in lease[r]
        BY <1>16, <2>0, <3>1 DEF WorkDone, TypeOK
    <3>2. CASE "http_finished" \notin lease[r]
        BY <1>16, <2>0, <3>2, SMTT(30) DEF WorkDone, TypeOK
    <3>. QED
        BY <3>1, <3>2, Zenon
  <2>2. LeaseInv(r)'
      BY <1>0, <2>1 DEF LeaseInv
  <2>3. ResponseInv(r)'
      BY <1>0, <2>1, Zenon DEF ResponseInv
  <2>4. Local(r)
      BY <1>16 DEF WorkDone, TypeOK, Local
  <2>b. Held(r)' <=> Held(r)
      BY <1>0, <2>1, ZenonT(30) DEF Held, LeaseInv
  <2>5. PermitEffect(r)
      BY <2>1, <2>b DEF PermitEffect
  <2>. QED
      BY <2>2, <2>3, <2>4, <2>5 DEF Kept
<1>17. CASE WorkReleases(r)
  <2>1. /\ work[r] = "releasing" /\ work'[r] = "over"
        /\ inflight' = inflight - 1
        /\ lease' = lease /\ mw' = mw /\ app' = app /\ started' = started /\ hangup' = hangup
      BY <1>17, SMTT(30) DEF WorkReleases, Release, TypeOK
  <2>2. LeaseInv(r)'
      BY <1>0, <2>1 DEF LeaseInv
  <2>3. ResponseInv(r)'
      BY <1>0, <2>1, Zenon DEF ResponseInv
  <2>4. Local(r)
      BY <1>17 DEF WorkReleases, Release, TypeOK, Local
  <2>5. PermitEffect(r)
      BY <1>0, <2>1, Zenon DEF PermitEffect, Held, LeaseInv
  <2>. QED
      BY <2>2, <2>3, <2>4, <2>5 DEF Kept
<1>18. CASE WaitReturns(r)
  <2>1. /\ mw[r] = "waiting" /\ app[r] # "submitted"
        /\ \/ app[r] \in {"finished", "raised"} /\ mw'[r] = "finally"
           \/ app[r] \notin {"finished", "raised"} /\ mw'[r] = "cancelling"
        /\ lease' = lease /\ app' = app /\ work' = work /\ started' = started
        /\ hangup' = hangup /\ inflight' = inflight
      BY <1>18 DEF WaitReturns, AppDone, TypeOK
  <2>2. LeaseInv(r)'
      BY <1>0, <2>1, Zenon DEF LeaseInv
  <2>3. ResponseInv(r)'
      BY <1>0, <2>1, Zenon DEF ResponseInv
  <2>4. Local(r)
      BY <1>18, SMTT(30) DEF WaitReturns, AppDone, TypeOK, Local
  <2>b. Held(r)' <=> Held(r)
      BY <1>0, <2>1, SMTT(30) DEF Held, LeaseInv
  <2>5. PermitEffect(r)
      BY <2>1, <2>b DEF PermitEffect
  <2>. QED
      BY <2>2, <2>3, <2>4, <2>5 DEF Kept
<1>19. CASE AfterCancel(r)
  <2>1. /\ mw[r] = "cancelling" /\ app[r] = "cancelled"
        /\ \/ mw'[r] = "responding" /\ started'[r] = 1
           \/ /\ mw'[r] = "finally" /\ started' = started
              /\ hangup[r] = "client" \/ started[r] # 0
        /\ lease' = lease /\ app' = app /\ work' = work /\ hangup' = hangup /\ inflight' = inflight
      BY <1>19 DEF AfterCancel, Respond, TypeOK
  <2>2. LeaseInv(r)'
      BY <1>0, <2>1, ZenonT(30) DEF LeaseInv
  <2>3. ResponseInv(r)'
      BY <1>0, <2>1 DEF ResponseInv
  <2>4. Local(r)
      BY <1>19 DEF AfterCancel, Respond, TypeOK, Local
  <2>b. Held(r)' <=> Held(r)
      BY <1>0, <2>1, ZenonT(30) DEF Held, LeaseInv
  <2>5. PermitEffect(r)
      BY <2>1, <2>b DEF PermitEffect
  <2>. QED
      BY <2>2, <2>3, <2>4, <2>5 DEF Kept
<1>20. CASE Responded(r)
  <2>1. /\ mw[r] = "responding" /\ mw'[r] = "finally" /\ app[r] # "submitted"
        /\ lease' = lease /\ app' = app /\ work' = work /\ started' = started
        /\ hangup' = hangup /\ inflight' = inflight
      BY <1>20 DEF Responded, TypeOK
  <2>2. LeaseInv(r)'
      BY <1>0, <2>1, Zenon DEF LeaseInv
  <2>3. ResponseInv(r)'
      BY <1>0, <2>1, Zenon DEF ResponseInv
  <2>4. Local(r)
      BY <1>20 DEF Responded, TypeOK, Local
  <2>b. Held(r)' <=> Held(r)
      BY <1>0, <2>1, ZenonT(30) DEF Held, LeaseInv
  <2>5. PermitEffect(r)
      BY <2>1, <2>b DEF PermitEffect
  <2>. QED
      BY <2>2, <2>3, <2>4, <2>5 DEF Kept
<1>21. CASE FinishHttp(r)
    BY <1>0, <1>21, FinishHttpKeeps
<1>22. CASE HttpReleases(r)
    BY <1>0, <1>22, HttpReleasesKeeps
<1>. QED
    BY <1>1, <1>2, <1>3, <1>4, <1>5, <1>6, <1>7, <1>8, <1>9, <1>10, <1>11, <1>12, <1>13, <1>14, <1>15,
       <1>16, <1>17, <1>18, <1>19, <1>20, <1>21, <1>22, SMTT(30)
       DEF RequestStep, Serve, Environment, BodyTooLarge, BodyLate

\* The set of holders changes by the request that took the step, if at all.
LEMMA HoldersFollow ==
    ASSUME TypeOK, ControllerInv, NEW r \in Requests, Kept(r)
    PROVE  /\ PermitsAccounted' /\ inflight' \in Nat
           /\ inflight' > inflight => ~closed
           /\ inflight = 0 => inflight' >= inflight
<1>1. /\ Holders \subseteq Requests /\ IsFiniteSet(Holders)
      /\ Cardinality(Holders) \in Nat /\ inflight = Cardinality(Holders) /\ inflight <= Capacity
    BY AdmissionAssumption, FS_Subset, FS_CardinalityType, SMTT(30) DEF Holders, ControllerInv, PermitsAccounted
<1>2. /\ \A s \in Requests : s \in Holders <=> Held(s)
      /\ \A s \in Requests : s \in Holders' <=> Held(s)'
      /\ Holders' \subseteq Requests
    BY DEF Holders, Held
<1>3. \A s \in Requests \ {r} : s \in Holders' <=> s \in Holders
  <2>1. \A s \in Requests \ {r} : Held(s)' <=> Held(s)
      BY DEF Kept, Local, Held
  <2>. QED
      BY <1>2, <2>1, SMTT(30)
<1>4. CASE inflight' = inflight /\ (Held(r)' <=> Held(r))
  <2>1. Holders' = Holders
      BY <1>1, <1>2, <1>3, <1>4
  <2>. QED
      BY <1>1, <1>4, <2>1 DEF PermitsAccounted
<1>5. CASE ~closed /\ inflight < Capacity /\ inflight' = inflight + 1 /\ ~Held(r) /\ Held(r)'
  <2>1. Holders' = Holders \union {r} /\ r \notin Holders
      BY <1>1, <1>2, <1>3, <1>5
  <2>2. Cardinality(Holders') = Cardinality(Holders) + 1
      BY <1>1, <2>1, FS_AddElement, Zenon
  <2>. QED
      BY <1>1, <1>5, <2>2, AdmissionAssumption DEF PermitsAccounted
<1>6. CASE inflight' = inflight - 1 /\ Held(r) /\ ~Held(r)'
  <2>1. Holders' = Holders \ {r} /\ r \in Holders
      BY <1>1, <1>2, <1>3, <1>6
  <2>2. Cardinality(Holders') = Cardinality(Holders) - 1
      BY <1>1, <2>1, FS_RemoveElement
  <2>3. Cardinality(Holders') \in Nat
      BY <1>1, <2>1, FS_RemoveElement, FS_CardinalityType
  <2>. QED
      BY <1>1, <1>6, <2>2, <2>3, AdmissionAssumption DEF PermitsAccounted
<1>. QED
    BY <1>4, <1>5, <1>6, SMTT(30) DEF Kept, PermitEffect

\* A request's step moves the draining thread only from its wait to its test,
\* and never opens admission.
LEMMA DrainFollows ==
    ASSUME TypeOK, NEW r \in Requests, RequestStep(r)
    PROVE  /\ closed => closed'
           /\ drain' = drain \/ (drain = "parked" /\ drain' = "checking")
<1> USE DEF TypeOK, controllerVars, taskVars, workVars, NotifyDrain
<1>1. CASE TryAcquire(r) \/ RejectBody(r) \/ BodyComplete(r) \/ Disconnect(r) \/ CancelTask(r) \/ Expire(r)
    BY <1>1 DEF TryAcquire, RejectBody, BodyComplete, Disconnect, CancelTask, Expire
<1>2. CASE RefuseInput(r) \/ Submit(r) \/ Attach(r) \/ AppSent(r) \/ AppCancelled(r)
    BY <1>2 DEF RefuseInput, Submit, Attach, AppSent, AppCancelled
<1>3. CASE Deliver(r) \/ AppResumes(r)
    BY <1>3 DEF Deliver, AppResumes, EngineFailed
<1>4. CASE StartWork(r) \/ FinishWork(r) \/ WorkDone(r) \/ WorkReleases(r) \/ HttpReleases(r)
    BY <1>4, SMTT(30) DEF StartWork, FinishWork, WorkDone, WorkReleases, HttpReleases, Release
<1>5. CASE WaitReturns(r) \/ AfterCancel(r) \/ Responded(r) \/ FinishHttp(r)
    BY <1>5 DEF WaitReturns, AfterCancel, Responded, FinishHttp
<1>. QED
    BY <1>1, <1>2, <1>3, <1>4, <1>5, SMTT(30) DEF RequestStep, Serve, Environment, BodyTooLarge, BodyLate

\* A step that leaves the requests alone, as those of the draining thread do,
\* keeps what holds of them.
LEMMA RequestsUntouched ==
    ASSUME RequestInv, UNCHANGED <<lease, mw, app, work, started, hangup>>
    PROVE  RequestInv'
<1> SUFFICES ASSUME NEW s \in Requests PROVE LeaseInv(s)' /\ ResponseInv(s)'
    BY DEF RequestInv
<1>1. LeaseInv(s) /\ ResponseInv(s)
    BY SMTT(30) DEF RequestInv
<1>2. LeaseInv(s)'
    BY <1>1, SMTT(30) DEF LeaseInv
<1>3. ResponseInv(s)'
    BY <1>1 DEF ResponseInv
<1>. QED
    BY <1>2, <1>3

\* A controller that has just been made satisfies the invariant.
LEMMA AdmissionStarts ==
    ASSUME AdmissionInit, ready \in BOOLEAN
    PROVE  AInv
<1> USE DEF AdmissionInit
<1>1. TypeOK
    BY Zenon DEF TypeOK, Leases
<1>2. RequestInv
    BY DEF RequestInv, LeaseInv, ResponseInv
<1>3. Holders = {}
    BY DEF Holders
<1>4. ControllerInv
    BY <1>3, FS_EmptySet, AdmissionAssumption DEF ControllerInv, PermitsAccounted
<1>. QED
    BY <1>1, <1>2, <1>4 DEF AInv

\* The invariant follows from what a step of one request keeps.
LEMMA KeptSuffices ==
    ASSUME AInv, NEW r \in Requests, Kept(r), inflight' \in Nat => TypeOK',
           closed => closed',
           drain' = drain \/ (drain = "parked" /\ drain' = "checking")
    PROVE  AInv'
<1>0. TypeOK /\ RequestInv /\ ControllerInv
    BY DEF AInv
<1>1. /\ PermitsAccounted' /\ inflight' \in Nat
      /\ inflight' > inflight => ~closed
      /\ inflight = 0 => inflight' >= inflight
    BY <1>0, HoldersFollow
<1>2. RequestInv'
  <2>1. ASSUME NEW s \in Requests \ {r} PROVE LeaseInv(s)' /\ ResponseInv(s)'
    <3>1. LeaseInv(s) /\ ResponseInv(s)
        BY <1>0 DEF RequestInv
    <3>2. /\ lease'[s] = lease[s] /\ mw'[s] = mw[s] /\ app'[s] = app[s]
          /\ work'[s] = work[s] /\ started'[s] = started[s] /\ hangup'[s] = hangup[s]
        BY DEF Kept, Local
    <3>3. LeaseInv(s)'
        BY <3>1, <3>2, Zenon DEF LeaseInv
    <3>4. ResponseInv(s)'
        BY <3>1, <3>2, Zenon DEF ResponseInv
    <3>. QED
        BY <3>3, <3>4
  <2>. QED
      BY <2>1 DEF Kept, RequestInv
<1>3. ControllerInv'
  <2>1. inflight \in Nat
      BY <1>0 DEF TypeOK
  <2>. QED
      BY <1>0, <1>1, <2>1 DEF ControllerInv
<1>. QED
    BY <1>1, <1>2, <1>3 DEF AInv

\* Every step keeps the invariant.
LEMMA InvariantKept == AInv /\ [Next]_vars => AInv'
<1> SUFFICES ASSUME AInv, [Next]_vars PROVE AInv'
    OBVIOUS
<1>0. TypeOK /\ RequestInv /\ ControllerInv
    BY DEF AInv
<1>1. CASE UNCHANGED vars
  <2>1. UNCHANGED <<inflight, closed, drain, lease, mw, app, work, started, hangup>>
      BY <1>1 DEF vars, controllerVars, taskVars, workVars
  <2>2. TypeOK'
      BY <1>0, <2>1, TypesKept DEF TypeOK
  <2>3. RequestInv'
      BY <1>0, <2>1, RequestsUntouched
  <2>4. ControllerInv'
      BY <1>0, <2>1 DEF ControllerInv, PermitsAccounted, Holders
  <2>. QED
      BY <2>2, <2>3, <2>4 DEF AInv
<1>2. CASE BeginDrain \/ DrainCheck
  <2>1. UNCHANGED <<inflight, lease, mw, app, work, started, hangup>>
      BY <1>2, SMTT(30) DEF BeginDrain, DrainCheck, taskVars, workVars
  <2>2. TypeOK'
      BY <1>0, <2>1, TypesKept DEF TypeOK
  <2>3. RequestInv'
      BY <1>0, <2>1, RequestsUntouched, SMTT(30)
  <2>4. PermitsAccounted'
      BY <1>0, <2>1 DEF ControllerInv, PermitsAccounted, Holders
  <2>5. ControllerInv'
      BY <1>0, <1>2, <2>1, <2>4 DEF ControllerInv, BeginDrain, DrainCheck
  <2>. QED
      BY <2>2, <2>3, <2>5 DEF AInv
<1>3. ASSUME NEW r \in Requests, RequestStep(r) PROVE AInv'
  <2>1. Kept(r)
      BY <1>0, <1>3, RequestKeeps
  <2>2. inflight' \in Nat => TypeOK'
      BY <1>0, <1>3, TypesKept DEF Next
  <2>3. /\ closed => closed'
        /\ drain' = drain \/ (drain = "parked" /\ drain' = "checking")
      BY <1>0, <1>3, DrainFollows
  <2>. QED
      BY <2>1, <2>2, <2>3, KeptSuffices
<1>. QED
    BY <1>1, <1>2, <1>3 DEF Next

\* The invariant relates leases, tasks, native calls and the permit count in
\* every reachable state of the front end.
THEOREM AdmissionInvariant == Spec => []AInv
<1>1. Init => AInv
    BY AdmissionStarts DEF Init
<1>2. AInv /\ [Next]_vars => AInv'
    BY InvariantKept
<1>. QED
    BY <1>1, <1>2, PTL DEF Spec

\* Every lease accounts for one permit and gives it back once, whichever of the
\* event loop and the executor's thread comes second, and the capacity is kept.
THEOREM PermitsAlwaysAccounted == Spec => []PermitsAccounted
<1>1. AInv => PermitsAccounted
    BY DEF AInv, ControllerInv
<1>. QED
    BY <1>1, AdmissionInvariant, PTL

\* Work for a request implies that the request holds its permit.
LEMMA ActiveHolds ==
    AInv => \A r \in Requests : HttpActive(r) \/ WorkActive(r) => r \in Holders
BY DEF AInv, TypeOK, RequestInv, LeaseInv, HttpActive, WorkActive, Holders

\* So the permits bound the requests in any stage.
LEMMA PermitsBoundWork == AInv => WorkBounded
<1> SUFFICES ASSUME AInv PROVE WorkBounded
    OBVIOUS
<1> DEFINE Active == {r \in Requests : HttpActive(r) \/ WorkActive(r)}
<1>1. Active \subseteq Holders
    BY ActiveHolds
<1>2. IsFiniteSet(Holders)
    BY AdmissionAssumption, FS_Subset DEF Holders
<1>3. Cardinality(Active) <= Cardinality(Holders) /\ IsFiniteSet(Active)
    BY <1>1, <1>2, FS_Subset
<1>4. Cardinality(Active) \in Nat /\ Cardinality(Holders) \in Nat
    BY <1>2, <1>3, FS_CardinalityType
<1>5. Cardinality(Holders) <= Capacity
    BY DEF AInv, ControllerInv, PermitsAccounted
<1>6. Cardinality(Active) <= Capacity
    BY <1>3, <1>4, <1>5, AdmissionAssumption
<1>. QED
    BY <1>6 DEF WorkBounded

\* Requests in any stage, native calls that outlived their HTTP task included,
\* never exceed the capacity.
THEOREM WorkAlwaysBounded == Spec => []WorkBounded
    BY PermitsBoundWork, AdmissionInvariant, PTL

\* With no permit out, nothing is left.
LEMMA NoPermitNoWork == AInv => DrainedMeansIdle
<1> SUFFICES ASSUME AInv, drain = "over"
             PROVE  closed /\ \A r \in Requests : ~HttpActive(r) /\ ~WorkActive(r)
    BY DEF DrainedMeansIdle
<1>1. closed /\ Cardinality(Holders) = 0
    BY DEF AInv, ControllerInv, PermitsAccounted
<1>2. IsFiniteSet(Holders)
    BY AdmissionAssumption, FS_Subset DEF Holders
<1>3. Holders = {}
    BY <1>1, <1>2, FS_EmptySet
<1>. QED
    BY <1>1, <1>3, ActiveHolds

\* When drain() returns, admission is closed and no request and no native call
\* is left.
THEOREM DrainedIsIdle == Spec => []DrainedMeansIdle
    BY NoPermitNoWork, AdmissionInvariant, PTL

\* The invariant says how many responses have been started.
LEMMA OneStart == AInv => OneResponse
<1> SUFFICES ASSUME AInv, NEW r \in Requests
             PROVE  /\ started[r] <= 1
                    /\ mw[r] = "done" /\ hangup[r] = "none" => started[r] = 1
    BY DEF OneResponse
<1>1. ResponseInv(r)
    BY DEF AInv, RequestInv
<1>2. started[r] \in {0, 1}
    BY <1>1, Zenon DEF ResponseInv
<1>3. mw[r] = "done" /\ hangup[r] = "none" => started[r] = 1
    BY <1>1, Zenon DEF ResponseInv
<1>4. started[r] <= 1
    BY <1>2
<1>. QED
    BY <1>3, <1>4, Zenon

\* A request is answered at most once, and exactly once unless its client or
\* the server gave it up, whatever the order of route, deadline and boundary.
THEOREM OneResponseAlways == Spec => []OneResponse
    BY OneStart, AdmissionInvariant, PTL
-----------------------------------------------------------------------------
(* The whole server. *)


LifeTypeOK ==
    /\ phase \in {"loading", "building", "probing", "serving", "draining", "stopping",
                  "shutting", "closing", "stopped"}
    /\ listening \in BOOLEAN
    /\ pool \in {"none", "up", "down"}
    /\ runtime \in {"none", "up", "stopping", "down"}
    /\ probe \in {"none", "queued", "running", "good", "bad", "error"}

Opening == phase \in {"loading", "building", "probing"}
Ending == phase \in {"stopping", "shutting", "closing", "stopped"}

LifeInv ==
    /\ LifeTypeOK
    /\ ~listening => \A r \in Requests : mw[r] = "new"
    /\ Opening => ~listening /\ ~closed
    /\ Opening \/ phase = "serving" => drain = "none"
    /\ phase \in {"loading", "building"} => probe = "none" /\ runtime = "none"
    /\ phase = "probing" => runtime = "up" /\ pool = "up" /\ probe # "none"
    /\ phase = "serving" => runtime = "up" /\ pool = "up" /\ probe = "good"
    /\ ready => phase = "serving" /\ ~closed
    /\ Ending => drain = "over" /\ ProbeDone
    /\ runtime \in {"stopping", "down"} => phase \in {"shutting", "closing", "stopped"}

SInv == AInv /\ LifeInv
-----------------------------------------------------------------------------
(* Admission's invariant in the whole server. *)

\* A request that is refused with 401 never held anything.
LEMMA RefuseKeeps ==
    ASSUME AInv, NEW r \in Requests, RefuseUnauthenticated(r)
    PROVE  AInv'
<1>0. TypeOK /\ LeaseInv(r) /\ ResponseInv(r)
    BY DEF AInv, RequestInv
<1>1. /\ mw[r] = "new" /\ mw' = [mw EXCEPT ![r] = "refused"]
      /\ started' = [started EXCEPT ![r] = started[r] + 1]
      /\ UNCHANGED <<inflight, closed, drain, ready, lease, app, expired, hangup, work, outcome,
                     delivered>>
    BY DEF RefuseUnauthenticated, Arriving, Respond, controllerVars, workVars
<1>2. mw'[r] = "refused" /\ started[r] = 0 /\ started'[r] = 1
    BY <1>0, <1>1 DEF TypeOK, ResponseInv
<1>3. TypeOK'
  <2>1. mw' \in [Requests -> {"new", "refused", "reading", "waiting", "cancelling",
                              "responding", "finally", "releasing", "done"}]
      BY <1>0, <1>1 DEF TypeOK
  <2>2. started' \in [Requests -> Nat]
      BY <1>0, <1>1 DEF TypeOK
  <2>. QED
      BY <1>0, <1>1, <2>1, <2>2 DEF TypeOK
<1>4. Local(r)
    BY <1>0, <1>1 DEF Local, TypeOK
<1>5. LeaseInv(r)'
    BY <1>0, <1>1, <1>2, Zenon DEF LeaseInv
<1>6. ResponseInv(r)'
    BY <1>0, <1>1, <1>2, Zenon DEF ResponseInv, LeaseInv
<1>7. PermitEffect(r)
    BY <1>0, <1>1, <1>2, Zenon DEF PermitEffect, Held, LeaseInv
<1>. QED
    BY <1>1, <1>3, <1>4, <1>5, <1>6, <1>7, KeptSuffices DEF Kept

\* Becoming ready is the one thing lifespan does to Admission's state that
\* Admission does not do itself.
LEMMA ReadyKeeps ==
    ASSUME AInv, ready' \in BOOLEAN,
           UNCHANGED <<inflight, closed, drain, lease, taskVars, workVars>>
    PROVE  AInv'
<1>1. UNCHANGED <<inflight, closed, drain, lease, mw, app, work, outcome, delivered, started,
                  expired, hangup>>
    BY DEF taskVars, workVars
<1>2. TypeOK'
    BY <1>1 DEF AInv, TypeOK
<1>3. RequestInv'
    BY <1>1, RequestsUntouched DEF AInv
<1>4. ControllerInv'
  <2>1. Holders' = Holders
      BY <1>1 DEF Holders
  <2>2. PermitsAccounted'
      BY <1>1, <2>1 DEF AInv, ControllerInv, PermitsAccounted
  <2>. QED
      BY <1>1, <2>2, SMTT(30) DEF AInv, ControllerInv
<1>. QED
    BY <1>2, <1>3, <1>4 DEF AInv

\* What a step of lifespan does to Admission's state: nothing, one of its
\* actions, or to become ready after a good probe.
LEMMA LifespanEffect ==
    ASSUME Lifespan \/ CancelStartup \/ RequestShutdown
    PROVE  \/ UNCHANGED vars
           \/ BeginDrain
           \/ DrainCheck
           \/ ready' = TRUE /\ UNCHANGED <<inflight, closed, drain, lease, taskVars, workVars>>
BY DEF Lifespan, CancelStartup, RequestShutdown, LoadKeys, Build, ProbeStarts, ProbeEnds,
   ProbeAwaited, DrainStep, JoinProbe, ShutdownRuntime, CloseExecutor, TearDown

\* The invariant of the admission side holds in the composed server.
LEMMA AdmissionKept == AInv /\ [ServerNext]_serverVars => AInv'
<1> SUFFICES ASSUME AInv, [ServerNext]_serverVars PROVE AInv'
    OBVIOUS
<1>1. CASE UNCHANGED vars \/ BeginDrain \/ DrainCheck
    BY <1>1, InvariantKept DEF Next
<1>2. CASE ready' = TRUE /\ UNCHANGED <<inflight, closed, drain, lease, taskVars, workVars>>
    BY <1>2, ReadyKeeps
<1>3. ASSUME NEW r \in Requests, RequestStep(r) PROVE AInv'
    BY <1>3, InvariantKept DEF Next
<1>4. ASSUME NEW r \in Requests, RefuseUnauthenticated(r) PROVE AInv'
    BY <1>4, RefuseKeeps
<1>. QED
    BY <1>1, <1>2, <1>3, <1>4, LifespanEffect, Zenon DEF ServerNext, ServeRequest, serverVars
-----------------------------------------------------------------------------
(* The lifespan's invariant. *)

\* No request changes readiness except to end it, and none closes admission
\* without ending it.
LEMMA RequestsOnlyUnready ==
    ASSUME NEW r \in Requests, RequestStep(r), ready' = TRUE
    PROVE  ready = TRUE /\ closed' = closed
<1> USE DEF controllerVars
<1>1. CASE TryAcquire(r) \/ RejectBody(r) \/ BodyComplete(r) \/ Disconnect(r) \/ CancelTask(r)
             \/ Expire(r)
    BY <1>1, Zenon DEF TryAcquire, RejectBody, BodyComplete, Disconnect, CancelTask, Expire
<1>2. CASE RefuseInput(r) \/ Submit(r) \/ Attach(r) \/ AppSent(r) \/ AppCancelled(r)
    BY <1>2, Zenon DEF RefuseInput, Submit, Attach, AppSent, AppCancelled
<1>3. CASE Deliver(r) \/ AppResumes(r)
    BY <1>3, Zenon DEF Deliver, AppResumes, EngineFailed
<1>4. CASE StartWork(r) \/ FinishWork(r) \/ WorkDone(r) \/ WorkReleases(r) \/ HttpReleases(r)
    BY <1>4, Zenon DEF StartWork, FinishWork, WorkDone, WorkReleases, HttpReleases, Release
<1>5. CASE WaitReturns(r) \/ AfterCancel(r) \/ Responded(r) \/ FinishHttp(r)
    BY <1>5, Zenon DEF WaitReturns, AfterCancel, Responded, FinishHttp
<1>. QED
    BY <1>1, <1>2, <1>3, <1>4, <1>5, Zenon DEF RequestStep, Serve, Environment, BodyTooLarge, BodyLate

\* A request that takes a step has come in: one that has not can only arrive,
\* and before the yield it cannot.
LEMMA StepMeansListening ==
    ASSUME SInv, NEW r \in Requests, ServeRequest(r)
    PROVE  listening
<1>1. CASE mw[r] = "new"
    BY <1>1 DEF ServeRequest, Arriving
<1>2. CASE mw[r] # "new"
    BY <1>2, SMTT(30) DEF SInv, LifeInv, LifeTypeOK
<1>. QED
    BY <1>1, <1>2

\* Admission's state as the lifespan sees it, after a step of a request.
LEMMA RequestKeepsLife ==
    ASSUME SInv, NEW r \in Requests, ServeRequest(r)
    PROVE  LifeInv'
<1>1. listening /\ UNCHANGED <<phase, listening, keys, pool, runtime, probe>>
    BY StepMeansListening DEF ServeRequest, lifeVars
<1>2. /\ drain' = drain \/ (drain = "parked" /\ drain' = "checking")
      /\ ready' = TRUE => ready = TRUE /\ closed' = closed
    BY DrainFollows, RequestsOnlyUnready, ZenonT(30) DEF ServeRequest, SInv, AInv
<1>3. ready' \in BOOLEAN
    BY AdmissionKept, SMTT(30) DEF SInv, ServerNext, AInv, TypeOK
<1>. QED
    BY <1>1, <1>2, <1>3 DEF SInv, LifeInv, LifeTypeOK, Opening, Ending, ProbeDone

\* A request without a valid key changes nothing of the lifespan.
LEMMA RefusalKeepsLife ==
    ASSUME SInv, NEW r \in Requests, RefuseUnauthenticated(r)
    PROVE  LifeInv'
<1>1. /\ listening
      /\ UNCHANGED <<phase, listening, keys, pool, runtime, probe, closed, drain, ready>>
    BY DEF RefuseUnauthenticated, Arriving, lifeVars, controllerVars
<1>. QED
    BY <1>1 DEF SInv, LifeInv, LifeTypeOK, Opening, Ending, ProbeDone

\* TearDown leaves the requests alone and begins the one drain().
LEMMA TearDownFacts ==
    ASSUME TearDown
    PROVE  /\ phase' = "draining" /\ ready' = FALSE /\ closed' = TRUE /\ drain' = "checking"
           /\ UNCHANGED <<inflight, mw>>
BY DEF TearDown, BeginDrain, taskVars

\* Each step of the lifespan keeps its invariant.
LEMMA LifespanKeeps ==
    ASSUME SInv, Lifespan \/ CancelStartup \/ RequestShutdown
    PROVE  LifeInv'
<1> USE DEF LifeInv, LifeTypeOK, Opening, Ending, ProbeDone
<1>0. LifeInv
    BY DEF SInv
<1>a. UNCHANGED vars => UNCHANGED <<mw, closed, drain, ready>>
    BY SMTT(30) DEF vars, controllerVars, taskVars
<1>1. CASE LoadKeys
  <2>1. phase = "loading" /\ UNCHANGED <<listening, pool, runtime, probe>>
      BY <1>1, SMTT(30) DEF LoadKeys
  <2>2. CASE phase' = "building" /\ UNCHANGED vars
      BY <1>0, <1>a, <2>1, <2>2, SMTT(30)
  <2>3. CASE TearDown
      BY <1>0, <2>1, <2>3, TearDownFacts, SMTT(30)
  <2>. QED
      BY <1>1, <2>2, <2>3 DEF LoadKeys
<1>2. CASE Build
  <2>1. phase = "building" /\ pool' = "up" /\ UNCHANGED listening
      BY <1>2, SMTT(30) DEF Build
  <2>2. CASE runtime' = "up" /\ probe' = "queued" /\ phase' = "probing" /\ UNCHANGED vars
      BY <1>0, <1>a, <2>1, <2>2, SMTT(30)
  <2>3. CASE runtime' \in {"none", "up"} /\ UNCHANGED probe /\ TearDown
      BY <1>0, <2>1, <2>3, TearDownFacts, SMTT(30)
  <2>. QED
      BY <1>2, <2>2, <2>3 DEF Build
<1>3. CASE ProbeStarts \/ ProbeEnds
    BY <1>0, <1>a, <1>3 DEF ProbeStarts, ProbeEnds
<1>4. CASE ProbeAwaited
    BY <1>0, <1>4, TearDownFacts, Zenon DEF ProbeAwaited, taskVars
<1>5. CASE CancelStartup \/ RequestShutdown
    BY <1>0, <1>5, TearDownFacts, ZenonT(30) DEF CancelStartup, RequestShutdown
<1>6. CASE DrainStep
    BY <1>0, <1>6, SMTT(30) DEF DrainStep, DrainCheck, taskVars, lifeVars
<1>7. CASE JoinProbe
    BY <1>0, <1>a, <1>7, SMTT(30) DEF JoinProbe
<1>8. CASE ShutdownRuntime
    BY <1>0, <1>a, <1>8, SMTT(30) DEF ShutdownRuntime
<1>9. CASE CloseExecutor
    BY <1>0, <1>a, <1>9 DEF CloseExecutor
<1>. QED
    BY <1>1, <1>2, <1>3, <1>4, <1>5, <1>6, <1>7, <1>8, <1>9, ZenonT(30) DEF Lifespan
-----------------------------------------------------------------------------
\* The whole server keeps both invariants, from the first line of lifespan to
\* the end of stop_runtime.
THEOREM ServerInvariant == ServerSpec => []SInv
<1>1. ServerInit => SInv
  <2> SUFFICES ASSUME ServerInit PROVE SInv
      OBVIOUS
  <2>1. AdmissionInit /\ ready \in BOOLEAN
      BY Zenon DEF ServerInit
  <2>2. AInv
      BY <2>1, AdmissionStarts
  <2>3. /\ phase = "loading" /\ listening = FALSE /\ pool = "none" /\ runtime = "none"
        /\ probe = "none" /\ closed = FALSE /\ drain = "none" /\ ready = FALSE
      BY <2>1 DEF ServerInit, AdmissionInit
  <2>4. \A r \in Requests : mw[r] = "new"
      BY <2>1 DEF AdmissionInit
  <2>5. LifeInv
      BY <2>3, <2>4, Zenon DEF LifeInv, LifeTypeOK, Opening, Ending
  <2>. QED
      BY <2>2, <2>5 DEF SInv
<1>2. SInv /\ [ServerNext]_serverVars => SInv'
  <2> SUFFICES ASSUME SInv, [ServerNext]_serverVars PROVE SInv'
      OBVIOUS
  <2>1. AInv'
      BY AdmissionKept DEF SInv
  <2>2. LifeInv'
    <3>1. CASE UNCHANGED serverVars
        BY <3>1 DEF SInv, LifeInv, LifeTypeOK, Opening, Ending, ProbeDone, serverVars, vars,
           lifeVars, controllerVars, taskVars
    <3>2. CASE ServerNext
        BY <3>2, LifespanKeeps, RequestKeepsLife, RefusalKeepsLife DEF ServerNext
    <3>. QED
        BY <3>1, <3>2, SMTT(30)
  <2>. QED
      BY <2>1, <2>2 DEF SInv
<1>. QED
    BY <1>1, <1>2, PTL DEF ServerSpec

\* stop_runtime stops the scheduler only when no native call is queued or
\* running and the start-up probe is over: the drain has returned, so no permit
\* is out, and every native call holds one.
THEOREM NoCallAfterStop == ServerSpec => []NoCallOnStopped
<1>1. SInv => NoCallOnStopped
  <2> SUFFICES ASSUME SInv, runtime \in {"stopping", "down"}
               PROVE  ProbeDone /\ \A r \in Requests : ~WorkActive(r)
      BY DEF NoCallOnStopped
  <2>1. drain = "over" /\ ProbeDone
      BY DEF SInv, LifeInv, Ending
  <2>. QED
      BY <2>1, NoPermitNoWork DEF SInv, DrainedMeansIdle
<1>. QED
    BY <1>1, ServerInvariant, PTL

\* /readyz answers 200 only while the server serves: the probe was good, the
\* runtime and the executor are up and admission is open.
THEOREM ReadyOnlyWhenServing == ServerSpec => []ReadyMeansServing
<1>1. SInv => ReadyMeansServing
    BY DEF SInv, LifeInv, ReadyMeansServing
<1>. QED
    BY <1>1, ServerInvariant, PTL

\* With authentication in front of admission and lifespan around it, a request
\* is still answered at most once, and drain() still leaves nothing behind.
THEOREM ServerAnswersOnce == ServerSpec => [](OneResponse /\ DrainedMeansIdle)
<1>1. SInv => OneResponse /\ DrainedMeansIdle
    BY OneStart, NoPermitNoWork DEF SInv
<1>. QED
    BY <1>1, ServerInvariant, PTL

\* Permits stay accounted for and work stays bounded in the whole server, with
\* authentication in front of admission and lifespan around it.
THEOREM ServerPermits == ServerSpec => [](PermitsAccounted /\ WorkBounded)
<1>1. SInv => PermitsAccounted /\ WorkBounded
    BY PermitsBoundWork DEF SInv, AInv, ControllerInv
<1>. QED
    BY <1>1, ServerInvariant, PTL
=============================================================================
