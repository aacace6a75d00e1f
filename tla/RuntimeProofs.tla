---------------------------- MODULE RuntimeProofs ----------------------------
(***************************************************************************)
(* For any number of callers, any batch size, wait and engine time: each   *)
(* predict() returns the answer to its own request under its own id, none  *)
(* takes longer than the bound, and stats() counts no request twice.       *)
(*                                                                         *)
(* The bound is proved from the time a request has left (Left): from its   *)
(* place in the queue, which the full batches ahead of it follow, and from *)
(* where the worker is.  What it has left and its age never exceed the     *)
(* bound together.                                                         *)
(***************************************************************************)
EXTENDS Runtime, FiniteSetTheorems, TLAPS

Entry == [of : Requests, id : Nat]

RuntimeTypeOK ==
    /\ running \in BOOLEAN /\ stop_requested \in BOOLEAN
    /\ queue \in Seq(Entry) /\ batch \in Seq(Entry)
    /\ worker \in {"none", "phase1", "window", "engine", "exited"}
    /\ window \in 0..MaxWait /\ exec \in 0..MaxExec /\ total \in Nat
    /\ DOMAIN outcome = Requests
    /\ caller \in [Requests -> {"idle", "entering", "submit", "waiting", "refused", "done", "raised"}]
    /\ request \in [Requests -> Nat] /\ next_id \in Nat
    /\ age \in [Requests -> Nat] /\ ahead \in [Requests -> Nat]
    /\ DOMAIN returned = Requests
    /\ snapshot \in [total : Nat, depth : Nat]

\* A queued request is waiting for its promise, under its own id.
Waits(e) ==
    /\ e.of \in Requests /\ e.id = request[e.of]
    /\ caller[e.of] = "waiting" /\ outcome[e.of] = Pending

\* A waiting request is in one place, until its promise is set.
PlaceInv ==
    /\ \A i \in 1..Len(queue) : Waits(queue[i])
    /\ \A i \in 1..Len(batch) : Waits(batch[i])
    /\ \A i, j \in 1..Len(queue) : queue[i].of = queue[j].of => i = j
    /\ \A i \in 1..Len(batch), j \in 1..Len(queue) : batch[i].of # queue[j].of
    /\ worker # "engine" => Len(batch) = 0

\* Every request has an id of its own, and its answer is the one to it.
Known(r) == caller[r] \in {"submit", "waiting", "refused", "done"}
AnswerInv(r) ==
    /\ outcome[r] \in {Pending, Failure, Answer(r, request[r])}
    /\ caller[r] \in {"idle", "entering", "submit", "refused"} => outcome[r] = Pending
    /\ caller[r] = "done" => returned[r] = Answer(r, request[r]) /\ outcome[r] = returned[r]
    /\ Known(r) => request[r] < next_id
    /\ \A s \in Requests \ {r} : Known(r) /\ Known(s) => request[s] # request[r]

\* The requests that have an id and are not queued yet.
Submitting == {r \in Requests : caller[r] = "submit"}
CountInv ==
    /\ total + Len(queue) + Cardinality(Submitting) <= next_id
    /\ main \notin {"stats", "report"} => snapshot = NoSnapshot
    /\ main = "stats" => snapshot.total <= total /\ snapshot.depth = 0
    /\ snapshot.total + snapshot.depth <= next_id

\* Until stop() the GIL is only kept by stats().
GilInv ==
    /\ worker = "none" <=> main \in {"new", "failed"}
    /\ worker = "none" => ~stop_requested /\ \A r \in Requests : caller[r] = "idle"
    /\ ~stop_requested => worker # "exited" /\ (main \in {"stats", "report"} \/ gil = Nobody)

\* The engine's time for the i-th request of the queue: the full batches ahead
\* of it and its own.
Room(i) == MaxExec * (1 + (i - 1) \div MaxBatchSize)

\* What that request has left to wait at most.  The window is shorter only for
\* the requests of the next batch.
Left ==
    [i \in Nat \ {0} |->
        Room(i) + (IF worker = "window" /\ i <= MaxBatchSize THEN window ELSE MaxWait)
                + (IF worker = "engine" THEN exec ELSE 0)]

Deadline == [r \in Requests |-> Bound(ahead[r])]

TimeInv ==
    /\ \A r \in Requests :
          /\ caller[r] \in {"idle", "entering", "submit"} => age[r] = 0
          /\ caller[r] = "waiting" => age[r] <= Deadline[r]
          /\ caller[r] = "waiting" /\ outcome[r] = Pending =>
                \/ \E i \in 1..Len(queue) : queue[i].of = r
                \/ \E i \in 1..Len(batch) : batch[i].of = r
    /\ \A i \in 1..Len(queue) : age[queue[i].of] + Left[i] <= Deadline[queue[i].of]
    /\ \A i \in 1..Len(batch) : age[batch[i].of] + exec <= Deadline[batch[i].of]

RuntimeInv ==
    /\ RuntimeTypeOK /\ PlaceInv /\ CountInv /\ GilInv
    /\ ~stop_requested => TimeInv
    /\ \A r \in Requests : AnswerInv(r)
-----------------------------------------------------------------------------
(* Arithmetic and sequences. *)

\* A request that is a batch further back has one engine call more to wait for.
LEMMA RoomFacts ==
    ASSUME NEW i \in Nat \ {0}
    PROVE  /\ Room(i) \in Nat /\ MaxExec <= Room(i) /\ MaxExec \in Nat
           /\ Room(i + MaxBatchSize) = Room(i) + MaxExec
<1>1. PICK n \in Nat, d \in Nat, e \in Nat :
        n = i - 1 /\ d = n \div MaxBatchSize /\ e = (n + MaxBatchSize) \div MaxBatchSize
  <2>1. \A n \in Nat : n \div MaxBatchSize \in Nat
    BY WindowAssumption
  <2>2. i - 1 \in Nat /\ (i - 1) + MaxBatchSize \in Nat
    BY WindowAssumption
  <2> QED
    BY <2>1, <2>2, Zenon
<1>2. e = d + 1
  BY <1>1, WindowAssumption
<1>3. MaxExec * (1 + e) = MaxExec * (1 + d) + MaxExec /\ MaxExec * (1 + d) \in Nat
      /\ MaxExec <= MaxExec * (1 + d)
  BY <1>2, WindowAssumption
<1>4. Room(i) = MaxExec * (1 + d) /\ Room(i + MaxBatchSize) = MaxExec * (1 + e)
  <2>1. (i + MaxBatchSize) - 1 = n + MaxBatchSize
    BY <1>1, WindowAssumption
  <2> QED
    BY <1>1, <2>1, Zenon DEF Room
<1> QED
  BY <1>3, <1>4, WindowAssumption

\* The bound is what a request has left when it is queued behind n others and
\* the engine has just begun a batch.
LEMMA BoundFacts ==
    ASSUME NEW n \in Nat
    PROVE  Bound(n) \in Nat /\ Bound(n) = MaxExec + Room(n + 1) + MaxWait
<1>1. PICK d \in Nat : d = n \div MaxBatchSize
  BY WindowAssumption
<1>2. (n + 1) - 1 = n
  OBVIOUS
<1>3. Bound(n) = MaxExec * (2 + d) + MaxWait /\ Room(n + 1) = MaxExec * (1 + d)
  BY <1>1, <1>2, Zenon DEF Bound, Room
<1>4. MaxExec * (2 + d) = MaxExec + MaxExec * (1 + d) /\ MaxExec * (2 + d) \in Nat
  BY WindowAssumption
<1> QED
  BY <1>3, <1>4, WindowAssumption

\* A sequence that has grown by one element.
LEMMA GrownFacts ==
    ASSUME NEW T, NEW q \in Seq(T), NEW e \in T, NEW longer, longer = Append(q, e)
    PROVE  /\ longer \in Seq(T) /\ Len(longer) = Len(q) + 1 /\ Len(q) \in Nat
           /\ \A i \in 1..Len(q) : longer[i] = q[i]
           /\ longer[Len(q) + 1] = e
OBVIOUS

\* A sequence cut in two.
LEMMA CutFacts ==
    ASSUME NEW T, NEW q \in Seq(T), NEW n \in 0..Len(q), NEW front, NEW rest,
           front = SubSeq(q, 1, n), rest = SubSeq(q, n + 1, Len(q))
    PROVE  /\ front \in Seq(T) /\ Len(front) = n /\ \A i \in 1..n : front[i] = q[i]
           /\ rest \in Seq(T) /\ Len(rest) = Len(q) - n
           /\ \A i \in 1..(Len(q) - n) : rest[i] = q[n + i]
<1>1. Len(q) \in Nat
  OBVIOUS
<1>2. front \in Seq(T) /\ Len(front) = n /\ \A i \in 1..n : front[i] = q[i]
  BY <1>1
<1>3. rest \in Seq(T) /\ Len(rest) = Len(q) - n
  BY <1>1
<1>4. \A i \in 1..(Len(q) - n) : rest[i] = q[n + i]
  BY <1>1, <1>3
<1> QED
  BY <1>2, <1>3, <1>4
-----------------------------------------------------------------------------
(* The steps. *)

\* What the types say of the sequences.
LEMMA SequenceTypes ==
    ASSUME RuntimeTypeOK
    PROVE  /\ Len(queue) \in Nat /\ \A i \in 1..Len(queue) : queue[i] \in Entry /\ queue[i].of \in Requests
           /\ Len(batch) \in Nat /\ \A i \in 1..Len(batch) : batch[i] \in Entry /\ batch[i].of \in Requests
<1>1. queue \in Seq(Entry) /\ batch \in Seq(Entry)
  BY DEF RuntimeTypeOK
<1>2. /\ Len(queue) \in Nat /\ \A i \in 1..Len(queue) : queue[i] \in Entry
      /\ Len(batch) \in Nat /\ \A i \in 1..Len(batch) : batch[i] \in Entry
  BY <1>1
<1>3. \A e \in Entry : e.of \in Requests
  BY DEF Entry
<1> QED
  BY <1>2, <1>3, Zenon

\* The requests being submitted are finitely many.
LEMMA SubmittingFacts ==
    IsFiniteSet(Submitting) /\ Cardinality(Submitting) \in Nat
<1>1. IsFiniteSet(Submitting)
  BY WindowAssumption, FS_Subset DEF Submitting
<1> QED
  BY <1>1, FS_CardinalityType

\* A step that leaves the calls, the queue and the worker alone.
LEMMA SameCalls ==
    ASSUME RuntimeInv, queue' = queue, batch' = batch, worker' = worker, window' = window,
           exec' = exec, outcome' = outcome, request' = request, caller' = caller, age' = age,
           ahead' = ahead, returned' = returned, next_id' = next_id,
           stop_requested' \/ stop_requested' = stop_requested
    PROVE  /\ PlaceInv' /\ \A r \in Requests : AnswerInv(r)'
           /\ ~stop_requested' => TimeInv'
<1>1. PlaceInv'
  BY Zenon DEF RuntimeInv, PlaceInv, Waits
<1>2. ASSUME NEW r \in Requests PROVE AnswerInv(r)'
  BY Zenon DEF RuntimeInv, AnswerInv, Known
<1>3. ASSUME ~stop_requested' PROVE TimeInv'
  <2>1. TimeInv
    BY <1>3 DEF RuntimeInv
  <2>2. Left' = Left /\ Deadline' = Deadline
    BY DEF Left, Room, Deadline, Bound
  <2> QED
    BY <2>1, <2>2, Zenon DEF TimeInv
<1> QED
  BY <1>1, <1>2, <1>3

\* stats() and stop().
LEMMA MainStep ==
    ASSUME RuntimeInv,
           ReadCounters \/ ReadDepth \/ Report \/ Shutdown \/ ExitContext \/ Delete \/ Join
    PROVE  RuntimeInv'
<1>1. /\ queue' = queue /\ batch' = batch /\ worker' = worker /\ window' = window
      /\ exec' = exec /\ outcome' = outcome /\ request' = request /\ caller' = caller
      /\ age' = age /\ ahead' = ahead /\ returned' = returned /\ next_id' = next_id /\ total' = total
  BY DEF ReadCounters, ReadDepth, Report, Shutdown, ExitContext, Delete, Join, Stop, StopQueue,
         UnchangedCalls, queueVars
<1>2. stop_requested' \in BOOLEAN /\ running' \in BOOLEAN /\ (stop_requested => stop_requested')
  BY Zenon DEF RuntimeInv, RuntimeTypeOK, ReadCounters, ReadDepth, Report, Shutdown, ExitContext, Delete,
         Join, Stop, StopQueue, queueVars
<1>3. stop_requested' \/ stop_requested' = stop_requested
  BY <1>2 DEF RuntimeInv, RuntimeTypeOK
<1>4. PlaceInv' /\ (~stop_requested' => TimeInv') /\ \A r \in Requests : AnswerInv(r)'
  BY <1>1, <1>3, SameCalls
<1>5. Submitting' = Submitting
  BY <1>1 DEF Submitting
<1>6. snapshot' \in [total : Nat, depth : Nat] /\ CountInv'
  <2>1. PICK n \in Nat, m \in Nat : n = Cardinality(Submitting) /\ m = Len(queue)
    BY SubmittingFacts, SequenceTypes DEF RuntimeInv
  <2>2. /\ total \in Nat /\ next_id \in Nat /\ total + m + n <= next_id
        /\ snapshot \in [total : Nat, depth : Nat]
        /\ main \notin {"stats", "report"} => snapshot = NoSnapshot
        /\ main = "stats" => snapshot.total <= total /\ snapshot.depth = 0
        /\ snapshot.total + snapshot.depth <= next_id
    BY <2>1, Zenon DEF RuntimeInv, RuntimeTypeOK, CountInv
  <2> SUFFICES /\ snapshot' \in [total : Nat, depth : Nat]
               /\ main' \notin {"stats", "report"} => snapshot' = NoSnapshot
               /\ main' = "stats" => snapshot'.total <= total /\ snapshot'.depth = 0
               /\ snapshot'.total + snapshot'.depth <= next_id
    BY <1>1, <1>5, <2>1, <2>2, Zenon DEF CountInv
  <2>3. CASE ReadCounters
    <3>1. snapshot' = [snapshot EXCEPT !.total = total] /\ main' = "stats" /\ snapshot = NoSnapshot
      BY <2>2, <2>3 DEF ReadCounters
    <3> QED
      BY <2>2, <3>1 DEF NoSnapshot
  <2>4. CASE ReadDepth
    <3>1. snapshot' = [snapshot EXCEPT !.depth = m] /\ main' = "report" /\ snapshot.total <= total
      BY <2>1, <2>2, <2>4 DEF ReadDepth
    <3> QED
      BY <2>2, <3>1
  <2>5. CASE Report
    BY <2>2, <2>5 DEF Report, NoSnapshot
  <2>6. CASE Shutdown \/ ExitContext \/ Delete \/ Join
    <3>1. /\ snapshot' = snapshot /\ main \notin {"stats", "report"}
          /\ main' \notin {"stats", "report"}
      BY <2>6 DEF Shutdown, ExitContext, Delete, Join, Stop
    <3> QED
      BY <2>2, <3>1
  <2> QED
    BY <2>3, <2>4, <2>5, <2>6
<1>7. GilInv'
  BY <1>1, <1>2 DEF RuntimeInv, GilInv, RuntimeTypeOK, ReadCounters, ReadDepth, Report, Shutdown, ExitContext,
         Delete, Join, Stop, StopQueue, queueVars, Free
<1>8. RuntimeTypeOK'
  BY <1>1, <1>2, <1>6 DEF RuntimeInv, RuntimeTypeOK
<1> QED
  BY <1>4, <1>6, <1>7, <1>8 DEF RuntimeInv

\* Where a predict() that is not queued goes, the queue does not notice.
LEMMA CallerMoves ==
    ASSUME RuntimeInv, NEW r \in Requests, UNCHANGED queueVars,
           caller[r] # "waiting" \/ outcome[r] # Pending, caller'[r] # "waiting",
           ~stop_requested /\ caller'[r] \in {"idle", "entering", "submit"} => age'[r] = 0,
           \A s \in Requests \ {r} : /\ caller'[s] = caller[s] /\ request'[s] = request[s]
                                     /\ age'[s] = age[s] /\ ahead'[s] = ahead[s]
    PROVE  PlaceInv' /\ (~stop_requested' => TimeInv')
<1>1. /\ queue' = queue /\ batch' = batch /\ worker' = worker /\ window' = window /\ exec' = exec
      /\ outcome' = outcome /\ stop_requested' = stop_requested
  BY DEF queueVars
<1>2. PlaceInv
  BY DEF RuntimeInv
<1>3. \A i \in 1..Len(queue) : queue[i].of \in Requests \ {r}
  BY <1>2 DEF PlaceInv, Waits
<1>4. \A i \in 1..Len(batch) : batch[i].of \in Requests \ {r}
  BY <1>2 DEF PlaceInv, Waits
<1>5. PlaceInv'
  <2>1. /\ \A i \in 1..Len(queue) : Waits(queue[i])'
        /\ \A i \in 1..Len(batch) : Waits(batch[i])'
    BY <1>1, <1>2, <1>3, <1>4 DEF PlaceInv, Waits
  <2> QED
    BY <1>1, <1>2, <2>1, Zenon DEF PlaceInv
<1>6. ASSUME ~stop_requested' PROVE TimeInv'
  <2>0. TimeInv
    BY <1>1, <1>6 DEF RuntimeInv
  <2>1. Left' = Left
    BY <1>1 DEF Left, Room
  <2>2. \A s \in Requests \ {r} : Deadline'[s] = Deadline[s]
    BY DEF Deadline, Bound
  <2>3. \A i \in 1..Len(queue) : age'[queue[i].of] + Left[i] <= Deadline'[queue[i].of]
    BY <1>3, <2>0, <2>2, Zenon DEF TimeInv
  <2>4. \A i \in 1..Len(batch) : age'[batch[i].of] + exec <= Deadline'[batch[i].of]
    BY <1>4, <2>0, <2>2, Zenon DEF TimeInv
  <2>5. \A s \in Requests :
          /\ caller'[s] \in {"idle", "entering", "submit"} => age'[s] = 0
          /\ caller'[s] = "waiting" => age'[s] <= Deadline'[s]
          /\ caller'[s] = "waiting" /\ outcome[s] = Pending =>
                \/ \E i \in 1..Len(queue) : queue[i].of = s
                \/ \E i \in 1..Len(batch) : batch[i].of = s
    BY <1>1, <1>6, <2>0, <2>2, Zenon DEF TimeInv
  <2> QED
    BY <1>1, <2>1, <2>3, <2>4, <2>5, Zenon DEF TimeInv
<1> QED
  BY <1>5, <1>6

\* Nor do the other calls, unless it takes an id of theirs.
LEMMA OthersAnswer ==
    ASSUME RuntimeInv, NEW r \in Requests, next_id' \in Nat, next_id <= next_id',
           \A s \in Requests \ {r} : /\ caller'[s] = caller[s] /\ request'[s] = request[s]
                                     /\ outcome'[s] = outcome[s] /\ returned'[s] = returned[s],
           Known(r)' => \A s \in Requests \ {r} : Known(s) => request[s] # request'[r]
    PROVE  \A s \in Requests \ {r} : AnswerInv(s)'
<1> SUFFICES ASSUME NEW s \in Requests \ {r} PROVE AnswerInv(s)'
  OBVIOUS
<1>1. AnswerInv(s)
  BY DEF RuntimeInv
<1>2. Known(s) => request'[s] < next_id'
  <2>1. request[s] \in Nat /\ next_id \in Nat
    BY DEF RuntimeInv, RuntimeTypeOK
  <2> QED
    BY <1>1, <2>1 DEF AnswerInv
<1>3. \A u \in Requests \ {s} : Known(s)' /\ Known(u)' => request'[u] # request'[s]
  BY <1>1, Zenon DEF AnswerInv, Known
<1> QED
  BY <1>1, <1>2, <1>3, Zenon DEF AnswerInv, Known

\* How the number of submitted requests follows one of them.
LEMMA SubmittingMoves ==
    ASSUME RuntimeTypeOK, NEW r \in Requests, NEW place, Goto(r, place)
    PROVE  /\ caller[r] # "submit" /\ place = "submit" =>
                 Cardinality(Submitting)' = Cardinality(Submitting) + 1
           /\ caller[r] = "submit" /\ place # "submit" =>
                 Cardinality(Submitting)' = Cardinality(Submitting) - 1
           /\ caller[r] # "submit" /\ place # "submit" =>
                 Cardinality(Submitting)' = Cardinality(Submitting)
<1>1. caller'[r] = place /\ \A s \in Requests \ {r} : caller'[s] = caller[s]
  BY DEF RuntimeTypeOK, Goto
<1>2. IsFiniteSet(Submitting)
  BY SubmittingFacts
<1>3. ASSUME caller[r] # "submit", place = "submit"
      PROVE  Cardinality(Submitting)' = Cardinality(Submitting) + 1
  <2>1. Submitting' = Submitting \union {r} /\ r \notin Submitting
    BY <1>1, <1>3 DEF Submitting
  <2> QED
    BY <1>2, <2>1, FS_AddElement, Zenon
<1>4. ASSUME caller[r] = "submit", place # "submit"
      PROVE  Cardinality(Submitting)' = Cardinality(Submitting) - 1
  <2>1. Submitting' = Submitting \ {r} /\ r \in Submitting
    BY <1>1, <1>4 DEF Submitting
  <2> QED
    BY <1>2, <2>1, FS_RemoveElement, Zenon
<1>5. ASSUME caller[r] # "submit", place # "submit"
      PROVE  Cardinality(Submitting)' = Cardinality(Submitting)
  <2>1. Submitting' = Submitting
    BY <1>1, <1>5 DEF Submitting
  <2> QED
    BY <2>1
<1> QED
  BY <1>3, <1>4, <1>5, Zenon

\* A step that leaves stats() alone counts right if the sum does.
LEMMA CountKept ==
    ASSUME RuntimeInv, main' = main, snapshot' = snapshot, total' \in Nat, total <= total',
           next_id' \in Nat, next_id <= next_id',
           total' + Len(queue') + Cardinality(Submitting)' <= next_id'
    PROVE  CountInv'
<1>1. /\ total \in Nat /\ next_id \in Nat /\ snapshot.total \in Nat /\ snapshot.depth \in Nat
      /\ snapshot.total + snapshot.depth <= next_id
      /\ main = "stats" => snapshot.total <= total
  BY DEF RuntimeInv, RuntimeTypeOK, CountInv
<1>2. /\ snapshot.total + snapshot.depth <= next_id'
      /\ main = "stats" => snapshot.total <= total'
  BY <1>1
<1> QED
  BY <1>2, Zenon DEF RuntimeInv, CountInv, NoSnapshot

\* The constructor: no call has been made.
LEMMA ConstructStep ==
    ASSUME RuntimeInv, NEW model \in BOOLEAN, Construct(model)
    PROVE  RuntimeInv'
<1>1. /\ queue' = queue /\ batch' = batch /\ window' = window /\ exec' = exec /\ total' = total
      /\ outcome' = outcome /\ request' = request /\ caller' = caller /\ age' = age
      /\ ahead' = ahead /\ returned' = returned /\ next_id' = next_id /\ snapshot' = snapshot
      /\ stop_requested' = stop_requested /\ gil' = gil
      /\ main = "new" /\ main' \in {"open", "failed"}
  BY DEF Construct, Start, queueVars
<1>2. /\ main' = "open" => worker' = "phase1" /\ running' = TRUE
      /\ main' = "failed" => worker' = worker /\ running' = running
  BY DEF Construct, Start, queueVars
<1>3. /\ worker = "none" /\ gil = Nobody /\ ~stop_requested
      /\ \A r \in Requests : caller[r] = "idle"
  BY <1>1 DEF RuntimeInv, GilInv
<1>4. \A i \in 1..Len(queue) : FALSE
  BY <1>3 DEF RuntimeInv, PlaceInv, Waits
<1>5. \A i \in 1..Len(batch) : FALSE
  BY <1>3 DEF RuntimeInv, PlaceInv, Waits
<1>6. PlaceInv'
  BY <1>1, <1>3, <1>4, <1>5, Zenon DEF RuntimeInv, PlaceInv
<1>7. ASSUME NEW r \in Requests PROVE AnswerInv(r)'
  BY <1>1, Zenon DEF RuntimeInv, AnswerInv, Known
<1>8. TimeInv'
  <2>1. TimeInv
    BY <1>3 DEF RuntimeInv
  <2> QED
    BY <1>1, <1>3, <1>4, <1>5, <2>1 DEF TimeInv
<1>9. CountInv'
  BY <1>1 DEF RuntimeInv, CountInv, Submitting
<1>10. GilInv'
  BY <1>1, <1>2, <1>3 DEF GilInv
<1>11. RuntimeTypeOK'
  BY <1>1, <1>2, Zenon DEF RuntimeInv, RuntimeTypeOK
<1> QED
  BY <1>6, <1>7, <1>8, <1>9, <1>10, <1>11 DEF RuntimeInv

\* The sum CountInv bounds, when one more or one fewer call is submitting.
LEMMA CountArithmetic ==
    \A t, m, n, i, j \in Nat : \A c :
        /\ t + m + n <= i /\ i <= j
        /\ c \in {n, n - 1} \/ (c = n + 1 /\ j = i + 1)
        => t + m + c <= j
OBVIOUS

\* What a step of one call has to show.
LEMMA CallerStep ==
    ASSUME RuntimeInv, NEW r \in Requests, NEW place, Goto(r, place), UNCHANGED queueVars,
           place \in {"entering", "submit", "refused", "done", "raised"},
           caller[r] # "waiting" \/ outcome[r] # Pending, main' = main, snapshot' = snapshot,
           request' \in [Requests -> Nat], age' \in [Requests -> Nat], ahead' \in [Requests -> Nat],
           DOMAIN returned' = Requests, next_id' \in Nat, next_id <= next_id',
           \A s \in Requests \ {r} : /\ request'[s] = request[s] /\ age'[s] = age[s]
                                     /\ ahead'[s] = ahead[s] /\ returned'[s] = returned[s],
           ~stop_requested /\ place \in {"entering", "submit"} => age'[r] = 0,
           place = "submit" => caller[r] # "submit" /\ next_id' = next_id + 1,
           place \in {"submit", "refused", "done"} =>
               \A s \in Requests \ {r} : Known(s) => request[s] # request'[r],
           AnswerInv(r)', gil' \in {gil, Nobody}, worker # "none"
    PROVE  RuntimeInv'
<1>1. caller'[r] = place /\ \A s \in Requests \ {r} : caller'[s] = caller[s]
  BY SMTT(30) DEF RuntimeInv, RuntimeTypeOK, Goto
<1>2. /\ queue' = queue /\ batch' = batch /\ worker' = worker /\ window' = window /\ exec' = exec
      /\ outcome' = outcome /\ total' = total /\ running' = running
      /\ stop_requested' = stop_requested
  BY DEF queueVars
<1>3. PlaceInv' /\ (~stop_requested' => TimeInv')
  BY <1>1, CallerMoves, ZenonT(30)
<1>4. \A s \in Requests : AnswerInv(s)'
  <2>1. Known(r)' => \A s \in Requests \ {r} : Known(s) => request[s] # request'[r]
    BY <1>1 DEF Known
  <2>2. \A s \in Requests \ {r} : AnswerInv(s)'
    BY <1>1, <1>2, <2>1, OthersAnswer, ZenonT(30)
  <2> QED
    BY <2>2, Zenon
<1>5. CountInv'
  <2>1. PICK n \in Nat, m \in Nat : n = Cardinality(Submitting) /\ m = Len(queue)
    BY SubmittingFacts, SequenceTypes, Zenon DEF RuntimeInv
  <2>2. /\ place = "submit" => Cardinality(Submitting)' = n + 1
        /\ place # "submit" => Cardinality(Submitting)' \in {n, n - 1}
    BY <2>1, SubmittingMoves DEF RuntimeInv
  <2>3. total \in Nat /\ next_id \in Nat /\ total + m + n <= next_id
    BY <2>1, Zenon DEF RuntimeInv, RuntimeTypeOK, CountInv
  <2>4. total' + Len(queue') + Cardinality(Submitting)' <= next_id'
    <3>1. \/ Cardinality(Submitting)' \in {n, n - 1}
          \/ Cardinality(Submitting)' = n + 1 /\ next_id' = next_id + 1
      BY <2>2, Zenon
    <3>2. total' = total /\ Len(queue') = m /\ next_id' \in Nat /\ next_id <= next_id'
      BY <1>2, <2>1, Zenon
    <3> QED
      BY <2>3, <3>1, <3>2, CountArithmetic, Zenon
  <2>5. total' \in Nat /\ total <= total'
    <3>1. \A t \in Nat : t <= t
      BY SMTT(30)
    <3> QED
      BY <1>2, <2>3, <3>1, Zenon
  <2> QED
    BY <2>4, <2>5, CountKept, Zenon
<1>6. GilInv'
  BY <1>2 DEF RuntimeInv, GilInv
<1>7. RuntimeTypeOK'
  BY <1>1, <1>2, Zenon DEF RuntimeInv, RuntimeTypeOK, Goto
<1> QED
  BY <1>3, <1>4, <1>5, <1>6, <1>7, Zenon DEF RuntimeInv

\* The steps of predict() but for the one that queues it.
LEMMA PredictStep ==
    ASSUME RuntimeInv, NEW r \in Requests,
           \/ Call(r) \/ Enter(r) \/ Return(r) \/ RaiseRefused(r)
           \/ Submit(r) /\ UNCHANGED queueVars
    PROVE  RuntimeInv'
<1>1. /\ AnswerInv(r) /\ GilInv /\ RuntimeTypeOK
      /\ request[r] \in Nat /\ next_id \in Nat
      /\ \A s \in Requests \ {r} : Known(s) => request[s] < next_id /\ request[s] \in Nat
      /\ \A s \in Requests \ {r} : Known(r) /\ Known(s) => request[s] # request[r]
  BY DEF RuntimeInv, RuntimeTypeOK, AnswerInv
<1>2. caller[r] # "idle" => worker # "none"
  BY <1>1, SMTT(30) DEF GilInv
<1>3. ASSUME NEW place \in {"entering", "refused", "raised"}, Goto(r, place),
             UNCHANGED <<queueVars, request, next_id, returned, main, snapshot>>,
             \/ age' = age /\ ahead' = ahead
             \/ age' = [age EXCEPT ![r] = 0] /\ ahead' = [ahead EXCEPT ![r] = 0],
             caller[r] # "waiting" \/ outcome[r] # Pending, gil' \in {gil, Nobody},
             place \in {"entering", "refused"} => outcome[r] = Pending,
             ~stop_requested /\ place = "entering" => age'[r] = 0,
             place = "refused" => caller[r] = "submit",
             worker # "none"
      PROVE  RuntimeInv'
  <2>1. /\ request' = request /\ next_id' = next_id /\ returned' = returned /\ main' = main
        /\ snapshot' = snapshot /\ outcome' = outcome /\ UNCHANGED queueVars
    BY <1>3, ZenonT(30) DEF queueVars
  <2>2. /\ age' \in [Requests -> Nat] /\ ahead' \in [Requests -> Nat]
        /\ \A s \in Requests \ {r} : age'[s] = age[s] /\ ahead'[s] = ahead[s]
    <3>1. age \in [Requests -> Nat] /\ ahead \in [Requests -> Nat]
      BY <1>1 DEF RuntimeTypeOK
    <3>2. CASE age' = age /\ ahead' = ahead
      BY <3>1, <3>2
    <3>3. CASE age' = [age EXCEPT ![r] = 0] /\ ahead' = [ahead EXCEPT ![r] = 0]
      BY <3>1, <3>3, SMTT(30)
    <3> QED
      BY <1>3, <3>2, <3>3, ZenonT(30)
  <2>3. AnswerInv(r)'
    <3>1. caller'[r] = place /\ \A s \in Requests \ {r} : caller'[s] = caller[s]
      BY <1>1, <1>3, SMTT(30) DEF RuntimeTypeOK, Goto
    <3> QED
      BY <1>1, <1>3, <2>1, <3>1, SMTT(30) DEF AnswerInv, Known, Answer
  <2>4. place \in {"submit", "refused", "done"} =>
            \A s \in Requests \ {r} : Known(s) => request[s] # request'[r]
    BY <1>1, <1>3, <2>1, SMTT(30) DEF Known
  <2>5. /\ request' \in [Requests -> Nat] /\ DOMAIN returned' = Requests /\ next_id' \in Nat
        /\ next_id <= next_id'
    BY <1>1, <2>1, SMTT(30) DEF RuntimeTypeOK
  <2> QED
    BY <1>3, <2>1, <2>2, <2>3, <2>4, <2>5, CallerStep, ZenonT(30)
<1>4. CASE Call(r)
  <2>1. worker # "none"
    BY <1>1, <1>4 DEF Call, GilInv
  <2>2. outcome[r] = Pending /\ (~stop_requested => age'[r] = 0)
    <3>1. caller[r] = "idle" /\ age' = age
      BY <1>4 DEF Call
    <3> QED
      BY <1>1, <3>1, Zenon DEF AnswerInv, RuntimeInv, TimeInv
  <2> QED
    BY <1>3, <1>4, <2>1, <2>2, ZenonT(30) DEF Call, UnchangedBut
<1>5. CASE Enter(r)
  <2>1. /\ caller[r] = "entering" /\ gil = Nobody /\ worker # "none" /\ outcome[r] = Pending
        /\ UNCHANGED queueVars /\ returned' = returned /\ main' = main /\ snapshot' = snapshot
        /\ ~stop_requested => age[r] = 0
    BY <1>1, <1>2, <1>5, Zenon DEF Enter, UnchangedBut, AnswerInv, RuntimeInv, TimeInv
  <2>2. CASE Leave(r, "raised") /\ request' = request /\ next_id' = next_id
    BY <1>3, <2>1, <2>2, SMTT(30) DEF Leave
  <2>3. CASE /\ request' = [request EXCEPT ![r] = next_id] /\ next_id' = next_id + 1
             /\ Goto(r, "submit") /\ gil' = gil /\ age' = age /\ ahead' = ahead
    <3>1. /\ request \in [Requests -> Nat] /\ age \in [Requests -> Nat]
          /\ ahead \in [Requests -> Nat] /\ DOMAIN returned = Requests
          /\ caller'[r] = "submit" /\ \A s \in Requests \ {r} : caller'[s] = caller[s]
      BY <1>1, <2>3 DEF RuntimeTypeOK, Goto
    <3>2. /\ request' \in [Requests -> Nat] /\ request'[r] = next_id
          /\ \A s \in Requests \ {r} : request'[s] = request[s]
          /\ next_id' \in Nat /\ next_id <= next_id' /\ next_id < next_id'
      BY <1>1, <2>3, <3>1
    <3>3. \A s \in Requests \ {r} : Known(s) => request[s] # request'[r]
      BY <1>1, <3>2
    <3>4. AnswerInv(r)'
      <4>1. outcome' = outcome
        BY <2>1, Zenon DEF queueVars
      <4>2. \A s \in Requests \ {r} : Known(s)' => request'[s] # request'[r]
        BY <3>1, <3>2, <3>3, Zenon DEF Known
      <4> QED
        BY <2>1, <3>1, <3>2, <4>1, <4>2 DEF AnswerInv
    <3> QED
      BY <2>1, <2>3, <3>1, <3>2, <3>3, <3>4, CallerStep
  <2> QED
    BY <1>5, <2>2, <2>3 DEF Enter
<1>6. CASE Return(r)
  <2>1. /\ caller[r] = "waiting" /\ outcome[r] # Pending /\ worker # "none" /\ gil' = Nobody
        /\ UNCHANGED queueVars /\ main' = main /\ snapshot' = snapshot
        /\ request' = request /\ next_id' = next_id
        /\ age' = [age EXCEPT ![r] = 0] /\ ahead' = [ahead EXCEPT ![r] = 0]
    BY <1>1, <1>2, <1>6 DEF Return, Leave, UnchangedBut
  <2>2. /\ age' \in [Requests -> Nat] /\ ahead' \in [Requests -> Nat]
        /\ \A s \in Requests \ {r} : age'[s] = age[s] /\ ahead'[s] = ahead[s]
        /\ request' \in [Requests -> Nat] /\ next_id' \in Nat /\ next_id <= next_id'
    BY <1>1, <2>1 DEF RuntimeTypeOK
  <2>3. /\ DOMAIN returned' = Requests
        /\ \A s \in Requests \ {r} : returned'[s] = returned[s]
        /\ returned'[r] = IF outcome[r] = Failure THEN Failure
                                                 ELSE [outcome[r] EXCEPT !.id = request[r]]
    BY <1>1, <1>6 DEF Return, RuntimeTypeOK
  <2>4. PICK place \in {"raised", "done"} :
          Goto(r, place) /\ (place = "done" => outcome[r] # Failure)
    BY <1>6 DEF Return, Leave
  <2>5. caller'[r] = place /\ \A s \in Requests \ {r} : caller'[s] = caller[s]
    BY <1>1, <2>4 DEF RuntimeTypeOK, Goto
  <2>6. Known(r) /\ request[r] < next_id
    BY <1>1, <2>1 DEF AnswerInv, Known
  <2>7. \A s \in Requests \ {r} : Known(s) => request[s] # request'[r]
    BY <1>1, <2>1, <2>6
  <2>8. AnswerInv(r)'
    <3>1. outcome' = outcome /\ outcome[r] \in {Failure, Answer(r, request[r])}
      BY <1>1, <2>1, Zenon DEF queueVars, AnswerInv
    <3>2. place = "done" => returned'[r] = Answer(r, request[r]) /\ outcome[r] = returned'[r]
      BY <2>3, <2>4, <3>1 DEF Answer
    <3>3. \A s \in Requests \ {r} : Known(s)' => request'[s] # request'[r]
      BY <2>1, <2>5, <2>7 DEF Known
    <3> QED
      BY <2>1, <2>4, <2>5, <2>6, <3>1, <3>2, <3>3, Zenon DEF AnswerInv
  <2> QED
    BY <2>1, <2>2, <2>3, <2>4, <2>7, <2>8, CallerStep
<1>7. CASE RaiseRefused(r)
  <2>1. caller[r] = "refused" /\ worker # "none"
    BY <1>2, <1>7 DEF RaiseRefused
  <2> QED
    BY <1>3, <1>7, <2>1 DEF RaiseRefused, Leave, UnchangedBut
<1>8. CASE Submit(r) /\ UNCHANGED queueVars
  <2>1. caller[r] = "submit" /\ worker # "none" /\ outcome[r] = Pending
    BY <1>1, <1>2, <1>8 DEF Submit, AnswerInv
  <2>2. ~Push(r, request[r])
    <3>1. queue' = queue /\ Len(queue) \in Nat /\ queue \in Seq(Entry)
      BY <1>1, <1>8, SequenceTypes DEF queueVars, RuntimeTypeOK
    <3>2. [of |-> r, id |-> request[r]] \in Entry
      BY <1>1 DEF Entry
    <3> QED
      BY <3>1, <3>2, GrownFacts DEF Push
  <2> QED
    BY <1>3, <1>8, <2>1, <2>2, SMTT(30) DEF Submit, UnchangedBut
<1> QED
  BY <1>4, <1>5, <1>6, <1>7, <1>8, SMTT(30)

\* A request that is queued: what it has left is within its bound.
LEMMA PushStep ==
    ASSUME RuntimeInv, NEW r \in Requests, Submit(r), ~UNCHANGED queueVars
    PROVE  RuntimeInv'
<1> DEFINE e == [of |-> r, id |-> request[r]]
<1>1. /\ queue' = Append(queue, e) /\ Goto(r, "waiting")
      /\ ahead' = [ahead EXCEPT ![r] = Len(queue)] /\ caller[r] = "submit"
      /\ ~stop_requested /\ stop_requested' = stop_requested /\ running' = running
      /\ worker' = worker /\ window' = window /\ exec' = exec /\ batch' = batch
      /\ total' = total /\ outcome' = outcome /\ gil' = gil /\ request' = request
      /\ next_id' = next_id /\ age' = age /\ returned' = returned /\ main' = main
      /\ snapshot' = snapshot
  BY DEF Submit, Push, UnchangedBut
<1>2. RuntimeTypeOK /\ PlaceInv /\ GilInv /\ TimeInv /\ AnswerInv(r)
  BY <1>1 DEF RuntimeInv
<1>3. e \in Entry /\ e.of = r /\ e.id = request[r]
  BY <1>2 DEF Entry, RuntimeTypeOK
<1> HIDE DEF e
<1>4. PICK m \in Nat : m = Len(queue)
  BY <1>2, SequenceTypes, SMTT(30)
<1>5. /\ queue' \in Seq(Entry) /\ Len(queue') = m + 1 /\ queue'[m + 1] = e
      /\ \A i \in 1..m : queue'[i] = queue[i]
  <2>1. queue \in Seq(Entry)
    BY <1>2 DEF RuntimeTypeOK
  <2> QED
    BY <1>1, <1>3, <1>4, <2>1, GrownFacts, SMTT(30)
<1>6. \A i \in 1..(m + 1) : i \in 1..m \/ i = m + 1
  OBVIOUS
<1>7. /\ caller'[r] = "waiting" /\ \A s \in Requests \ {r} : caller'[s] = caller[s]
      /\ caller' \in [Requests -> {"idle", "entering", "submit", "waiting", "refused", "done", "raised"}]
      /\ ahead'[r] = m /\ \A s \in Requests \ {r} : ahead'[s] = ahead[s]
      /\ ahead' \in [Requests -> Nat]
  BY <1>1, <1>2, <1>4, ZenonT(30) DEF RuntimeTypeOK, Goto
<1>8. \A i \in 1..m : queue[i].of \in Requests \ {r}
  BY <1>1, <1>2, <1>4, ZenonT(30) DEF PlaceInv, Waits
<1>9. \A i \in 1..Len(batch) : batch[i].of \in Requests \ {r}
  BY <1>1, <1>2, ZenonT(30) DEF PlaceInv, Waits
<1>10. outcome[r] = Pending
  BY <1>1, <1>2, Zenon DEF AnswerInv
<1>11. PlaceInv'
  <2>1. \A i \in 1..(m + 1) :
          /\ queue'[i].of \in Requests /\ queue'[i].id = request[queue'[i].of]
          /\ caller'[queue'[i].of] = "waiting" /\ outcome[queue'[i].of] = Pending
    <3>1. \A i \in 1..m :
            /\ queue[i].of \in Requests /\ queue[i].id = request[queue[i].of]
            /\ caller'[queue[i].of] = "waiting" /\ outcome[queue[i].of] = Pending
      BY <1>2, <1>4, <1>7, <1>8, Zenon DEF PlaceInv, Waits
    <3>2. /\ queue'[m + 1].of = r /\ queue'[m + 1].id = request[r]
          /\ caller'[r] = "waiting" /\ outcome[r] = Pending
      BY <1>3, <1>5, <1>7, <1>10, Zenon
    <3> QED
      BY <1>5, <1>6, <3>1, <3>2
  <2>2. \A i \in 1..Len(batch) : Waits(batch[i])'
    <3>1. \A i \in 1..Len(batch) :
            /\ batch[i].of \in Requests /\ batch[i].id = request[batch[i].of]
            /\ caller'[batch[i].of] = "waiting" /\ outcome[batch[i].of] = Pending
      BY <1>2, <1>7, <1>9, Zenon DEF PlaceInv, Waits
    <3>2. batch' = batch /\ request' = request /\ outcome' = outcome
      BY <1>1
    <3> QED
      BY <3>1, <3>2, Zenon DEF Waits
  <2>3. \A i, j \in 1..(m + 1) : queue'[i].of = queue'[j].of => i = j
    <3>1. \A i, j \in 1..m : queue[i].of = queue[j].of => i = j
      BY <1>2, <1>4, Zenon DEF PlaceInv
    <3> QED
      BY <1>3, <1>5, <1>6, <1>8, <3>1, ZenonT(30)
  <2>4. \A i \in 1..Len(batch), j \in 1..(m + 1) : batch[i].of # queue'[j].of
    <3>1. \A i \in 1..Len(batch), j \in 1..m : batch[i].of # queue[j].of
      BY <1>2, <1>4, Zenon DEF PlaceInv
    <3> QED
      BY <1>3, <1>5, <1>6, <1>9, <3>1, ZenonT(30)
  <2> QED
    <3>1. \A i \in 1..Len(queue') : Waits(queue[i])'
      BY <1>1, <1>5, <2>1, Zenon DEF Waits
    <3>2. \A i \in 1..Len(batch') : Waits(batch[i])'
      BY <1>1, <2>2
    <3>3. /\ \A i, j \in 1..Len(queue') : queue'[i].of = queue'[j].of => i = j
          /\ \A i \in 1..Len(batch'), j \in 1..Len(queue') : batch'[i].of # queue'[j].of
          /\ worker' # "engine" => Len(batch') = 0
      <4>1. worker' = worker /\ batch' = batch /\ Len(queue') = m + 1
        BY <1>1, <1>5, ZenonT(30)
      <4>2. worker # "engine" => Len(batch) = 0
        BY <1>2 DEF PlaceInv
      <4> QED
        BY <2>3, <2>4, <4>1, <4>2
    <3> QED
      BY <3>1, <3>2, <3>3, ZenonT(30) DEF PlaceInv
<1>12. \A s \in Requests : AnswerInv(s)'
  <2>1. \A s \in Requests : Known(s)' <=> Known(s)
    BY <1>1, <1>7, Zenon DEF Known
  <2>2. next_id \in Nat /\ next_id <= next_id
    BY <1>2 DEF RuntimeTypeOK
  <2>3. \A s \in Requests \ {r} : AnswerInv(s)'
    <3>1. Known(r)' => \A s \in Requests \ {r} : Known(s) => request[s] # request'[r]
      BY <1>1, <1>2, <2>1, Zenon DEF AnswerInv
    <3> QED
      BY <1>1, <1>7, <2>2, <3>1, OthersAnswer, Zenon
  <2>4. AnswerInv(r)'
    BY <1>1, <1>2, <1>7, <1>10, <2>1, Zenon DEF AnswerInv
  <2> QED
    BY <2>3, <2>4, Zenon
<1>13. CountInv'
  <2>1. PICK n \in Nat : n = Cardinality(Submitting)
    BY SubmittingFacts
  <2>2. Cardinality(Submitting)' = n - 1
    BY <1>1, <1>2, <2>1, SubmittingMoves
  <2>3. total \in Nat /\ next_id \in Nat /\ total + m + n <= next_id
    BY <1>2, <1>4, <2>1, Zenon DEF RuntimeInv, RuntimeTypeOK, CountInv
  <2>4. total' + Len(queue') + Cardinality(Submitting)' <= next_id'
    <3>1. total' = total /\ next_id' = next_id /\ Len(queue') = m + 1
      BY <1>1, <1>5, Zenon
    <3> QED
      BY <2>2, <2>3, <3>1
  <2> QED
    BY <1>1, <2>3, <2>4, CountKept
<1>14. TimeInv'
  <2>1. Left' = Left
    BY <1>1 DEF Left, Room
  <2>2. \A s \in Requests \ {r} : Deadline'[s] = Deadline[s]
    BY <1>7, SMTT(30) DEF Deadline, Bound
  <2>3. age[r] = 0 /\ 0 + Left[m + 1] <= Deadline'[r] /\ 0 <= Deadline'[r]
    <3>1. Deadline'[r] = Bound(m)
      BY <1>7 DEF Deadline, Bound
    <3>2. PICK room \in Nat : room = Room(m + 1)
      <4>1. m + 1 \in Nat \ {0}
        OBVIOUS
      <4> QED
        BY <4>1, RoomFacts, Zenon
    <3>3. Bound(m) = MaxExec + room + MaxWait
      BY <3>2, BoundFacts
    <3>4. /\ window \in Nat /\ window <= MaxWait /\ exec \in Nat /\ exec <= MaxExec
          /\ MaxWait \in Nat /\ MaxExec \in Nat
      BY <1>2, WindowAssumption DEF RuntimeTypeOK
    <3>5. PICK w \in Nat, x \in Nat : w <= MaxWait /\ x <= MaxExec /\ Left[m + 1] = room + w + x
      <4>1. Left[m + 1] = room + (IF worker = "window" /\ m + 1 <= MaxBatchSize THEN window ELSE MaxWait)
                               + (IF worker = "engine" THEN exec ELSE 0)
        BY <3>2 DEF Left
      <4> QED
        <5>1. CASE worker = "window" /\ m + 1 <= MaxBatchSize
          BY <3>2, <3>4, <4>1, <5>1
        <5>2. CASE worker = "engine"
          BY <3>2, <3>4, <4>1, <5>2
        <5>3. CASE ~(worker = "window" /\ m + 1 <= MaxBatchSize) /\ worker # "engine"
          BY <3>2, <3>4, <4>1, <5>3
        <5> QED
          BY <5>1, <5>2, <5>3
    <3> QED
      BY <1>1, <1>2, <3>1, <3>3, <3>4, <3>5 DEF TimeInv
  <2>4. \A i \in 1..(m + 1) : age[queue'[i].of] + Left[i] <= Deadline'[queue'[i].of]
    <3>1. \A i \in 1..m : age[queue[i].of] + Left[i] <= Deadline'[queue[i].of]
      BY <1>2, <1>4, <1>8, <2>2, Zenon DEF TimeInv
    <3> QED
      BY <1>3, <1>5, <1>6, <2>3, <3>1, Zenon
  <2>5. \A i \in 1..Len(batch) : age[batch[i].of] + exec <= Deadline'[batch[i].of]
    BY <1>2, <1>9, <2>2, Zenon DEF TimeInv
  <2>6. \A s \in Requests :
          caller'[s] = "waiting" /\ outcome[s] = Pending =>
             \/ \E i \in 1..(m + 1) : queue'[i].of = s
             \/ \E i \in 1..Len(batch) : batch[i].of = s
    <3>1. \E i \in 1..(m + 1) : queue'[i].of = r
      BY <1>3, <1>5
    <3>2. \A s \in Requests \ {r} : (\E i \in 1..m : queue[i].of = s) =>
             \E i \in 1..(m + 1) : queue'[i].of = s
      BY <1>5
    <3> QED
      BY <1>2, <1>4, <1>7, <3>1, <3>2, Zenon DEF TimeInv
  <2>7. \A s \in Requests :
          /\ caller'[s] \in {"idle", "entering", "submit"} => age[s] = 0
          /\ caller'[s] = "waiting" => age[s] <= Deadline'[s]
    BY <1>2, <1>7, <2>2, <2>3, ZenonT(30) DEF TimeInv
  <2> QED
    BY <1>1, <1>5, <2>1, <2>4, <2>5, <2>6, <2>7, ZenonT(30) DEF TimeInv
<1>15. GilInv'
  BY <1>1, <1>2 DEF GilInv
<1>16. RuntimeTypeOK'
  BY <1>1, <1>2, <1>5, <1>7, Zenon DEF RuntimeTypeOK
<1> QED
  BY <1>1, <1>11, <1>12, <1>13, <1>14, <1>15, <1>16, SMTT(30) DEF RuntimeInv

\* A step of the worker, or of time, in which no request changes its place.
LEMMA SameQueue ==
    ASSUME RuntimeInv, queue' = queue, batch' = batch, total' = total, outcome' = outcome,
           stop_requested' = stop_requested, running' = running, gil' = gil, main' = main,
           request' = request, caller' = caller, returned' = returned, next_id' = next_id,
           snapshot' = snapshot, ahead' = ahead, age' \in [Requests -> Nat],
           window' \in 0..MaxWait, exec' \in 0..MaxExec,
           \/ worker' = worker
           \/ worker = "phase1" /\ worker' = "window"
           \/ worker = "phase1" /\ worker' = "exited" /\ stop_requested,
           ~stop_requested => TimeInv'
    PROVE  RuntimeInv'
<1>1. /\ worker' \in {"none", "phase1", "window", "engine", "exited"}
      /\ worker' = "none" <=> worker = "none"
      /\ worker' = "engine" <=> worker = "engine"
      /\ ~stop_requested => worker' # "exited"
  <2>1. worker \in {"none", "phase1", "window", "engine", "exited"}
    BY DEF RuntimeInv, RuntimeTypeOK
  <2>2. ~stop_requested => worker # "exited"
    BY DEF RuntimeInv, GilInv
  <2> QED
    BY <2>1, <2>2
<1>2. PlaceInv'
  BY <1>1, ZenonT(30) DEF RuntimeInv, PlaceInv, Waits
<1>3. ASSUME NEW r \in Requests PROVE AnswerInv(r)'
  BY Zenon DEF RuntimeInv, AnswerInv, Known
<1>4. CountInv'
  BY Zenon DEF RuntimeInv, CountInv, Submitting
<1>5. GilInv'
  BY <1>1, Zenon DEF RuntimeInv, GilInv
<1>6. RuntimeTypeOK'
  BY <1>1, Zenon DEF RuntimeInv, RuntimeTypeOK
<1> QED
  BY <1>2, <1>3, <1>4, <1>5, <1>6, Zenon DEF RuntimeInv

\* A request that opens the window has as much left as before; the worker only
\* leaves after stop().
LEMMA WaitStep ==
    ASSUME RuntimeInv, OpenWindow \/ Exit, UNCHANGED pyVars
    PROVE  RuntimeInv'
<1>1. /\ queue' = queue /\ batch' = batch /\ total' = total /\ outcome' = outcome
      /\ stop_requested' = stop_requested /\ running' = running /\ exec' = exec
      /\ gil' = gil /\ main' = main /\ request' = request /\ caller' = caller
      /\ returned' = returned /\ next_id' = next_id /\ snapshot' = snapshot
      /\ ahead' = ahead /\ age' = age
  BY DEF OpenWindow, Exit, pyVars
<1>2. /\ worker = "phase1" /\ window' \in {window, MaxWait}
      /\ \/ worker' = "window" /\ window' = MaxWait
         \/ worker' = "exited" /\ stop_requested
  BY DEF OpenWindow, Exit
<1>3. /\ window \in 0..MaxWait /\ exec \in 0..MaxExec /\ age \in [Requests -> Nat]
      /\ MaxWait \in 0..MaxWait
  BY WindowAssumption DEF RuntimeInv, RuntimeTypeOK
<1>4. ASSUME ~stop_requested PROVE TimeInv'
  <2>1. TimeInv
    BY <1>4 DEF RuntimeInv
  <2>2. Left' = Left
    BY <1>1, <1>2, <1>4 DEF Left, Room
  <2>3. Deadline' = Deadline
    BY <1>1 DEF Deadline, Bound
  <2> QED
    BY <1>1, <2>1, <2>2, <2>3, Zenon DEF TimeInv
<1> QED
  BY <1>1, <1>2, <1>3, <1>4, SameQueue

\* What a request has left, and its bound, are times.
LEMMA LeftFacts ==
    ASSUME RuntimeTypeOK, NEW i \in Nat \ {0}
    PROVE  /\ Left[i] \in Nat
           /\ worker = "window" /\ i <= MaxBatchSize => Left[i] = Room(i) + window
           /\ worker = "window" /\ ~(i <= MaxBatchSize) => Left[i] = Room(i) + MaxWait
           /\ worker = "engine" => Left[i] = Room(i) + MaxWait + exec
           /\ worker \notin {"window", "engine"} => Left[i] = Room(i) + MaxWait
<1>1. /\ window \in Nat /\ exec \in Nat /\ MaxWait \in Nat /\ MaxBatchSize \in Nat
  BY WindowAssumption DEF RuntimeTypeOK
<1>2. PICK room \in Nat : room = Room(i)
  BY RoomFacts
<1>3. Left[i] = room + (IF worker = "window" /\ i <= MaxBatchSize THEN window ELSE MaxWait)
                     + (IF worker = "engine" THEN exec ELSE 0)
  BY <1>2 DEF Left
<1> QED
  BY <1>1, <1>2, <1>3

\* The requests of the batch get their answers, all of them.
LEMMA EngineDoneStep ==
    ASSUME RuntimeInv, EngineDone, UNCHANGED pyVars
    PROVE  RuntimeInv'
<1>1. /\ worker = "engine" /\ exec = 0 /\ batch' = <<>> /\ worker' = "phase1"
      /\ queue' = queue /\ total' = total /\ window' = window /\ exec' = exec
      /\ stop_requested' = stop_requested /\ running' = running
      /\ gil' = gil /\ main' = main /\ request' = request /\ caller' = caller
      /\ returned' = returned /\ next_id' = next_id /\ snapshot' = snapshot
      /\ ahead' = ahead /\ age' = age
  BY DEF EngineDone, pyVars
<1>2. RuntimeTypeOK /\ PlaceInv /\ GilInv /\ \A r \in Requests : AnswerInv(r)
  BY DEF RuntimeInv
<1>3. /\ DOMAIN outcome' = Requests
      /\ \A r \in Requests :
           (\A i \in 1..Len(batch) : batch[i].of # r) => outcome'[r] = outcome[r]
  BY DEF EngineDone
<1>4. \A r \in Requests :
        (\E i \in 1..Len(batch) : batch[i].of = r) =>
            /\ outcome'[r] \in {Failure, Answer(r, request[r])} /\ outcome'[r] # Pending
            /\ caller[r] = "waiting"
  <2> SUFFICES ASSUME NEW r \in Requests, \E i \in 1..Len(batch) : batch[i].of = r
               PROVE  /\ outcome'[r] \in {Failure, Answer(r, request[r])}
                      /\ outcome'[r] # Pending /\ caller[r] = "waiting"
    OBVIOUS
  <2>1. PICK i \in 1..Len(batch) :
          i = (CHOOSE j \in 1..Len(batch) : batch[j].of = r) /\ batch[i].of = r
    BY SMTT(30)
  <2>2. batch[i].id = request[r] /\ caller[r] = "waiting"
    BY <1>2, <2>1, SMTT(30) DEF PlaceInv, Waits
  <2>3. outcome'[r] \in {Failure, Answer(r, batch[i].id)}
    BY <2>1 DEF EngineDone
  <2>4. Failure # Pending /\ Answer(r, request[r]) # Pending
    <3>1. r # "pending"
      BY WindowAssumption
    <3>2. /\ Failure.of = "failure" /\ Pending.of = "pending"
          /\ Answer(r, request[r]).of = r
      BY DEF Failure, Pending, Answer
    <3> QED
      BY <3>1, <3>2
  <2> QED
    BY <2>2, <2>3, <2>4, SMTT(30)
<1>5. Len(batch') = 0 /\ batch' \in Seq(Entry) /\ \A i \in 1..Len(batch') : FALSE
  BY <1>1
<1>6. PlaceInv'
  <2>1. \A i \in 1..Len(queue) : outcome'[queue[i].of] = outcome[queue[i].of]
    BY <1>2, <1>3, Zenon DEF PlaceInv, Waits
  <2>2. \A i \in 1..Len(queue) : Waits(queue[i])'
    BY <1>1, <1>2, <2>1, Zenon DEF PlaceInv, Waits
  <2> QED
    BY <1>1, <1>2, <1>5, <2>2, ZenonT(30) DEF PlaceInv
<1>7. ASSUME NEW r \in Requests PROVE AnswerInv(r)'
  <2>1. Known(r)' = Known(r) /\ \A s \in Requests : Known(s)' = Known(s)
    BY <1>1 DEF Known
  <2>2. CASE \E i \in 1..Len(batch) : batch[i].of = r
    <3>1. outcome'[r] \in {Failure, Answer(r, request[r])} /\ caller[r] = "waiting"
      BY <1>4, <2>2
    <3> QED
      BY <1>1, <1>2, <2>1, <3>1, Zenon DEF AnswerInv
  <2>3. CASE \A i \in 1..Len(batch) : batch[i].of # r
    <3>1. outcome'[r] = outcome[r]
      BY <1>3, <2>3
    <3> QED
      BY <1>1, <1>2, <2>1, <3>1, Zenon DEF AnswerInv
  <2> QED
    BY <2>2, <2>3
<1>8. ASSUME ~stop_requested PROVE TimeInv'
  <2>1. TimeInv
    BY <1>8 DEF RuntimeInv
  <2>2. \A i \in 1..Len(queue) : Left'[i] = Left[i]
    BY <1>1, WindowAssumption DEF Left, Room
  <2>3. Deadline' = Deadline
    BY <1>1 DEF Deadline, Bound
  <2>4. \A r \in Requests : caller[r] = "waiting" /\ outcome'[r] = Pending =>
          \E i \in 1..Len(queue) : queue[i].of = r
    BY <1>3, <1>4, <2>1, Zenon DEF TimeInv
  <2> QED
    BY <1>1, <1>5, <2>1, <2>2, <2>3, <2>4, Zenon DEF TimeInv
<1>9. CountInv'
  BY <1>1, Zenon DEF RuntimeInv, CountInv, Submitting
<1>10. GilInv'
  BY <1>1, <1>2, SMTT(30) DEF GilInv
<1>11. RuntimeTypeOK'
  BY <1>1, <1>2, <1>3, <1>5 DEF RuntimeTypeOK
<1> QED
  BY <1>1, <1>6, <1>7, <1>8, <1>9, <1>10, <1>11, ZenonT(30) DEF RuntimeInv

\* The oldest requests become the batch; the others move up by one batch.
LEMMA DrainStep ==
    ASSUME RuntimeInv, Drain, UNCHANGED pyVars
    PROVE  RuntimeInv'
<1>1. /\ worker = "window" /\ worker' = "engine" /\ window' = 0 /\ exec' \in 0..MaxExec
      /\ stop_requested' = stop_requested /\ running' = running /\ outcome' = outcome
      /\ gil' = gil /\ main' = main /\ request' = request /\ caller' = caller
      /\ returned' = returned /\ next_id' = next_id /\ snapshot' = snapshot
      /\ ahead' = ahead /\ age' = age
  BY DEF Drain, pyVars
<1>2. RuntimeTypeOK /\ PlaceInv /\ GilInv /\ \A r \in Requests : AnswerInv(r)
  BY DEF RuntimeInv
<1>3. PICK m \in Nat : m = Len(queue)
  BY <1>2, SequenceTypes
<1>4. PICK n \in 0..m :
        /\ batch' = SubSeq(queue, 1, n) /\ queue' = SubSeq(queue, n + 1, Len(queue))
        /\ total' = total + n /\ n <= MaxBatchSize /\ (n < m => n = MaxBatchSize)
  <2>1. PICK n : n = IF Len(queue) < MaxBatchSize THEN Len(queue) ELSE MaxBatchSize
    OBVIOUS
  <2>2. n \in 0..m /\ n <= MaxBatchSize /\ (n < m => n = MaxBatchSize)
    BY <1>3, <2>1, WindowAssumption
  <2>3. /\ batch' = SubSeq(queue, 1, n) /\ queue' = SubSeq(queue, n + 1, Len(queue))
        /\ total' = total + n
    BY <2>1 DEF Drain
  <2> QED
    BY <2>2, <2>3, Zenon
<1>5. /\ batch' \in Seq(Entry) /\ Len(batch') = n /\ \A i \in 1..n : batch'[i] = queue[i]
      /\ queue' \in Seq(Entry) /\ Len(queue') = m - n
      /\ \A i \in 1..(m - n) : queue'[i] = queue[n + i]
  <2>1. queue \in Seq(Entry) /\ n \in 0..Len(queue)
    BY <1>2, <1>3 DEF RuntimeTypeOK
  <2> QED
    BY <1>3, <1>4, <2>1, CutFacts, SMTT(30)
<1>6. /\ \A i \in 1..n : i \in 1..m
      /\ \A i \in 1..(m - n) : n + i \in 1..m
      /\ \A i \in 1..m : i \in 1..n \/ \E j \in 1..(m - n) : i = n + j
  <2>1. \A i \in 1..m : i \in 1..n \/ (i - n \in 1..(m - n) /\ i = n + (i - n))
    OBVIOUS
  <2>2. \A i \in 1..m : i \in 1..n \/ \E j \in 1..(m - n) : i = n + j
    BY <2>1, Zenon
  <2> QED
    BY <2>2
<1>7. /\ \A i \in 1..m : Waits(queue[i])
      /\ \A i, j \in 1..m : queue[i].of = queue[j].of => i = j
  BY <1>2, <1>3, SMTT(30) DEF PlaceInv
<1>8. PlaceInv'
  <2>1. \A i \in 1..m :
          /\ queue[i].of \in Requests /\ queue[i].id = request[queue[i].of]
          /\ caller[queue[i].of] = "waiting" /\ outcome[queue[i].of] = Pending
    BY <1>7, ZenonT(30) DEF Waits
  <2>2. \A i \in 1..Len(queue') : Waits(queue[i])'
    <3> SUFFICES ASSUME NEW i \in 1..(m - n) PROVE Waits(queue[i])'
      BY <1>5
    <3>1. queue'[i] = queue[n + i] /\ n + i \in 1..m
      BY <1>5, <1>6, ZenonT(30)
    <3> QED
      BY <1>1, <2>1, <3>1 DEF Waits
  <2>3. \A i \in 1..Len(batch') : Waits(batch[i])'
    BY <1>1, <1>5, <1>6, <2>1 DEF Waits
  <2>4. \A i, j \in 1..Len(queue') : queue'[i].of = queue'[j].of => i = j
    <3>1. \A i, j \in 1..(m - n) : n + i = n + j => i = j
      OBVIOUS
    <3> SUFFICES ASSUME NEW i \in 1..(m - n), NEW j \in 1..(m - n), queue'[i].of = queue'[j].of
                 PROVE  i = j
      BY <1>5, Zenon
    <3>2. queue[n + i].of = queue[n + j].of /\ n + i \in 1..m /\ n + j \in 1..m
      BY <1>5, <1>6, Zenon
    <3> QED
      BY <1>7, <3>1, <3>2, Zenon
  <2>5. \A i \in 1..Len(batch'), j \in 1..Len(queue') : batch'[i].of # queue'[j].of
    <3>1. \A i \in 1..n, j \in 1..(m - n) : i # n + j
      OBVIOUS
    <3> SUFFICES ASSUME NEW i \in 1..n, NEW j \in 1..(m - n), batch'[i].of = queue'[j].of
                 PROVE  FALSE
      BY <1>5
    <3>2. queue[i].of = queue[n + j].of /\ i \in 1..m /\ n + j \in 1..m
      BY <1>5, <1>6, Zenon
    <3> QED
      BY <1>7, <3>1, <3>2, Zenon
  <2> QED
    BY <1>1, <2>2, <2>3, <2>4, <2>5 DEF PlaceInv
<1>9. ASSUME NEW r \in Requests PROVE AnswerInv(r)'
  BY <1>1, <1>2, Zenon DEF AnswerInv, Known
<1>10. CountInv'
  <2>1. PICK k \in Nat : k = Cardinality(Submitting)
    BY SubmittingFacts
  <2>2. total \in Nat /\ next_id \in Nat /\ total + m + k <= next_id
    BY <1>2, <1>3, <2>1, Zenon DEF RuntimeInv, RuntimeTypeOK, CountInv
  <2>3. Cardinality(Submitting)' = k
    BY <1>1, <2>1, Zenon DEF Submitting
  <2>4. total' = total + n /\ Len(queue') = m - n /\ next_id' = next_id
    BY <1>1, <1>4, <1>5, Zenon
  <2>5. total' \in Nat /\ total <= total' /\ next_id <= next_id' /\ next_id' \in Nat
    BY <2>2, <2>4
  <2>6. total' + Len(queue') + Cardinality(Submitting)' <= next_id'
    BY <2>2, <2>3, <2>4
  <2> QED
    BY <1>1, <2>5, <2>6, CountKept, Zenon
<1>11. GilInv'
  BY <1>1, <1>2 DEF GilInv
<1>12. RuntimeTypeOK'
  <2>1. total' \in Nat /\ window' \in 0..MaxWait
    BY <1>1, <1>2, <1>4, WindowAssumption DEF RuntimeTypeOK
  <2>2. worker' \in {"none", "phase1", "window", "engine", "exited"}
    BY <1>1
  <2> QED
    BY <1>1, <1>2, <1>5, <2>1, <2>2, ZenonT(30) DEF RuntimeTypeOK
<1>13. ASSUME ~stop_requested PROVE TimeInv'
  <2>1. TimeInv
    BY <1>13 DEF RuntimeInv
  <2>2. Deadline' = Deadline
    BY <1>1 DEF Deadline, Bound
  <2>3. \A r \in Requests : age[r] \in Nat /\ Deadline[r] \in Nat
    BY <1>2, BoundFacts, Zenon DEF RuntimeTypeOK, Deadline
  <2>4. \A i \in 1..m : /\ queue[i].of \in Requests /\ Left[i] \in Nat
                        /\ age[queue[i].of] + Left[i] <= Deadline[queue[i].of]
    <3>1. \A i \in 1..m : i \in Nat \ {0}
      OBVIOUS
    <3> QED
      BY <1>2, <1>3, <1>7, <2>1, <3>1, LeftFacts, Zenon DEF TimeInv, Waits
  <2>5. \A i \in 1..n : exec' <= Left[i]
    <3> SUFFICES ASSUME NEW i \in 1..n PROVE exec' <= Left[i]
      OBVIOUS
    <3>1. i \in Nat \ {0} /\ i <= MaxBatchSize
      BY <1>4, WindowAssumption
    <3>2. Left[i] = Room(i) + window /\ Room(i) \in Nat /\ MaxExec <= Room(i) /\ MaxExec \in Nat
      BY <1>1, <1>2, <3>1, LeftFacts, RoomFacts, ZenonT(30)
    <3>3. window \in Nat /\ exec' \in Nat /\ exec' <= MaxExec
      BY <1>1, <1>2, WindowAssumption DEF RuntimeTypeOK
    <3> QED
      BY <3>2, <3>3
  <2>6. \A i \in 1..(m - n) : Left'[i] <= Left[n + i] /\ Left'[i] \in Nat
    <3> SUFFICES ASSUME NEW i \in 1..(m - n) PROVE Left'[i] <= Left[n + i] /\ Left'[i] \in Nat
      OBVIOUS
    <3>1. /\ i \in Nat \ {0} /\ n = MaxBatchSize /\ i + MaxBatchSize \in Nat \ {0}
          /\ n + i = i + MaxBatchSize /\ ~(i + MaxBatchSize <= MaxBatchSize)
      BY <1>4, WindowAssumption
    <3>2. PICK room \in Nat : /\ room = Room(i) /\ Room(i + MaxBatchSize) = room + MaxExec
      BY <3>1, RoomFacts, Zenon
    <3>3. Left[n + i] = room + MaxExec + MaxWait
      BY <1>1, <1>2, <3>1, <3>2, LeftFacts, ZenonT(30)
    <3>4. Left'[i] = room + MaxWait + exec'
      <4>1. Left'[i] = Room(i) + (IF worker' = "window" /\ i <= MaxBatchSize THEN window' ELSE MaxWait)
                               + (IF worker' = "engine" THEN exec' ELSE 0)
        BY <3>1 DEF Left, Room
      <4> QED
        BY <1>1, <3>2, <4>1
    <3>5. exec' \in Nat /\ exec' <= MaxExec /\ MaxExec \in Nat /\ MaxWait \in Nat
      BY <1>1, WindowAssumption
    <3>6. /\ room + MaxWait + exec' <= room + MaxExec + MaxWait
          /\ room + MaxWait + exec' \in Nat
      <4>1. \A a, b, c, d \in Nat : c <= b => a + d + c <= a + b + d /\ a + d + c \in Nat
        OBVIOUS
      <4> QED
        BY <3>5, <4>1, Zenon
    <3> QED
      BY <3>3, <3>4, <3>6, Zenon
  <2>7. \A i \in 1..Len(queue') : age[queue'[i].of] + Left'[i] <= Deadline[queue'[i].of]
    <3> SUFFICES ASSUME NEW i \in 1..(m - n)
                 PROVE  age[queue'[i].of] + Left'[i] <= Deadline[queue'[i].of]
      BY <1>5
    <3>1. PICK r \in Requests : r = queue[n + i].of /\ r = queue'[i].of
      BY <1>5, <1>6, <2>4, Zenon
    <3>2. age[r] + Left[n + i] <= Deadline[r] /\ Left[n + i] \in Nat
      BY <1>6, <2>4, <3>1, ZenonT(30)
    <3> QED
      BY <2>3, <2>6, <3>1, <3>2, SMTT(30)
  <2>8. \A i \in 1..Len(batch') : age[batch'[i].of] + exec' <= Deadline[batch'[i].of]
    <3> SUFFICES ASSUME NEW i \in 1..n
                 PROVE  age[batch'[i].of] + exec' <= Deadline[batch'[i].of]
      BY <1>5
    <3>1. PICK r \in Requests : r = queue[i].of /\ r = batch'[i].of
      BY <1>5, <1>6, <2>4, Zenon
    <3>2. age[r] + Left[i] <= Deadline[r] /\ Left[i] \in Nat
      BY <1>6, <2>4, <3>1, Zenon
    <3>3. exec' \in Nat
      BY <1>1
    <3> QED
      BY <2>3, <2>5, <3>1, <3>2, <3>3, SMTT(30)
  <2>9. \A r \in Requests : caller[r] = "waiting" /\ outcome[r] = Pending =>
          \/ \E i \in 1..Len(queue') : queue'[i].of = r
          \/ \E i \in 1..Len(batch') : batch'[i].of = r
    <3> SUFFICES ASSUME NEW r \in Requests, caller[r] = "waiting", outcome[r] = Pending
                 PROVE  \/ \E i \in 1..(m - n) : queue'[i].of = r
                        \/ \E i \in 1..n : batch'[i].of = r
      BY <1>5, ZenonT(30)
    <3>1. Len(batch) = 0
      BY <1>1, <1>2 DEF PlaceInv
    <3>2. PICK i \in 1..m : queue[i].of = r
      BY <1>3, <2>1, <3>1 DEF TimeInv
    <3> QED
      BY <1>5, <1>6, <3>2, Zenon
  <2>10. \A r \in Requests :
           /\ caller[r] \in {"idle", "entering", "submit"} => age[r] = 0
           /\ caller[r] = "waiting" => age[r] <= Deadline[r]
    BY <2>1, ZenonT(30) DEF TimeInv
  <2> QED
    BY <1>1, <2>2, <2>7, <2>8, <2>9, <2>10, ZenonT(30) DEF TimeInv
<1> QED
  BY <1>1, <1>8, <1>9, <1>10, <1>11, <1>12, <1>13, ZenonT(30) DEF RuntimeInv

\* Time passes for the worker as it does for the requests: a request that gets
\* older has so much less left.
LEMMA TickStep ==
    ASSUME RuntimeInv, Tick
    PROVE  RuntimeInv'
<1>1. /\ queue' = queue /\ batch' = batch /\ total' = total /\ outcome' = outcome
      /\ stop_requested' = stop_requested /\ running' = running /\ worker' = worker
      /\ gil' = gil /\ main' = main /\ request' = request /\ caller' = caller
      /\ returned' = returned /\ next_id' = next_id /\ snapshot' = snapshot /\ ahead' = ahead
  BY DEF Tick, Elapse
<1>2. RuntimeTypeOK /\ PlaceInv /\ GilInv
  BY DEF RuntimeInv
<1>3. /\ window \in Nat /\ window <= MaxWait /\ exec \in Nat /\ exec <= MaxExec
      /\ MaxWait \in Nat /\ MaxExec \in Nat
  BY <1>2, WindowAssumption DEF RuntimeTypeOK
<1>4. /\ worker = "window" => window' = window - 1 /\ window > 0 /\ Len(queue) < MaxBatchSize
      /\ worker # "window" => window' = window
      /\ worker = "engine" => exec' = exec - 1 /\ exec > 0
      /\ worker # "engine" => exec' = exec
      /\ worker = "phase1" => queue = <<>>
  <2>1. Len(queue) \in Nat /\ MaxBatchSize \in Nat
    BY <1>2, SequenceTypes, WindowAssumption
  <2> QED
    BY <1>3, <2>1 DEF Tick, Elapse, Blocked, WindowOver
<1>5. window' \in 0..MaxWait /\ exec' \in 0..MaxExec
  BY <1>3, <1>4
<1>6. /\ age' \in [Requests -> Nat]
      /\ \A r \in Requests : /\ age[r] \in Nat /\ age'[r] \in Nat /\ age'[r] <= age[r] + 1
                             /\ caller[r] \notin {"entering", "submit", "waiting"} => age'[r] = age[r]
  <2>1. age \in [Requests -> Nat]
    BY <1>2 DEF RuntimeTypeOK
  <2>2. age' = [r \in Requests |-> IF InPredict(r) /\ age[r] < Cap THEN age[r] + 1 ELSE age[r]]
    BY DEF Tick
  <2> QED
    BY <2>1, <2>2 DEF InPredict
<1>7. ASSUME ~stop_requested PROVE TimeInv'
  <2>1. TimeInv
    BY <1>7, SMTT(30) DEF RuntimeInv
  <2>2. ~Urgent /\ gil = Nobody /\ worker # "exited"
    BY <1>2, <1>7 DEF Tick, Urgent, GilInv
  <2>3. \A r \in Requests : /\ caller[r] \notin {"entering", "submit"}
                            /\ caller[r] = "waiting" => outcome[r] = Pending
    BY <2>2 DEF Urgent, Free
  <2>4. Deadline' = Deadline /\ \A r \in Requests : Deadline[r] \in Nat
    BY <1>1, <1>2, BoundFacts, Zenon DEF Deadline, Bound, RuntimeTypeOK
  <2>5. \A i \in 1..Len(queue) : i \in Nat \ {0} /\ queue[i].of \in Requests
    BY <1>2, SequenceTypes
  <2>6. \A i \in 1..Len(batch) : batch[i].of \in Requests
    BY <1>2, SequenceTypes
  <2>7. \A i \in 1..Len(queue) : Left[i] \in Nat /\ Left'[i] \in Nat /\ Left'[i] + 1 = Left[i]
    <3> SUFFICES ASSUME NEW i \in 1..Len(queue)
                 PROVE  Left[i] \in Nat /\ Left'[i] \in Nat /\ Left'[i] + 1 = Left[i]
      OBVIOUS
    <3>1. worker \in {"window", "engine"}
      <4>1. worker # "none"
        BY <1>2, <2>5 DEF GilInv, PlaceInv, Waits
      <4>2. worker # "phase1"
        BY <1>4
      <4> QED
        BY <1>2, <2>2, <4>1, <4>2, SMTT(30) DEF RuntimeTypeOK
    <3>2. PICK room \in Nat : room = Room(i)
      BY <2>5, RoomFacts, ZenonT(30)
    <3>3. /\ Left[i] = room + (IF worker = "window" /\ i <= MaxBatchSize THEN window ELSE MaxWait)
                            + (IF worker = "engine" THEN exec ELSE 0)
          /\ Left'[i] = room + (IF worker = "window" /\ i <= MaxBatchSize THEN window' ELSE MaxWait)
                             + (IF worker = "engine" THEN exec' ELSE 0)
      BY <1>1, <2>5, <3>2 DEF Left, Room
    <3>4. CASE worker = "window"
      <4>1. i <= MaxBatchSize
        BY <1>2, <1>4, <3>4, SequenceTypes, WindowAssumption, SMTT(30)
      <4> QED
        BY <1>3, <1>4, <3>3, <3>4, <4>1, SMTT(30)
    <3>5. CASE worker = "engine"
      BY <1>3, <1>4, <3>3, <3>5
    <3> QED
      BY <3>1, <3>4, <3>5
  <2>8. ASSUME NEW i \in 1..Len(batch) PROVE exec > 0 /\ exec' = exec - 1
    <3>1. worker = "engine"
      BY <1>2 DEF PlaceInv
    <3> QED
      BY <1>4, <3>1
  <2>9. \A i \in 1..Len(queue) : age'[queue[i].of] + Left'[i] <= Deadline[queue[i].of]
    <3> SUFFICES ASSUME NEW i \in 1..Len(queue)
                 PROVE  age'[queue[i].of] + Left'[i] <= Deadline[queue[i].of]
      OBVIOUS
    <3>1. PICK r \in Requests : r = queue[i].of
      BY <2>5, SMTT(30)
    <3>2. age[r] + Left[i] <= Deadline[r]
      BY <2>1, <3>1 DEF TimeInv
    <3>3. /\ age[r] \in Nat /\ age'[r] \in Nat /\ age'[r] <= age[r] + 1 /\ Deadline[r] \in Nat
          /\ Left[i] \in Nat /\ Left'[i] \in Nat /\ Left'[i] + 1 = Left[i]
      BY <1>6, <2>4, <2>7, Zenon
    <3>4. \A a, b, d, x, y \in Nat : b <= a + 1 /\ y + 1 = x /\ a + x <= d => b + y <= d
      OBVIOUS
    <3> QED
      BY <3>1, <3>2, <3>3, <3>4, ZenonT(30)
  <2>10. \A i \in 1..Len(batch) : age'[batch[i].of] + exec' <= Deadline[batch[i].of]
    <3> SUFFICES ASSUME NEW i \in 1..Len(batch)
                 PROVE  age'[batch[i].of] + exec' <= Deadline[batch[i].of]
      OBVIOUS
    <3>1. PICK r \in Requests : r = batch[i].of
      BY <2>6
    <3>2. age[r] + exec <= Deadline[r]
      BY <2>1, <3>1 DEF TimeInv
    <3>3. /\ age[r] \in Nat /\ age'[r] \in Nat /\ age'[r] <= age[r] + 1 /\ Deadline[r] \in Nat
          /\ exec \in Nat /\ exec' \in Nat /\ exec' + 1 = exec
      <4>1. exec \in Nat /\ exec' \in Nat /\ exec' + 1 = exec
        <5>1. exec > 0 /\ exec' = exec - 1
          BY <2>8, Zenon
        <5> QED
          BY <1>3, <5>1
      <4> QED
        BY <1>6, <2>4, <4>1, Zenon
    <3>4. \A a, b, d, x, y \in Nat : b <= a + 1 /\ y + 1 = x /\ a + x <= d => b + y <= d
      OBVIOUS
    <3> QED
      BY <3>1, <3>2, <3>3, <3>4, Zenon
  <2>11. ASSUME NEW r \in Requests
         PROVE  /\ caller[r] \in {"idle", "entering", "submit"} => age'[r] = 0
                /\ caller[r] = "waiting" => age'[r] <= Deadline[r]
    <3>1. caller[r] \in {"idle", "entering", "submit"} => age'[r] = 0
      <4>1. caller[r] \in {"idle", "entering", "submit"} => caller[r] = "idle" /\ age[r] = 0
        BY <2>1, <2>3 DEF TimeInv
      <4>2. \A place : place = "idle" => place \notin {"entering", "submit", "waiting"}
        OBVIOUS
      <4> QED
        BY <1>6, <4>1, <4>2, ZenonT(30)
    <3>2. ASSUME NEW i \in 1..Len(queue), queue[i].of = r PROVE age'[r] <= Deadline[r]
      <4>1. age'[r] \in Nat /\ Deadline[r] \in Nat /\ Left'[i] \in Nat
        BY <1>6, <2>4, <2>7
      <4>2. age'[r] + Left'[i] <= Deadline[r]
        BY <2>9, <3>2
      <4> QED
        BY <4>1, <4>2
    <3>3. ASSUME NEW i \in 1..Len(batch), batch[i].of = r PROVE age'[r] <= Deadline[r]
      <4>1. age'[r] \in Nat /\ Deadline[r] \in Nat /\ exec' \in Nat
        BY <1>5, <1>6, <2>4
      <4>2. age'[r] + exec' <= Deadline[r]
        BY <2>10, <3>3
      <4> QED
        BY <4>1, <4>2
    <3> QED
      BY <2>1, <2>3, <3>1, <3>2, <3>3, Zenon DEF TimeInv
  <2> QED
    BY <1>1, <2>1, <2>4, <2>9, <2>10, <2>11, Zenon DEF TimeInv
<1> QED
  BY <1>1, <1>5, <1>6, <1>7, SameQueue
-----------------------------------------------------------------------------
(* The results. *)

\* Nothing has been called, queued or counted at first.
LEMMA RuntimeInvInit ==
    Init => RuntimeInv
<1> SUFFICES ASSUME Init PROVE RuntimeInv
  OBVIOUS
<1>1. /\ queue = <<>> /\ batch = <<>> /\ worker = "none" /\ ~stop_requested /\ main = "new"
      /\ gil = Nobody /\ total = 0 /\ next_id = 0 /\ snapshot = NoSnapshot /\ window = 0 /\ exec = 0
      /\ running = FALSE /\ stop_requested = FALSE
      /\ outcome = [r \in Requests |-> Pending] /\ returned = [r \in Requests |-> Pending]
      /\ caller = [r \in Requests |-> "idle"] /\ request = [r \in Requests |-> 0]
      /\ age = [r \in Requests |-> 0] /\ ahead = [r \in Requests |-> 0]
  BY DEF Init, WindowInit
<1>2. Len(queue) = 0 /\ Len(batch) = 0 /\ queue \in Seq(Entry) /\ batch \in Seq(Entry)
  BY <1>1
<1>3. RuntimeTypeOK
  <2>1. /\ window \in 0..MaxWait /\ exec \in 0..MaxExec /\ total \in Nat /\ next_id \in Nat
        /\ snapshot \in [total : Nat, depth : Nat]
    BY <1>1, WindowAssumption DEF NoSnapshot
  <2>2. /\ request \in [Requests -> Nat] /\ age \in [Requests -> Nat] /\ ahead \in [Requests -> Nat]
        /\ DOMAIN outcome = Requests /\ DOMAIN returned = Requests
    BY <1>1
  <2>3. caller \in [Requests -> {"idle", "entering", "submit", "waiting", "refused", "done", "raised"}]
    BY <1>1
  <2>4. running \in BOOLEAN /\ stop_requested \in BOOLEAN
        /\ worker \in {"none", "phase1", "window", "engine", "exited"}
    BY <1>1, Zenon
  <2> QED
    BY <1>2, <2>1, <2>2, <2>3, <2>4, ZenonT(30) DEF RuntimeTypeOK
<1>4. PlaceInv
  BY <1>2 DEF PlaceInv
<1>5. CountInv
  <2>1. Submitting = {}
    BY <1>1 DEF Submitting
  <2>2. Cardinality(Submitting) = 0
    BY <2>1, FS_EmptySet
  <2> QED
    BY <1>1, <1>2, <2>2 DEF CountInv, NoSnapshot
<1>6. GilInv
  BY <1>1 DEF GilInv
<1>7. TimeInv
  BY <1>1, <1>2 DEF TimeInv
<1>8. ASSUME NEW r \in Requests PROVE AnswerInv(r)
  BY <1>1 DEF AnswerInv, Known
<1> QED
  BY <1>3, <1>4, <1>5, <1>6, <1>7, <1>8 DEF RuntimeInv

\* Every step of the callers, the worker, the main thread and of time.
LEMMA RuntimeInvNext ==
    RuntimeInv /\ [Next]_vars => RuntimeInv'
<1> SUFFICES ASSUME RuntimeInv, [Next]_vars PROVE RuntimeInv'
  OBVIOUS
<1>1. ASSUME NEW model \in BOOLEAN, Construct(model) PROVE RuntimeInv'
  BY <1>1, ConstructStep
<1>2. ASSUME NEW r \in Requests, Call(r) \/ Predict(r) PROVE RuntimeInv'
  BY <1>2, PredictStep, PushStep DEF Predict
<1>3. CASE ReadCounters \/ ReadDepth \/ Report \/ Shutdown \/ ExitContext \/ Delete \/ Join
  BY <1>3, MainStep
<1>4. CASE WorkerStep
  BY <1>4, WaitStep, DrainStep, EngineDoneStep DEF WorkerStep, Worker
<1>5. CASE Tick
  BY <1>5, TickStep, SMTT(30)
<1>6. CASE UNCHANGED vars
  <2>1. UNCHANGED <<queueVars, pyVars>>
    BY <1>6 DEF vars
  <2>2. /\ queue' = queue /\ batch' = batch /\ total' = total /\ outcome' = outcome
        /\ stop_requested' = stop_requested /\ running' = running /\ worker' = worker
        /\ window' = window /\ exec' = exec /\ gil' = gil /\ main' = main
        /\ request' = request /\ caller' = caller /\ returned' = returned
        /\ next_id' = next_id /\ snapshot' = snapshot /\ ahead' = ahead /\ age' = age
    BY <2>1 DEF queueVars, pyVars
  <2>3. ~stop_requested' => TimeInv'
    BY <2>2, SameCalls, SMTT(30)
  <2>4. window \in 0..MaxWait /\ exec \in 0..MaxExec /\ age \in [Requests -> Nat]
    BY DEF RuntimeInv, RuntimeTypeOK
  <2> QED
    BY <2>2, <2>3, <2>4, SameQueue
<1> QED
  BY <1>1, <1>2, <1>3, <1>4, <1>5, <1>6 DEF Next

\* The invariant of the runtime: where each request is, the id it has, the time
\* it has left and what stats() has read, in every state.
THEOREM RuntimeInvariant == Spec => []RuntimeInv
<1>1. Init => RuntimeInv
  BY RuntimeInvInit
<1>2. RuntimeInv /\ [Next]_vars => RuntimeInv'
  BY RuntimeInvNext
<1> QED
  BY <1>1, <1>2, PTL DEF Spec

\* A predict() that returns gives the output of its own array and the id its
\* request was queued under, which no other has.
THEOREM AnswersAreOwn == Spec => []OwnAnswer
<1>1. RuntimeInv => OwnAnswer
  <2> SUFFICES ASSUME RuntimeInv, NEW r \in Requests, caller[r] = "done"
               PROVE  /\ returned[r] = outcome[r] /\ returned[r].of = r
                      /\ \A s \in Requests \ {r} : caller[s] = "done" => returned[s].id # returned[r].id
    BY SMTT(30) DEF OwnAnswer
  <2>1. \A s \in Requests : caller[s] = "done" => returned[s] = Answer(s, request[s])
    BY DEF RuntimeInv, AnswerInv
  <2>2. \A s \in Requests : Answer(s, request[s]).of = s /\ Answer(s, request[s]).id = request[s]
    BY SMTT(30) DEF Answer
  <2>3. \A s \in Requests \ {r} : caller[s] = "done" => request[s] # request[r]
    BY DEF RuntimeInv, AnswerInv, Known
  <2>4. returned[r] = outcome[r]
    BY Zenon DEF RuntimeInv, AnswerInv
  <2> QED
    BY <2>1, <2>2, <2>3, <2>4, SMTT(30)
<1> QED
  BY <1>1, RuntimeInvariant, PTL

\* What stats() calls served and what it calls queued are together no more than
\* were submitted, though it reads them at different times.
THEOREM StatsCountOnce == Spec => []NoDoubleCount
<1>1. RuntimeInv => NoDoubleCount
  BY DEF RuntimeInv, CountInv, NoDoubleCount
<1> QED
  BY <1>1, RuntimeInvariant, PTL

\* Until it is stopped no predict() takes longer than the batch in the engine,
\* the full batches ahead of its own, one window and its own batch.
THEOREM LatencyIsBounded == Spec => []LatencyBounded
<1>1. RuntimeInv => LatencyBounded
  <2> SUFFICES ASSUME RuntimeInv, ~stop_requested, NEW r \in Requests, InPredict(r)
               PROVE  age[r] <= Bound(ahead[r])
    BY ZenonT(30) DEF LatencyBounded
  <2>1. Deadline[r] = Bound(ahead[r]) /\ ahead[r] \in Nat
    BY DEF RuntimeInv, RuntimeTypeOK, Deadline
  <2>2. Bound(ahead[r]) \in Nat
    BY <2>1, BoundFacts, SMTT(30)
  <2>3. age[r] = 0 \/ age[r] <= Deadline[r]
    BY DEF RuntimeInv, TimeInv, InPredict
  <2>4. \A a, b \in Nat : a = 0 => a <= b
    OBVIOUS
  <2>5. age[r] \in Nat
    BY DEF RuntimeInv, RuntimeTypeOK
  <2> QED
    BY <2>1, <2>2, <2>3, <2>4, <2>5, Zenon
<1> QED
  BY <1>1, RuntimeInvariant, PTL
=============================================================================
