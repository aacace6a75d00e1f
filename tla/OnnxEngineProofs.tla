-------------------------- MODULE OnnxEngineProofs --------------------------
(***************************************************************************)
(* Proofs about OnnxExecutionEngine and the programs that drive it, for    *)
(* every list of buckets, batch size and number of calls, with any of the  *)
(* CUDA and ORT calls of the bound path failing.                           *)
(*                                                                         *)
(* A call that fails leaves its operations on the copy stream.  The        *)
(* invariant therefore speaks of the end of the stream: the operations of  *)
(* the call in progress are the last ones, and what they will do to the    *)
(* first rows of the buffers does not depend on what is before them.       *)
(***************************************************************************)
EXTENDS EngineClients, NaturalsInduction, WellFoundedInduction, TLAPS

-----------------------------------------------------------------------------
(* The invariant of the engine. *)

\* A row of the batch as it is staged, and as it is returned.
Raw(i) == IF call = 0 THEN Zero ELSE Row(call, i, 0)
Final(i) ==
    LET passes == IF options.normalize THEN 1 ELSE 0
    IN  IF call = 0 THEN Row(0, 0, passes) ELSE Row(call, i, passes)

HasRaw(buffer) == \A i \in 1..batch : buffer[i] = Raw(i)
HasFinal(buffer) == \A i \in 1..batch : buffer[i] = Final(i)

Op(op) == [op |-> op, rows |-> padded]
RowType == [call : Int, row : Nat, normalized : Nat]
Operations == [op : {"h2d", "kernel", "d2h"}, rows : Nat]

Steps == {"construct", "failed", "idle", "memcpy", "h2d", "launch", "pre_run", "run", "d2h",
          "post_run", "return"}
BoundSteps == {"memcpy", "h2d", "launch", "pre_run", "d2h", "post_run", "return"}

OnnxTypeOK ==
    /\ options \in [buckets : BucketLists, io_binding : BOOLEAN, normalize : BOOLEAN,
                    warm : BOOLEAN]
    /\ pc \in Steps /\ bound \in BOOLEAN /\ warm \in Seq(0..MaxBatch)
    /\ call \in Nat /\ batch \in 0..MaxBatch
    /\ host_input \in [Rows -> RowType] /\ device_input \in [Rows -> RowType]
    /\ device_output \in [Rows -> RowType] /\ host_output \in [Rows -> RowType]
    /\ queued \in Seq(Operations)

\* What the constructor established.
Constructions ==
    /\ pc \notin {"construct", "failed"} /\ options.normalize => bound
    /\ pc = "construct" => call = 0
    /\ call > 0 => warm = <<>>
    /\ bound => \A i \in 1..Allocated : host_input[i] # Junk
    /\ pc \in BoundSteps => OnBoundPath

\* The copy in is the last operation of the stream, or the stream is empty and
\* it has been done.
CopyPending ==
    \/ Len(queued) >= 1 /\ queued[Len(queued)] = Op("h2d")
    \/ queued = <<>> /\ HasRaw(device_input)

\* The same for the copy in and the kernel after it.
KernelPending ==
    \/ /\ Len(queued) >= 2
       /\ queued[Len(queued) - 1] = Op("h2d") /\ queued[Len(queued)] = Op("kernel")
    \/ Len(queued) = 1 /\ queued[1] = Op("kernel") /\ HasRaw(device_input)
    \/ queued = <<>> /\ HasFinal(device_input)

\* How far the rows of the call in progress have come.
RowsInv ==
    /\ pc \in {"h2d", "launch", "pre_run"} => HasRaw(host_input)
    /\ pc = "launch" => options.normalize /\ CopyPending
    /\ pc = "pre_run" => IF options.normalize THEN KernelPending ELSE CopyPending
    /\ pc = "run" /\ OnBoundPath => queued = <<>> /\ HasFinal(device_input)
    /\ pc = "d2h" => queued = <<>> /\ HasFinal(device_output)
    /\ pc = "post_run" =>
          \/ Len(queued) = 1 /\ queued[1] = Op("d2h") /\ HasFinal(device_output)
          \/ queued = <<>> /\ HasFinal(host_output)
    /\ pc = "return" => queued = <<>> /\ HasFinal(host_output)

\* What a call returned: its own rows, normalised when that is asked for and the
\* batch fits the buffers.
ReturnedRows ==
    Answered =>
        returned = [i \in 1..batch |->
                      Row(call, i, IF options.normalize /\ FitsPreallocated(batch) THEN 1 ELSE 0)]

OnnxInv == OnnxTypeOK /\ Constructions /\ RowsInv /\ ReturnedRows

-----------------------------------------------------------------------------
(* The invariant of the programs. *)

\* The server's session only ever sees batches that fit its one bucket.
ServerInv ==
    client = "server" =>
        /\ options.buckets = ServerBuckets /\ batch <= MaxBatchSize
        /\ warm # <<>> => warm = ServerBuckets
        /\ plan \in {0, MaxBatchSize}

\* main's row: after the first call of a row the plan is for its batch.
RowPlanned == plan = bucket_for(RowSizes[row])
BenchInv ==
    client = "bench" =>
        /\ phase = "rows" => row \in 1..Len(RowSizes)
        /\ phase = "churn_warmup" => row \in 1..ChurnMax
        /\ calling \/ iter > 0 => warm = <<>> /\ pc # "construct"
        /\ iter > 0 /\ ~calling => pc = "idle"
        /\ phase = "rows" /\ calling => batch = RowSizes[row]
        /\ phase = "rows" /\ iter > 0 => RowPlanned
        /\ phase = "rows" /\ calling /\ (\/ pc \in {"d2h", "post_run", "return"}
                                         \/ pc = "idle" /\ returned # Error) => RowPlanned

\* The samples are those of the row's timed calls.
RowSamples ==
    report.batch # 0 =>
        /\ Len(report.samples) = kTimedIters
        /\ \A i \in 1..Len(report.samples) : report.samples[i].batch = report.batch
SamplesInv ==
    client = "bench" =>
        /\ phase = "rows" =>
              /\ iter <= kWarmupIters + kTimedIters
              /\ calling => iter < kWarmupIters + kTimedIters
              /\ Len(samples) = IF iter > kWarmupIters THEN iter - kWarmupIters ELSE 0
              /\ \A i \in 1..Len(samples) : samples[i].batch = RowSizes[row]
        /\ RowSamples

ClientsTypeOK ==
    /\ client \in {"server", "bench", "any"} /\ calling \in BOOLEAN /\ iter \in Nat
    /\ phase \in {"rows", "churn_warmup", "churn", "done"}
    /\ samples \in Seq([batch : 0..MaxBatch, ms : Times])

ClientsInv == ClientsTypeOK /\ ServerInv /\ BenchInv /\ SamplesInv
-----------------------------------------------------------------------------
(* Lemmas about the operators. *)

\* A nonempty set of naturals has a least member.
LEMMA LeastIndex ==
    ASSUME NEW S \in SUBSET Nat, S # {}
    PROVE  \E x \in S : \A y \in S : x <= y
<1> DEFINE less == {ss \in Nat \X Nat : ss[1] < ss[2]}
<1>1. IsWellFoundedOn(less, Nat)
  BY NatLessThanWellFounded DEF OpToRel
<1> HIDE DEF less
<1>2. PICK x \in S : \A y \in S : ~(<<y, x>> \in less)
  BY <1>1, WFMin, Zenon
<1>3. ASSUME NEW y \in S PROVE x <= y
  <2>1. y < x => <<y, x>> \in less
    BY DEF less
  <2> QED
    BY <1>2, <2>1
<1> QED
  BY <1>3

\* The first rows of a buffer, as a returned batch.
LEMMA FirstRows ==
    ASSUME NEW T, NEW m \in Nat, NEW s \in [1..m -> T], NEW n \in 0..m
    PROVE  SubSeq(s, 1, n) = [i \in 1..n |-> s[i]]
<1>1. s \in Seq(T) /\ Len(s) = m
  OBVIOUS
<1> QED
  BY <1>1

\* An element of a sequence.
LEMMA ElementFacts ==
    ASSUME NEW T, NEW q \in Seq(T), NEW i \in 1..Len(q)
    PROVE  q[i] \in T
OBVIOUS

\* The ends of a sequence.
LEMMA EndFacts ==
    ASSUME NEW T, NEW q \in Seq(T), q # <<>>
    PROVE  /\ Len(q) \in Nat /\ Len(q) >= 1 /\ q[1] \in T /\ q[Len(q)] \in T
           /\ Head(q) = q[1] /\ Tail(q) \in Seq(T) /\ Len(Tail(q)) = Len(q) - 1
           /\ \A i \in 1..(Len(q) - 1) : Tail(q)[i] = q[i + 1]
<1>1. Len(q) \in Nat /\ Len(q) >= 1 /\ q \in [1..Len(q) -> T]
  OBVIOUS
<1>2. q[1] \in T /\ q[Len(q)] \in T
  BY <1>1
<1> QED
  BY <1>1, <1>2

\* The buckets are batch sizes.
LEMMA BucketsType ==
    ASSUME OnnxTypeOK
    PROVE  options.buckets \in Seq(0..MaxBatch)
BY OnnxAssumption DEF OnnxTypeOK

\* bucket_for never returns less than the batch.
LEMMA BucketFacts ==
    ASSUME OnnxTypeOK, NEW n \in Nat
    PROVE  bucket_for(n) \in Nat /\ n <= bucket_for(n)
<1> DEFINE fit == {i \in 1..Len(options.buckets) : n <= options.buckets[i]}
           first == CHOOSE i \in fit : \A j \in fit : i <= j
<1>1. options.buckets \in Seq(0..MaxBatch)
  BY BucketsType
<1>2. \A i \in 1..Len(options.buckets) : options.buckets[i] \in Nat
  BY <1>1, OnnxAssumption
<1>3. CASE fit = {}
  BY <1>3 DEF bucket_for
<1>4. CASE fit # {}
  <2>1. fit \in SUBSET Nat
    BY <1>1
  <2>2. \E i \in fit : \A j \in fit : i <= j
    BY <1>4, <2>1, LeastIndex, Zenon
  <2>3. first \in fit
    BY <2>2, Zenon
  <2>4. bucket_for(n) = options.buckets[first]
    BY <1>4 DEF bucket_for
  <2> QED
    BY <1>2, <2>3, <2>4, Zenon
<1> QED
  BY <1>3, <1>4

\* The buffers hold at most the largest batch.
LEMMA AllocatedFacts ==
    ASSUME OnnxTypeOK
    PROVE  Allocated \in Nat /\ Allocated <= MaxBatch
<1>1. options.buckets \in Seq(0..MaxBatch) /\ MaxBatch \in Nat /\ 1 <= MaxBatch
  BY BucketsType, OnnxAssumption
<1>2. options.buckets # <<>> => options.buckets[Len(options.buckets)] \in 0..MaxBatch
  BY <1>1, EndFacts
<1> QED
  BY <1>1, <1>2 DEF Allocated

\* On the bound path the padded batch fits the buffers.
LEMMA PathFacts ==
    ASSUME OnnxTypeOK, OnBoundPath
    PROVE  /\ batch \in Nat /\ padded \in Nat /\ Allocated \in Nat
           /\ batch <= padded /\ padded <= Allocated /\ Allocated <= MaxBatch
<1>1. batch \in Nat /\ MaxBatch \in Nat
  BY OnnxAssumption DEF OnnxTypeOK
<1>3. Allocated \in Nat /\ Allocated <= MaxBatch
  BY AllocatedFacts
<1>4. padded \in Nat /\ batch <= padded
  BY <1>1, BucketFacts DEF padded
<1>5. padded <= Allocated
  BY DEF OnBoundPath, FitsPreallocated, padded
<1> QED
  BY <1>1, <1>3, <1>4, <1>5

\* The staged row, and what the device makes of it.
LEMMA RowFacts ==
    ASSUME OnnxTypeOK, NEW i \in 1..batch
    PROVE  /\ Input[i] = Raw(i) /\ Raw(i) \in RowType /\ Raw(i) # Junk
           /\ options.normalize => Normalize(Raw(i)) = Final(i)
           /\ ~options.normalize => Raw(i) = Final(i)
<1>1. i \in Nat /\ call \in Nat
  BY OnnxAssumption DEF OnnxTypeOK
<1>2. Input[i] = Raw(i)
  BY DEF Input, Raw
<1>3. Raw(i) \in RowType /\ Raw(i) # Junk
  BY <1>1 DEF Raw, RowType, Zero, Row, Junk
<1>4. options.normalize => Normalize(Raw(i)) = Final(i)
  BY <1>1 DEF Raw, Final, Zero, Row, Normalize
<1>5. ~options.normalize => Raw(i) = Final(i)
  BY DEF Raw, Final, Zero, Row
<1> QED
  BY <1>2, <1>3, <1>4, <1>5

\* What depends on the call alone does not change within it.
LEMMA SameCall ==
    ASSUME options' = options, bound' = bound, call' = call, batch' = batch
    PROVE  /\ padded' = padded /\ Allocated' = Allocated
           /\ OnBoundPath' <=> OnBoundPath
           /\ \A i : Raw(i)' = Raw(i) /\ Final(i)' = Final(i)
           /\ \A op : Op(op)' = Op(op)
<1>1. padded' = padded /\ Allocated' = Allocated
  BY DEF padded, bucket_for, Allocated
<1>2. OnBoundPath' <=> OnBoundPath
  BY <1>1 DEF OnBoundPath, FitsPreallocated, bucket_for, padded
<1>3. \A i : Raw(i)' = Raw(i) /\ Final(i)' = Final(i)
  BY DEF Raw, Final
<1>4. \A op : Op(op)' = Op(op)
  BY <1>1 DEF Op
<1> QED
  BY <1>1, <1>2, <1>3, <1>4
-----------------------------------------------------------------------------
(* Each action keeps the engine's invariant. *)

\* The constructor, with its fallback and its exceptions.
LEMMA ConstructionKeeps ==
    ASSUME OnnxInv, Constructed \/ FallsBack \/ ConstructorThrows
    PROVE  OnnxInv'
<1>1. OnnxTypeOK /\ Constructions /\ RowsInv /\ ReturnedRows
  BY DEF OnnxInv
<1>2. /\ pc = "construct" /\ pc' \in {"idle", "failed"}
      /\ options' = options /\ call' = call /\ batch' = batch /\ queued' = queued
      /\ device_input' = device_input /\ device_output' = device_output
      /\ host_output' = host_output /\ returned' = returned
  BY DEF Constructed, FallsBack, ConstructorThrows, buffers
<1>3. call = 0
  BY <1>1, <1>2 DEF Constructions
<1>4. Allocated' = Allocated /\ Allocated \in Nat /\ Allocated <= MaxBatch
  <2>1. Allocated' = Allocated
    BY <1>2 DEF Allocated
  <2> QED
    BY <1>1, <2>1, AllocatedFacts
<1>5. warm' \in Seq(0..MaxBatch) /\ bound' \in BOOLEAN
  <2>1. /\ options.buckets \in Seq(0..MaxBatch) /\ warm \in Seq(0..MaxBatch)
        /\ bound \in BOOLEAN /\ options.io_binding \in BOOLEAN
    BY <1>1, BucketsType DEF OnnxTypeOK
  <2>2. <<>> \in Seq(0..MaxBatch)
    OBVIOUS
  <2>3. warm' \in {warm, options.buckets, <<>>} /\ bound' \in {bound, options.io_binding}
    BY DEF Constructed, FallsBack, ConstructorThrows
  <2> QED
    BY <2>1, <2>2, <2>3, Zenon
<1>6. host_input' \in [Rows -> RowType]
  <2>1. Zero \in RowType /\ Junk \in RowType /\ host_input \in [Rows -> RowType]
    BY <1>1 DEF OnnxTypeOK, RowType, Zero, Junk, Row
  <2>2. CASE Constructed
    BY <2>1, <2>2 DEF Constructed
  <2>3. CASE FallsBack \/ ConstructorThrows
    BY <2>1, <2>3 DEF FallsBack, ConstructorThrows, buffers
  <2> QED
    BY <2>2, <2>3
<1>7. OnnxTypeOK'
  BY <1>1, <1>2, <1>5, <1>6 DEF OnnxTypeOK, Steps
<1>8. bound' => \A i \in 1..Allocated : host_input'[i] # Junk
  <2>1. CASE Constructed
    <3>1. ASSUME bound', NEW i \in 1..Allocated PROVE host_input'[i] = Zero
      BY <1>4, <2>1, <3>1, OnnxAssumption DEF Constructed, Rows
    <3>2. Zero # Junk
      BY DEF Zero, Junk, Row
    <3> QED
      BY <3>1, <3>2
  <2>2. CASE FallsBack \/ ConstructorThrows
    BY <1>1, <2>2, Zenon DEF FallsBack, ConstructorThrows, buffers, Constructions
  <2> QED
    BY <2>1, <2>2
<1>9. pc' # "failed" /\ options.normalize => bound'
  BY <1>1 DEF Constructed, FallsBack, ConstructorThrows, Acceptable, OnnxTypeOK
<1>10. Constructions'
  BY <1>2, <1>3, <1>4, <1>8, <1>9 DEF Constructions, BoundSteps
<1>11. RowsInv' /\ ReturnedRows'
  BY <1>2, <1>3 DEF RowsInv, ReturnedRows, Answered
<1> QED
  BY <1>7, <1>10, <1>11 DEF OnnxInv

\* A call begins, of the warm-up or of a client.
LEMMA EnterKeeps ==
    ASSUME OnnxInv, WarmBucket \/ \E n \in 1..MaxBatch : RunInference(n)
    PROVE  OnnxInv'
<1>1. OnnxTypeOK /\ Constructions
  BY DEF OnnxInv
<1>2. PICK n \in 0..MaxBatch :
        /\ Enter(n) /\ pc = "idle"
        /\ warm' \in Seq(0..MaxBatch)
        /\ call' \in Nat /\ (call' > 0 => warm' = <<>>)
  <2>1. CASE WarmBucket
    <3>1. warm \in Seq(0..MaxBatch) /\ warm # <<>>
      BY <1>1, <2>1 DEF WarmBucket, OnnxTypeOK
    <3>2. Head(warm) \in 0..MaxBatch /\ Tail(warm) \in Seq(0..MaxBatch)
      BY <3>1, EndFacts, Zenon
    <3>3. call \in Nat /\ ~(call > 0)
      BY <1>1, <3>1 DEF Constructions, OnnxTypeOK
    <3> QED
      BY <2>1, <3>2, <3>3 DEF WarmBucket
  <2>2. CASE \E n \in 1..MaxBatch : RunInference(n)
    BY <1>1, <2>2, OnnxAssumption DEF RunInference, OnnxTypeOK
  <2> QED
    BY <2>1, <2>2
<1>3. /\ options' = options /\ bound' = bound /\ host_input' = host_input
      /\ device_input' = device_input /\ device_output' = device_output
      /\ host_output' = host_output /\ queued' = queued /\ batch' = n
  BY <1>2 DEF Enter, buffers
<1>4. OnBoundPath' <=> bound /\ FitsPreallocated(n)
  BY <1>3 DEF OnBoundPath, FitsPreallocated, bucket_for, Allocated
<1>5. \/ pc' = "memcpy" /\ OnBoundPath'
      \/ pc' = "run" /\ ~OnBoundPath'
  BY <1>2, <1>4 DEF Enter
<1>6. OnnxTypeOK'
  BY <1>1, <1>2, <1>3, <1>5 DEF OnnxTypeOK, Steps
<1>7. Allocated' = Allocated
  BY <1>3 DEF Allocated
<1>8. Constructions'
  BY <1>1, <1>2, <1>3, <1>5, <1>7 DEF Constructions, BoundSteps
<1>9. RowsInv' /\ ReturnedRows'
  BY <1>5 DEF RowsInv, ReturnedRows, Answered
<1> QED
  BY <1>6, <1>8, <1>9 DEF OnnxInv

\* A bucket of zero is skipped.
LEMMA SkipBucketKeeps ==
    ASSUME OnnxInv, SkipBucket
    PROVE  OnnxInv'
<1>1. OnnxTypeOK /\ Constructions
  BY DEF OnnxInv
<1>2. /\ pc = "idle" /\ pc' = "idle" /\ options' = options /\ bound' = bound
      /\ call' = call /\ batch' = batch /\ host_input' = host_input
      /\ device_input' = device_input /\ device_output' = device_output
      /\ host_output' = host_output /\ queued' = queued
      /\ warm # <<>> /\ warm' = Tail(warm)
  BY DEF SkipBucket, buffers
<1>3. warm \in Seq(0..MaxBatch)
  BY <1>1 DEF OnnxTypeOK
<1>4. warm' \in Seq(0..MaxBatch)
  BY <1>2, <1>3
<1>5. ~(call > 0)
  BY <1>1, <1>2 DEF Constructions
<1>6. OnnxTypeOK'
  BY <1>1, <1>2, <1>4 DEF OnnxTypeOK
<1>7. Constructions'
  BY <1>1, <1>2, <1>5, SameCall DEF Constructions, BoundSteps
<1>8. RowsInv' /\ ReturnedRows'
  BY <1>2, <1>5 DEF RowsInv, ReturnedRows, Answered
<1> QED
  BY <1>6, <1>7, <1>8 DEF OnnxInv

\* An empty batch returns at once.
LEMMA EmptyBatchKeeps ==
    ASSUME OnnxInv, EmptyBatch
    PROVE  OnnxInv'
<1>1. OnnxTypeOK /\ Constructions
  BY DEF OnnxInv
<1>2. /\ pc = "idle" /\ pc' = "idle" /\ options' = options /\ bound' = bound
      /\ call' = call + 1 /\ batch' = 0 /\ host_input' = host_input
      /\ device_input' = device_input /\ device_output' = device_output
      /\ host_output' = host_output /\ queued' = queued
      /\ warm = <<>> /\ warm' = <<>> /\ returned' = <<>>
  BY DEF EmptyBatch, buffers
<1>3. OnnxTypeOK'
  BY <1>1, <1>2, OnnxAssumption DEF OnnxTypeOK
<1>4. Allocated' = Allocated
  BY <1>2 DEF Allocated
<1>5. Constructions'
  BY <1>1, <1>2, <1>4 DEF Constructions, BoundSteps
<1>6. RowsInv' /\ ReturnedRows'
  BY <1>2 DEF RowsInv, ReturnedRows, Answered
<1> QED
  BY <1>3, <1>5, <1>6 DEF OnnxInv

\* What a step inside a call leaves alone.
InCall ==
    /\ options' = options /\ bound' = bound /\ warm' = warm /\ call' = call /\ batch' = batch

\* A step inside a call that keeps what was staged initialised keeps what the
\* constructor established.
LEMMA InCallKeeps ==
    ASSUME Constructions, InCall, pc \notin {"construct", "failed"},
           pc' \notin {"construct", "failed"}, pc' \in BoundSteps => OnBoundPath,
           bound => \A i \in 1..Allocated : host_input'[i] # Junk
    PROVE  Constructions'
<1>1. Allocated' = Allocated /\ (OnBoundPath' <=> OnBoundPath)
  BY SameCall DEF InCall
<1> QED
  BY <1>1 DEF Constructions, InCall

\* The batch is staged.
LEMMA MemcpyKeeps ==
    ASSUME OnnxInv, Memcpy
    PROVE  OnnxInv'
<1>1. OnnxTypeOK /\ Constructions
  BY DEF OnnxInv
<1>2. /\ InCall /\ pc = "memcpy" /\ pc' = "h2d" /\ device_input' = device_input
      /\ device_output' = device_output /\ host_output' = host_output /\ queued' = queued
      /\ host_input' = [i \in Rows |-> IF i <= batch THEN Input[i] ELSE host_input[i]]
  BY DEF Memcpy, InCall
<1>3. OnBoundPath
  BY <1>1, <1>2 DEF Constructions, BoundSteps
<1>4. /\ batch \in Nat /\ padded \in Nat /\ Allocated \in Nat /\ MaxBatch \in Nat
      /\ batch <= padded /\ padded <= Allocated /\ Allocated <= MaxBatch
  BY <1>1, <1>3, PathFacts, OnnxAssumption
<1>5. \A i \in 1..batch : i \in Rows /\ host_input'[i] = Raw(i) /\ Raw(i) # Junk
  BY <1>1, <1>2, <1>4, RowFacts DEF Rows
<1>6. \A i \in Rows : i \notin 1..batch => host_input'[i] = host_input[i]
  BY <1>2, <1>4 DEF Rows
<1>7. host_input' \in [Rows -> RowType]
  <2>1. \A i \in Rows : i <= batch => Input[i] \in RowType
    BY <1>1, <1>4, RowFacts DEF Rows
  <2>2. \A i \in Rows : host_input[i] \in RowType
    BY <1>1 DEF OnnxTypeOK
  <2> QED
    BY <1>2, <2>1, <2>2
<1>8. OnnxTypeOK'
  BY <1>1, <1>2, <1>7 DEF OnnxTypeOK, InCall, Steps
<1>9. ASSUME bound, NEW i \in 1..Allocated PROVE host_input'[i] # Junk
  <2>1. i \in Rows /\ host_input[i] # Junk
    BY <1>1, <1>4, <1>9 DEF Rows, Constructions
  <2> QED
    BY <1>5, <1>6, <2>1
<1>10. Constructions'
  BY <1>1, <1>2, <1>3, <1>9, InCallKeeps
<1>11. HasRaw(host_input)'
  <2>1. \A i : Raw(i)' = Raw(i)
    BY <1>2, SameCall DEF InCall
  <2> QED
    BY <1>2, <1>5, <2>1 DEF HasRaw, InCall
<1>12. RowsInv' /\ ReturnedRows'
  BY <1>2, <1>11 DEF RowsInv, ReturnedRows, Answered
<1> QED
  BY <1>8, <1>10, <1>12 DEF OnnxInv

\* An operation at the end of the stream.
LEMMA AppendFacts ==
    ASSUME NEW T, NEW q \in Seq(T), NEW o \in T, NEW longer, longer = Append(q, o)
    PROVE  /\ longer \in Seq(T) /\ Len(q) \in Nat /\ Len(longer) = Len(q) + 1
           /\ longer[Len(longer)] = o
           /\ Len(q) >= 1 => longer[Len(longer) - 1] = q[Len(q)]
           /\ q = <<>> => Len(q) = 0
<1>1. /\ longer \in Seq(T) /\ Len(q) \in Nat /\ Len(longer) = Len(q) + 1
      /\ longer[Len(q) + 1] = o /\ \A i \in 1..Len(q) : longer[i] = q[i]
  OBVIOUS
<1>2. q = <<>> => Len(q) = 0
  OBVIOUS
<1> QED
  BY <1>1, <1>2

\* The padded rows are copied in, normalised, or copied out.
LEMMA EnqueueKeeps ==
    ASSUME OnnxInv, CopyIn \/ Launch \/ CopyOut
    PROVE  OnnxInv'
<1>1. OnnxTypeOK /\ Constructions /\ RowsInv
  BY DEF OnnxInv
<1>2. PICK step, op, after :
        /\ Enqueue(step, op, after)
        /\ \/ step = "h2d" /\ op = "h2d" /\ after = "launch" /\ options.normalize
           \/ step = "h2d" /\ op = "h2d" /\ after = "pre_run" /\ ~options.normalize
           \/ step = "launch" /\ op = "kernel" /\ after = "pre_run"
           \/ step = "d2h" /\ op = "d2h" /\ after = "post_run"
  BY DEF CopyIn, Launch, CopyOut
<1>3. /\ InCall /\ pc = step /\ pc' = after /\ queued' = Append(queued, Op(op))
      /\ host_input' = host_input /\ device_input' = device_input
      /\ device_output' = device_output /\ host_output' = host_output
  BY <1>2 DEF Enqueue, InCall, buffers, Op
<1>4. step \in BoundSteps /\ after \in BoundSteps
  BY <1>2 DEF BoundSteps
<1>5. OnBoundPath
  BY <1>1, <1>3, <1>4 DEF Constructions
<1>6. queued \in Seq(Operations) /\ Op(op) \in Operations
  <2>1. padded \in Nat
    BY <1>1, <1>5, PathFacts
  <2> QED
    BY <1>1, <1>2, <2>1 DEF OnnxTypeOK, Operations, Op
<1>7. PICK longer : longer = queued' /\ longer = Append(queued, Op(op))
  BY <1>3
<1>8. /\ longer \in Seq(Operations) /\ Len(queued) \in Nat
      /\ Len(longer) = Len(queued) + 1 /\ longer[Len(longer)] = Op(op)
      /\ Len(queued) >= 1 => longer[Len(longer) - 1] = queued[Len(queued)]
      /\ queued = <<>> => Len(queued) = 0
  BY <1>6, <1>7, AppendFacts
<1>9. OnnxTypeOK'
  BY <1>1, <1>3, <1>4, <1>7, <1>8 DEF OnnxTypeOK, InCall, Steps, BoundSteps
<1>10. Constructions'
  <2>1. bound => \A i \in 1..Allocated : host_input'[i] # Junk
    BY <1>1, <1>3 DEF Constructions
  <2>2. \A s \in BoundSteps : s \notin {"construct", "failed"}
    BY DEF BoundSteps
  <2> QED
    BY <1>1, <1>3, <1>4, <1>5, <2>1, <2>2, InCallKeeps
<1>11. /\ HasRaw(host_input)' <=> HasRaw(host_input)
       /\ HasRaw(device_input)' <=> HasRaw(device_input)
       /\ HasFinal(device_output)' <=> HasFinal(device_output)
       /\ \A o : Op(o)' = Op(o)
  BY <1>3, SameCall DEF HasRaw, HasFinal, InCall
<1>12. ReturnedRows'
  BY <1>3, <1>4 DEF ReturnedRows, Answered, BoundSteps
<1>13. RowsInv'
  <2>1. CASE op = "h2d"
    <3>1. HasRaw(host_input)' /\ CopyPending'
      BY <1>1, <1>2, <1>3, <1>7, <1>8, <1>11, <2>1 DEF RowsInv, CopyPending
    <3> QED
      BY <1>2, <1>3, <2>1, <3>1 DEF RowsInv, InCall
  <2>2. CASE op = "kernel"
    <3>1. options.normalize /\ CopyPending /\ HasRaw(host_input) /\ pc' = "pre_run"
      BY <1>1, <1>2, <1>3, <2>2 DEF RowsInv
    <3>2. KernelPending'
      <4>1. CASE Len(queued) >= 1 /\ queued[Len(queued)] = Op("h2d")
        BY <1>7, <1>8, <1>11, <2>2, <4>1 DEF KernelPending
      <4>2. CASE queued = <<>> /\ HasRaw(device_input)
        BY <1>7, <1>8, <1>11, <2>2, <4>2 DEF KernelPending
      <4> QED
        BY <3>1, <4>1, <4>2 DEF CopyPending
    <3> QED
      BY <1>3, <1>11, <3>1, <3>2 DEF RowsInv, InCall
  <2>3. CASE op = "d2h"
    <3>1. queued = <<>> /\ HasFinal(device_output) /\ pc' = "post_run"
      BY <1>1, <1>2, <1>3, <2>3 DEF RowsInv
    <3> QED
      BY <1>7, <1>8, <1>11, <2>3, <3>1 DEF RowsInv
  <2> QED
    BY <1>2, <2>1, <2>2, <2>3
<1> QED
  BY <1>9, <1>10, <1>12, <1>13 DEF OnnxInv

\* cudaStreamSynchronize returns when the stream is empty.
LEMMA WaitKeeps ==
    ASSUME OnnxInv, Wait("pre_run", "run") \/ Wait("post_run", "return")
    PROVE  OnnxInv'
<1>1. OnnxTypeOK /\ Constructions /\ RowsInv
  BY DEF OnnxInv
<1>2. /\ InCall /\ queued = <<>> /\ queued' = <<>>
      /\ \/ pc = "pre_run" /\ pc' = "run"
         \/ pc = "post_run" /\ pc' = "return"
      /\ host_input' = host_input /\ device_input' = device_input
      /\ device_output' = device_output /\ host_output' = host_output
  BY DEF Wait, InCall, buffers
<1>3. OnBoundPath
  BY <1>1, <1>2 DEF Constructions, BoundSteps
<1>4. OnnxTypeOK'
  BY <1>1, <1>2 DEF OnnxTypeOK, InCall, Steps
<1>5. Constructions'
  BY <1>1, <1>2, <1>3, InCallKeeps DEF Constructions
<1>6. /\ HasFinal(device_input)' <=> HasFinal(device_input)
      /\ HasFinal(host_output)' <=> HasFinal(host_output)
  BY <1>2, SameCall DEF HasFinal, InCall
\* Nothing is pending any more.
<1>7. ASSUME pc = "pre_run" PROVE RowsInv'
  <2>1. HasFinal(device_input)
    <3>1. CASE options.normalize
      BY <1>1, <1>2, <1>7, <3>1 DEF RowsInv, KernelPending
    <3>2. CASE ~options.normalize
      <4>1. HasRaw(device_input)
        BY <1>1, <1>2, <1>7, <3>2 DEF RowsInv, CopyPending
      <4> QED
        BY <1>1, <3>2, <4>1, RowFacts DEF HasRaw, HasFinal
    <3> QED
      BY <3>1, <3>2
  <2> QED
    BY <1>2, <1>6, <1>7, <2>1 DEF RowsInv
<1>8. ASSUME pc = "post_run" PROVE RowsInv'
  <2>1. HasFinal(host_output)
    BY <1>1, <1>2, <1>8 DEF RowsInv
  <2> QED
    BY <1>2, <1>6, <1>8, <2>1 DEF RowsInv
<1>9. ReturnedRows'
  BY <1>2 DEF ReturnedRows, Answered
<1> QED
  BY <1>2, <1>4, <1>5, <1>7, <1>8, <1>9 DEF OnnxInv

\* Session::Run over the device buffers.
LEMMA RunBoundKeeps ==
    ASSUME OnnxInv, RunBound
    PROVE  OnnxInv'
<1>1. OnnxTypeOK /\ Constructions /\ RowsInv
  BY DEF OnnxInv
<1>2. /\ InCall /\ pc = "run" /\ OnBoundPath /\ pc' = "d2h" /\ queued' = queued
      /\ host_input' = host_input /\ device_input' = device_input
      /\ host_output' = host_output
      /\ device_output' = [i \in Rows |-> IF i <= padded THEN device_input[i]
                                                         ELSE device_output[i]]
  BY DEF RunBound, InCall
<1>3. /\ batch \in Nat /\ padded \in Nat /\ MaxBatch \in Nat /\ batch <= padded
      /\ padded <= MaxBatch
  BY <1>1, <1>2, PathFacts, OnnxAssumption
<1>4. queued = <<>> /\ HasFinal(device_input)
  BY <1>1, <1>2 DEF RowsInv
<1>5. OnnxTypeOK'
  <2>1. \A i \in Rows : device_input[i] \in RowType /\ device_output[i] \in RowType
    BY <1>1 DEF OnnxTypeOK
  <2>2. device_output' \in [Rows -> RowType]
    BY <1>2, <2>1
  <2> QED
    BY <1>1, <1>2, <2>2 DEF OnnxTypeOK, InCall, Steps
<1>6. Constructions'
  BY <1>1, <1>2, InCallKeeps DEF Constructions
<1>7. HasFinal(device_output)'
  <2>1. \A i \in 1..batch : device_output'[i] = device_input[i]
    BY <1>2, <1>3 DEF Rows
  <2>2. \A i : Final(i)' = Final(i)
    BY <1>2, SameCall DEF InCall
  <2> QED
    BY <1>2, <1>4, <2>1, <2>2, SMTT(30) DEF HasFinal, InCall
<1>8. RowsInv' /\ ReturnedRows'
  BY <1>2, <1>4, <1>7 DEF RowsInv, ReturnedRows, Answered
<1> QED
  BY <1>5, <1>6, <1>8 DEF OnnxInv

\* A call ends, with its rows or with an exception.
LEMMA EndOfCall ==
    ASSUME OnnxInv, InCall, pc \notin {"construct", "failed"}, pc' = "idle",
           queued' = queued, host_input' = host_input, device_input' = device_input,
           device_output' = device_output, host_output' = host_output,
           ReturnedRows'
    PROVE  OnnxInv'
<1>1. OnnxTypeOK /\ Constructions
  BY DEF OnnxInv
<1>2. OnnxTypeOK'
  BY <1>1 DEF OnnxTypeOK, InCall, Steps
<1>3. Constructions'
  BY <1>1, InCallKeeps DEF Constructions, BoundSteps
<1>4. RowsInv'
  BY DEF RowsInv
<1> QED
  BY <1>2, <1>3, <1>4 DEF OnnxInv

\* Any step of a call may throw.
LEMMA ThrowsKeeps ==
    ASSUME OnnxInv, Throws
    PROVE  OnnxInv'
<1>1. /\ InCall /\ pc \notin {"construct", "failed"} /\ pc' = "idle" /\ queued' = queued
      /\ host_input' = host_input /\ device_input' = device_input
      /\ device_output' = device_output /\ host_output' = host_output
  BY OnnxAssumption DEF Throws, InCall, buffers
<1>2. returned' = Error /\ Error' = Error
  BY DEF Throws, Error, Row
<1>3. ReturnedRows'
  BY <1>2 DEF ReturnedRows, Answered
<1> QED
  BY <1>1, <1>3, EndOfCall

\* The rows in the host buffer are returned.
LEMMA ReturnKeeps ==
    ASSUME OnnxInv, Return
    PROVE  OnnxInv'
<1>1. OnnxTypeOK /\ Constructions /\ RowsInv
  BY DEF OnnxInv
<1>2. /\ InCall /\ pc = "return" /\ pc' = "idle" /\ queued' = queued
      /\ host_input' = host_input /\ device_input' = device_input
      /\ device_output' = device_output /\ host_output' = host_output
      /\ returned' = SubSeq(host_output, 1, batch)
  BY DEF Return, InCall, buffers
<1>3. OnBoundPath /\ HasFinal(host_output)
  BY <1>1, <1>2 DEF Constructions, RowsInv, BoundSteps
<1>4. returned' = [i \in 1..batch |-> host_output[i]]
  <2>1. /\ host_output \in [1..MaxBatch -> RowType] /\ MaxBatch \in Nat
        /\ batch \in 0..MaxBatch
    BY <1>1, OnnxAssumption DEF OnnxTypeOK, Rows
  <2> QED
    BY <1>2, <2>1, FirstRows
<1>5. FitsPreallocated(batch)' /\ options' = options /\ call' = call /\ batch' = batch
  <2>1. OnBoundPath'
    BY <1>2, <1>3, SameCall DEF InCall
  <2> QED
    BY <1>2, <2>1 DEF OnBoundPath, InCall
<1>6. ASSUME call > 0, NEW i \in 1..batch
      PROVE  host_output[i] = Row(call, i, IF options.normalize THEN 1 ELSE 0)
  BY <1>3, <1>6 DEF HasFinal, Final
<1>7. ReturnedRows'
  BY <1>4, <1>5, <1>6 DEF ReturnedRows, Answered, Row
<1> QED
  BY <1>2, <1>7, EndOfCall

\* The host path returns the rows of its own copy.
LEMMA RunHostKeeps ==
    ASSUME OnnxInv, RunHost
    PROVE  OnnxInv'
<1> DEFINE input == [i \in 1..padded |-> IF i <= batch THEN Input[i] ELSE Zero]
<1>1. OnnxTypeOK /\ Constructions
  BY DEF OnnxInv
<1>2. /\ InCall /\ pc = "run" /\ ~OnBoundPath /\ pc' = "idle" /\ queued' = queued
      /\ host_input' = host_input /\ device_input' = device_input
      /\ device_output' = device_output /\ host_output' = host_output
      /\ returned' = SubSeq(input, 1, batch)
  BY DEF RunHost, InCall, buffers
<1>3. batch \in Nat /\ padded \in Nat /\ batch <= padded
  <2>1. batch \in Nat
    BY <1>1, OnnxAssumption DEF OnnxTypeOK
  <2> QED
    BY <1>1, <2>1, BucketFacts DEF padded
<1>4. \A i \in 1..batch : input[i] = Raw(i)
  <2>1. \A i \in 1..batch : i \in 1..padded /\ i <= batch
    BY <1>3
  <2> QED
    BY <1>1, <2>1, RowFacts
<1>5. input \in [1..padded -> RowType]
  <2>1. \A i \in 1..padded : i <= batch => Input[i] \in RowType
    BY <1>1, <1>3, RowFacts
  <2>2. Zero \in RowType
    BY DEF Zero, Row, RowType
  <2> QED
    BY <2>1, <2>2
<1> HIDE DEF input
<1>6. returned' = [i \in 1..batch |-> input[i]]
  <2>1. batch \in 0..padded
    BY <1>3
  <2> QED
    BY <1>2, <1>3, <1>5, <2>1, FirstRows
\* Normalising on the device needs the buffers, which a batch on the host path
\* does not fit.
<1>7. ~(options.normalize /\ FitsPreallocated(batch))
  BY <1>1, <1>2 DEF Constructions, OnBoundPath
<1>8. /\ options' = options /\ call' = call /\ batch' = batch
      /\ ~(options.normalize /\ FitsPreallocated(batch))'
  <2>1. ~OnBoundPath' /\ bound' = bound
    BY <1>2, SameCall DEF InCall
  <2> QED
    BY <1>1, <1>2, <2>1 DEF OnBoundPath, Constructions, InCall
<1>9. ASSUME call > 0, NEW i \in 1..batch PROVE input[i] = Row(call, i, 0)
  BY <1>4, <1>9 DEF Raw
<1>10. ReturnedRows'
  BY <1>6, <1>8, <1>9 DEF ReturnedRows, Answered, Row
<1> QED
  BY <1>2, <1>10, EndOfCall

\* The stream without its first operation.
LEMMA RestFacts ==
    ASSUME NEW T, NEW q \in Seq(T), q # <<>>, NEW rest, rest = Tail(q)
    PROVE  /\ rest \in Seq(T) /\ Head(q) = q[1] /\ q[1] \in T
           /\ Len(q) \in Nat /\ Len(q) >= 1 /\ Len(rest) = Len(q) - 1
           /\ Len(q) = 1 => rest = <<>>
           /\ Len(q) >= 2 => rest[Len(rest)] = q[Len(q)]
           /\ Len(q) >= 3 => rest[Len(rest) - 1] = q[Len(q) - 1]
<1>1. /\ rest \in Seq(T) /\ Head(q) = q[1] /\ q[1] \in T /\ Len(q) \in Nat /\ Len(q) >= 1
      /\ Len(rest) = Len(q) - 1 /\ \A i \in 1..(Len(q) - 1) : rest[i] = q[i + 1]
  BY EndFacts
<1>2. Len(q) = 1 => rest = <<>>
  BY <1>1
<1>3. Len(q) >= 2 => rest[Len(rest)] = q[Len(q)]
  <2>1. ASSUME Len(q) >= 2 PROVE Len(q) - 1 \in 1..(Len(q) - 1) /\ (Len(q) - 1) + 1 = Len(q)
    BY <1>1, <2>1
  <2> QED
    BY <1>1, <2>1
<1>4. Len(q) >= 3 => rest[Len(rest) - 1] = q[Len(q) - 1]
  <2>1. ASSUME Len(q) >= 3
        PROVE  /\ Len(q) - 2 \in 1..(Len(q) - 1) /\ (Len(q) - 2) + 1 = Len(q) - 1
               /\ Len(rest) - 1 = Len(q) - 2
    BY <1>1, <2>1
  <2> QED
    BY <1>1, <2>1
<1> QED
  BY <1>1, <1>2, <1>3, <1>4

\* The device executes an operation: a copy in of this call leaves its raw rows
\* on the device, its kernel turns them into the final ones, and its copy out
\* brings these to the host; an operation of an earlier call comes before them.
LEMMA ExecuteKeeps ==
    ASSUME OnnxInv, Execute
    PROVE  OnnxInv'
<1>1. OnnxTypeOK /\ Constructions /\ RowsInv /\ ReturnedRows
  BY DEF OnnxInv
<1>2. /\ InCall /\ pc' = pc /\ returned' = returned /\ queued # <<>>
      /\ host_input' = host_input /\ device_output' = device_output
  BY DEF Execute, InCall
<1>3. queued \in Seq(Operations)
  BY <1>1 DEF OnnxTypeOK
<1>4. PICK rest : rest = Tail(queued) /\ queued' = rest
  BY DEF Execute
<1>5. /\ rest \in Seq(Operations) /\ Head(queued) = queued[1] /\ queued[1] \in Operations
      /\ Len(queued) \in Nat /\ Len(queued) >= 1 /\ Len(rest) = Len(queued) - 1
      /\ Len(queued) = 1 => rest = <<>>
      /\ Len(queued) >= 2 => rest[Len(rest)] = queued[Len(queued)]
      /\ Len(queued) >= 3 => rest[Len(rest) - 1] = queued[Len(queued) - 1]
  BY <1>2, <1>3, <1>4, RestFacts, SMTT(30)
<1>6. PICK o : o = queued[1] /\ o = Head(queued) /\ o \in Operations
  BY <1>5
<1>7. \/ /\ o.op = "h2d"
         /\ device_input' = [i \in Rows |-> IF i <= o.rows THEN host_input[i]
                                                           ELSE device_input[i]]
         /\ host_output' = host_output
      \/ /\ o.op = "kernel"
         /\ device_input' = [i \in Rows |-> IF i <= o.rows THEN Normalize(device_input[i])
                                                           ELSE device_input[i]]
         /\ host_output' = host_output
      \/ /\ o.op = "d2h"
         /\ host_output' = [i \in Rows |-> IF i <= o.rows THEN device_output[i]
                                                          ELSE host_output[i]]
         /\ device_input' = device_input
  BY <1>6, SMTT(30) DEF Execute
<1>8. device_input' \in [Rows -> RowType] /\ host_output' \in [Rows -> RowType]
  <2>1. /\ device_input \in [Rows -> RowType] /\ host_output \in [Rows -> RowType]
        /\ \A i \in Rows : /\ host_input[i] \in RowType /\ device_input[i] \in RowType
                           /\ device_output[i] \in RowType /\ host_output[i] \in RowType
    BY <1>1 DEF OnnxTypeOK
  <2>2. \A r \in RowType : Normalize(r) \in RowType
    BY DEF RowType, Normalize
  <2> QED
    BY <1>7, <2>1, <2>2
<1>9. OnnxTypeOK'
  BY <1>1, <1>2, <1>4, <1>5, <1>8 DEF OnnxTypeOK, InCall
<1>10. Constructions' /\ ReturnedRows'
  <2>1. /\ OnBoundPath' <=> OnBoundPath
        /\ FitsPreallocated(batch)' <=> FitsPreallocated(batch)
        /\ Allocated' = Allocated
    BY <1>2, SameCall DEF InCall, FitsPreallocated, bucket_for
  <2>2. Constructions'
    BY <1>1, <1>2, <2>1 DEF Constructions, InCall
  <2>3. ReturnedRows'
    BY <1>1, <1>2, <2>1, SMTT(30) DEF ReturnedRows, Answered, InCall
  <2> QED
    BY <2>2, <2>3, SMTT(30)
<1>11. /\ batch' = batch /\ options' = options /\ (OnBoundPath' <=> OnBoundPath)
       /\ \A i : Raw(i)' = Raw(i) /\ Final(i)' = Final(i)
       /\ \A op : Op(op)' = Op(op)
       /\ HasRaw(host_input)' <=> HasRaw(host_input)
       /\ HasFinal(device_output)' <=> HasFinal(device_output)
  BY <1>2, SameCall DEF InCall, HasRaw, HasFinal
\* The first rows of the buffers after an operation of this call.
<1>12. ASSUME OnBoundPath, NEW i \in 1..batch
       PROVE  /\ o = Op("h2d") => device_input'[i] = host_input[i]
              /\ o = Op("kernel") => device_input'[i] = Normalize(device_input[i])
              /\ o = Op("d2h") => host_output'[i] = device_output[i]
  <2>1. i \in Rows /\ i <= padded
    BY <1>1, <1>12, PathFacts, OnnxAssumption DEF Rows
  <2>2. \A op : Op(op).op = op /\ Op(op).rows = padded
    BY DEF Op
  <2> QED
    BY <1>7, <2>1, <2>2
<1>13. ASSUME OnBoundPath, HasRaw(host_input), CopyPending PROVE CopyPending'
  <2>1. Len(queued) >= 1 /\ queued[Len(queued)] = Op("h2d")
    BY <1>2, <1>13 DEF CopyPending
  <2>2. CASE Len(queued) = 1
    <3>1. o = Op("h2d") /\ queued' = <<>>
      BY <1>4, <1>5, <1>6, <2>1, <2>2, SMTT(30)
    <3>2. HasRaw(device_input)'
      BY <1>11, <1>12, <1>13, <3>1 DEF HasRaw
    <3> QED
      BY <3>1, <3>2 DEF CopyPending
  <2>3. CASE Len(queued) >= 2
    BY <1>4, <1>5, <1>11, <2>1, <2>3 DEF CopyPending
  <2> QED
    BY <1>5, <2>2, <2>3
<1>14. ASSUME OnBoundPath, HasRaw(host_input), KernelPending, options.normalize
       PROVE  KernelPending'
  <2>1. CASE Len(queued) >= 3
    BY <1>2, <1>4, <1>5, <1>11, <1>14, <2>1 DEF KernelPending
  <2>2. CASE Len(queued) = 2
    <3>1. queued[1] = Op("h2d") /\ queued[2] = Op("kernel")
      BY <1>2, <1>14, <2>2 DEF KernelPending
    <3>2. o = Op("h2d") /\ Len(queued') = 1 /\ queued'[1] = Op("kernel")
      BY <1>4, <1>5, <1>6, <2>2, <3>1, SMTT(30)
    <3>3. HasRaw(device_input)'
      BY <1>11, <1>12, <1>14, <3>2, SMTT(30) DEF HasRaw
    <3> QED
      BY <1>11, <3>2, <3>3 DEF KernelPending
  <2>3. CASE Len(queued) = 1
    <3>1. o = Op("kernel") /\ HasRaw(device_input) /\ queued' = <<>>
      BY <1>2, <1>4, <1>5, <1>6, <1>14, <2>3, SMTT(30) DEF KernelPending
    <3>2. \A i \in 1..batch : device_input'[i] = Final(i)
      BY <1>1, <1>12, <1>14, <3>1, RowFacts, SMTT(30) DEF HasRaw
    <3> QED
      BY <1>11, <3>1, <3>2 DEF KernelPending, HasFinal
  <2> QED
    BY <1>5, <2>1, <2>2, <2>3, SMTT(30)
<1>15. ASSUME pc = "post_run" PROVE queued' = <<>> /\ HasFinal(host_output)'
  <2>1. Len(queued) = 1 /\ queued[1] = Op("d2h") /\ HasFinal(device_output) /\ OnBoundPath
    BY <1>1, <1>2, <1>15, SMTT(30) DEF RowsInv, Constructions, BoundSteps
  <2>2. \A i \in 1..batch : host_output'[i] = Final(i)
    BY <1>6, <1>12, <2>1 DEF HasFinal
  <2> QED
    BY <1>4, <1>5, <1>11, <2>1, <2>2, SMTT(30) DEF HasFinal
<1>16. pc \in {"launch", "pre_run"} => OnBoundPath /\ HasRaw(host_input)
  BY <1>1 DEF RowsInv, Constructions, BoundSteps
<1>17. /\ pc = "launch" => options.normalize /\ CopyPending
       /\ pc = "pre_run" => IF options.normalize THEN KernelPending ELSE CopyPending
       /\ pc \in {"h2d", "launch", "pre_run"} => HasRaw(host_input)
       /\ pc \notin {"d2h", "return"} /\ ~(pc = "run" /\ OnBoundPath)
  BY <1>1, <1>2, SMTT(30) DEF RowsInv
<1>18. RowsInv'
  BY <1>2, <1>11, <1>13, <1>14, <1>15, <1>16, <1>17 DEF RowsInv
<1> QED
  BY <1>9, <1>10, <1>18 DEF OnnxInv
-----------------------------------------------------------------------------
(* Theorems about the engine. *)

\* The engine starts with untouched buffers and an empty stream.
LEMMA OnnxInitInv == Init => OnnxInv
<1> SUFFICES ASSUME Init PROVE OnnxInv
  OBVIOUS
<1>1. Untouched \in [Rows -> RowType]
  BY DEF Untouched, RowType, Junk, Row
<1>2. OnnxTypeOK
  <2>1. <<>> \in Seq(0..MaxBatch) /\ <<>> \in Seq(Operations) /\ 0 \in 0..MaxBatch
    BY OnnxAssumption
  <2> QED
    BY <1>1, <2>1, Zenon DEF Init, OnnxTypeOK, Steps
<1>3. Constructions /\ RowsInv /\ ReturnedRows
  BY DEF Init, Constructions, RowsInv, ReturnedRows, Answered, BoundSteps
<1> QED
  BY <1>2, <1>3 DEF OnnxInv

\* Every step keeps the invariant.
LEMMA OnnxNextInv == OnnxInv /\ [Next]_vars => OnnxInv'
<1> SUFFICES ASSUME OnnxInv, [Next]_vars PROVE OnnxInv'
  OBVIOUS
<1>1. CASE Constructed \/ FallsBack \/ ConstructorThrows
  BY <1>1, ConstructionKeeps
<1>2. CASE WarmBucket \/ \E n \in 1..MaxBatch : RunInference(n)
  BY <1>2, EnterKeeps
<1>3. CASE SkipBucket
  BY <1>3, SkipBucketKeeps
<1>4. CASE EmptyBatch
  BY <1>4, EmptyBatchKeeps
<1>5. CASE Memcpy
  BY <1>5, MemcpyKeeps
<1>6. CASE CopyIn \/ Launch \/ CopyOut
  BY <1>6, EnqueueKeeps
<1>7. CASE Wait("pre_run", "run") \/ Wait("post_run", "return")
  BY <1>7, WaitKeeps
<1>8. CASE RunBound
  BY <1>8, RunBoundKeeps
<1>9. CASE RunHost
  BY <1>9, RunHostKeeps
<1>10. CASE Return
  BY <1>10, ReturnKeeps
<1>11. CASE Throws
  BY <1>11, ThrowsKeeps
<1>12. CASE Execute
  BY <1>12, ExecuteKeeps
<1>13. CASE UNCHANGED vars
  <2>1. /\ InCall /\ pc' = pc /\ queued' = queued /\ returned' = returned
        /\ host_input' = host_input /\ device_input' = device_input
        /\ device_output' = device_output /\ host_output' = host_output
    BY <1>13, SMTT(30) DEF vars, buffers, InCall
  <2>2. /\ padded' = padded /\ Allocated' = Allocated /\ (OnBoundPath' <=> OnBoundPath)
        /\ \A i : Raw(i)' = Raw(i) /\ Final(i)' = Final(i)
        /\ \A op : Op(op)' = Op(op)
        /\ FitsPreallocated(batch)' <=> FitsPreallocated(batch)
    BY <2>1, SameCall, SMTT(30) DEF InCall, FitsPreallocated, bucket_for
  <2>3. OnnxTypeOK' /\ Constructions' /\ ReturnedRows'
    BY <2>1, <2>2 DEF OnnxInv, OnnxTypeOK, Constructions, ReturnedRows, Answered, InCall
  <2>4. RowsInv'
    BY <2>1, <2>2, Zenon
       DEF OnnxInv, RowsInv, CopyPending, KernelPending, HasRaw, HasFinal, InCall
  <2> QED
    BY <2>3, <2>4 DEF OnnxInv
<1> QED
  BY <1>1, <1>2, <1>3, <1>4, <1>5, <1>6, <1>7, <1>8, <1>9, <1>10, <1>11, <1>12, <1>13 DEF Next

\* The invariant holds in every state of the engine.
THEOREM OnnxInvariant == Spec => []OnnxInv
<1>1. Init => OnnxInv
  BY OnnxInitInv
<1>2. OnnxInv /\ [Next]_vars => OnnxInv'
  BY OnnxNextInv
<1> QED
  BY <1>1, <1>2, PTL DEF Spec

\* run_inference returns one result per row, in order, each computed from its
\* own row and normalised at most as often as was asked for, for any list of
\* buckets and after any failures.
THEOREM RowsAlwaysOwn == Spec => []OwnRows
<1>1. ASSUME OnnxInv, Answered PROVE Len(returned) = batch
  <2>1. batch \in Nat
    BY <1>1, OnnxAssumption DEF OnnxInv, OnnxTypeOK
  <2> QED
    BY <1>1, <2>1 DEF OnnxInv, ReturnedRows
<1>2. ASSUME OnnxInv, Answered, NEW i \in 1..batch
      PROVE  \E times \in {0, IF options.normalize THEN 1 ELSE 0} :
                 returned[i] = Row(call, i, times)
  BY <1>2 DEF OnnxInv, ReturnedRows
<1>3. OnnxInv => OwnRows
  BY <1>1, <1>2 DEF OwnRows
<1> QED
  BY <1>3, OnnxInvariant, PTL

\* NormalizedWhenAsked fails only past the last bucket: with normalize_on_device
\* every batch that fits the preallocated buffers comes back normalised.
THEOREM FittingBatchesNormalized ==
    Spec => [](Answered /\ options.normalize /\ FitsPreallocated(batch) =>
                   \A i \in 1..batch : returned[i].normalized = 1)
<1>1. OnnxInv => (Answered /\ options.normalize /\ FitsPreallocated(batch) =>
                      \A i \in 1..batch : returned[i].normalized = 1)
  BY DEF OnnxInv, ReturnedRows, Row
<1> QED
  BY <1>1, OnnxInvariant, PTL

\* run_bound's copies stay within the buffers allocate_buffers sized for the
\* last bucket, and none leaves out a row of the batch.
THEOREM CopiesWithinBuffers == Spec => []WithinBuffers
<1>1. OnnxInv => WithinBuffers
  <2> SUFFICES ASSUME OnnxInv, pc = "memcpy" PROVE batch <= padded /\ padded <= Allocated
    BY DEF WithinBuffers
  <2>1. OnnxTypeOK /\ OnBoundPath
    BY DEF OnnxInv, Constructions, BoundSteps
  <2> QED
    BY <2>1, PathFacts
<1> QED
  BY <1>1, OnnxInvariant, PTL

\* Every row run_bound copies to the device was written: by this call, by an
\* earlier one or by the constructor's memset.
THEOREM PaddingAlwaysInitialised == Spec => []PaddingInitialised
<1>1. OnnxInv => PaddingInitialised
  <2> SUFFICES ASSUME OnnxInv, pc = "h2d", NEW i \in 1..padded PROVE host_input[i] # Junk
    BY DEF PaddingInitialised
  <2>1. OnnxTypeOK /\ OnBoundPath /\ bound
    BY DEF OnnxInv, Constructions, BoundSteps, OnBoundPath
  <2>2. i \in 1..Allocated
    BY <2>1, PathFacts
  <2> QED
    BY <2>1, <2>2 DEF OnnxInv, Constructions
<1> QED
  BY <1>1, OnnxInvariant, PTL
-----------------------------------------------------------------------------
(* The programs. *)

\* A bucket for a batch of the server is its one bucket.
LEMMA ServerBucket ==
    ASSUME options.buckets = ServerBuckets, NEW n \in Nat, n <= MaxBatchSize
    PROVE  bucket_for(n) = MaxBatchSize
<1> DEFINE fit == {i \in 1..Len(options.buckets) : n <= options.buckets[i]}
<1>1. Len(options.buckets) = 1 /\ options.buckets[1] = MaxBatchSize
  BY DEF ServerBuckets
<1>2. fit = {1}
  BY <1>1
<1>3. (CHOOSE i \in fit : \A j \in fit : i <= j) = 1
  BY <1>2
<1> QED
  BY <1>1, <1>2, <1>3 DEF bucket_for

\* What a step of the engine other than Run can do to what the programs see.
LEMMA EngineFacts ==
    ASSUME EngineStep
    PROVE  /\ options' = options
           /\ \/ /\ pc = "construct" /\ batch' = batch /\ pc' \in {"idle", "failed"}
                 /\ warm' \in {warm, options.buckets, <<>>}
              \/ /\ pc = "idle" /\ warm # <<>> /\ warm' = Tail(warm)
                 /\ batch' \in {batch, Head(warm)}
              \/ /\ warm' = warm /\ batch' = batch /\ pc # "construct" /\ pc' # "construct"
                 /\ \/ pc' = pc /\ returned' = returned
                    \/ pc # "idle" /\ pc' \in {"h2d", "launch", "pre_run", "run"}
                    \/ pc \in {"d2h", "post_run", "return"}
                    \/ pc # "idle" /\ pc' = "idle" /\ returned' = Error
              \/ /\ pc = "construct" /\ pc' = pc /\ warm' = warm /\ batch' = batch
<1>1. CASE Constructed \/ FallsBack \/ ConstructorThrows
  BY <1>1, Zenon DEF Constructed, FallsBack, ConstructorThrows
<1>2. CASE WarmBucket \/ SkipBucket
  BY <1>2, ZenonT(30) DEF WarmBucket, SkipBucket, Enter
<1>3. CASE Memcpy \/ Wait("pre_run", "run")
  BY <1>3, Zenon DEF Memcpy, Wait
<1>4. CASE CopyIn \/ Launch \/ CopyOut
  BY <1>4, Zenon DEF CopyIn, Launch, CopyOut, Enqueue
<1>5. CASE Wait("post_run", "return") \/ Return
  BY <1>5, Zenon DEF Wait, Return
<1>6. CASE Throws
  BY <1>6, OnnxAssumption, ZenonT(30) DEF Throws
<1>7. CASE Execute
  BY <1>7 DEF Execute
<1> QED
  BY <1>1, <1>2, <1>3, <1>4, <1>5, <1>6, <1>7, Zenon DEF EngineStep

\* What a new call does to it.
LEMMA CallFacts ==
    ASSUME NEW n, RunInference(n)
    PROVE  /\ options' = options /\ warm = <<>> /\ warm' = <<>> /\ batch' = n /\ pc = "idle"
           /\ pc' \in {"memcpy", "run"}
BY DEF RunInference, Enter

\* Size is a set of batches the engine can be given.
LEMMA SizeFacts ==
    ASSUME ClientsTypeOK, BenchInv, client = "bench", phase # "done"
    PROVE  Size \subseteq 1..MaxBatch
<1>1. CASE phase = "rows"
  <2>1. row \in 1..Len(RowSizes) /\ RowSizes \in Seq(1..MaxBatch)
    BY <1>1, ClientsAssumption DEF BenchInv
  <2>2. RowSizes[row] \in 1..MaxBatch
    BY <2>1, ElementFacts, Zenon
  <2> QED
    BY <1>1, <2>2 DEF Size
<1>2. CASE phase = "churn_warmup"
  BY <1>2, ClientsAssumption, OnnxAssumption DEF BenchInv, Size
<1>3. CASE phase = "churn"
  BY <1>3, ClientsAssumption, OnnxAssumption DEF Size
<1> QED
  BY <1>1, <1>2, <1>3 DEF ClientsTypeOK

\* Each step of a program is a step of the engine or leaves it alone.
LEMMA ProgramStep ==
    ASSUME ClientsInv, [ClientsNext]_clientVars
    PROVE  [Next]_vars
<1>1. CASE Run
  BY <1>1 DEF Run, Next
<1>2. CASE EngineStep
  BY <1>2 DEF EngineStep, Next
<1>3. CASE Call
  BY <1>3 DEF Call, Next
<1>4. CASE BenchCalls
  <2>1. PICK n \in Size : RunInference(n)
    BY <1>4 DEF BenchCalls
  <2>2. n \in 1..MaxBatch
    BY <1>4, <2>1, SizeFacts DEF BenchCalls, Ready, ClientsInv
  <2> QED
    BY <2>1, <2>2 DEF Next
<1>5. CASE BenchReturns \/ PrintRow \/ NextWarmup \/ PrintChurn \/ UNCHANGED clientVars
  BY <1>5, Zenon DEF BenchReturns, PrintRow, NextWarmup, PrintChurn, clientVars
<1> QED
  BY <1>1, <1>2, <1>3, <1>4, <1>5 DEF ClientsNext

\* The server's session keeps its one shape.
LEMMA ServerKeeps ==
    ASSUME OnnxTypeOK, ClientsTypeOK, ServerInv, ClientsNext
    PROVE  ServerInv'
<1> SUFFICES ASSUME client' = "server"
             PROVE  /\ options' \in {options} /\ options.buckets = ServerBuckets
                    /\ batch' <= MaxBatchSize
                    /\ warm' # <<>> => warm' = ServerBuckets
                    /\ plan' \in {0, MaxBatchSize}
  BY DEF ServerInv, ServerBuckets
<1>1. client = "server" /\ client' = client
  BY DEF ClientsNext, Run, EngineStep, Call, BenchCalls, BenchReturns, PrintRow, NextWarmup,
         PrintChurn, Ready
<1>2. /\ options.buckets = ServerBuckets /\ batch <= MaxBatchSize
      /\ warm # <<>> => warm = ServerBuckets
      /\ plan \in {0, MaxBatchSize} /\ batch \in Nat /\ MaxBatchSize \in Nat
  BY <1>1, OnnxAssumption, ClientsAssumption DEF ServerInv, OnnxTypeOK
<1>3. Head(ServerBuckets) = MaxBatchSize /\ Tail(ServerBuckets) = <<>>
  BY DEF ServerBuckets
<1>4. CASE Run
  <2>1. options' = options /\ batch' = batch /\ warm' = warm /\ plan' = padded
    BY <1>4 DEF Run, RunBound, RunHost
  <2> QED
    BY <1>2, <2>1, ServerBucket DEF padded
<1>5. CASE EngineStep
  <2>1. plan' = plan
    BY <1>5 DEF EngineStep
  <2>2. warm # <<>> => Head(warm) = MaxBatchSize /\ Tail(warm) = <<>>
    BY <1>2, <1>3, Zenon
  <2>3. /\ options' = options /\ batch' \in {batch, MaxBatchSize}
        /\ warm' \in {warm, options.buckets, <<>>}
    BY <1>5, <2>2, EngineFacts, Zenon
  <2>4. batch' <= MaxBatchSize
    BY <1>2, <2>3
  <2> QED
    BY <1>2, <2>1, <2>3, <2>4
<1>6. CASE Call
  <2>1. plan' = plan
    BY <1>6 DEF Call
  <2>2. CASE EmptyBatch
    BY <1>2, <2>1, <2>2 DEF EmptyBatch
  <2>3. CASE \E n \in 1..MaxBatch : RunInference(n) /\ n <= MaxBatchSize
    BY <1>2, <2>1, <2>3, CallFacts
  <2> QED
    BY <1>1, <1>6, <2>2, <2>3 DEF Call
<1>7. CASE BenchCalls \/ BenchReturns \/ PrintRow \/ NextWarmup \/ PrintChurn
  BY <1>1, <1>7 DEF BenchCalls, BenchReturns, PrintRow, NextWarmup, PrintChurn, Ready
<1> QED
  BY <1>4, <1>5, <1>6, <1>7 DEF ClientsNext

\* The plan for a row is the same as long as the row is.
LEMMA SamePlan ==
    ASSUME options' = options, plan' = plan, row' = row
    PROVE  RowPlanned' <=> RowPlanned
BY DEF RowPlanned, bucket_for

\* Run plans for the batch of the call.
LEMMA RunKeepsBench ==
    ASSUME BenchInv, Run
    PROVE  BenchInv'
<1> SUFFICES ASSUME client' = "bench" PROVE BenchInv'
  BY DEF BenchInv
<1>1. /\ client' = client /\ phase' = phase /\ row' = row /\ iter' = iter
      /\ calling' = calling /\ plan' = padded
  BY DEF Run, benchVars
<1>2. pc = "run" /\ options' = options /\ batch' = batch /\ warm' = warm
      /\ pc' \in {"d2h", "idle"}
  BY Zenon DEF Run, RunBound, RunHost
<1>3. ASSUME phase = "rows", calling PROVE RowPlanned'
  <2>1. batch = RowSizes[row]
    BY <1>1, <1>3 DEF BenchInv
  <2>2. options' = options /\ row' = row
    BY <1>1, <1>2, Zenon
  <2>3. bucket_for(RowSizes[row])' = bucket_for(RowSizes[row])
    BY <2>2, SMTT(20) DEF bucket_for
  <2> QED
    BY <1>1, <2>1, <2>3 DEF RowPlanned, padded
\* Between two calls the engine is idle.
<1>4. iter > 0 => calling
  BY <1>1, <1>2 DEF BenchInv
<1> QED
  BY <1>1, <1>2, <1>3, <1>4, SMTT(30) DEF BenchInv

\* The other steps of the engine.
LEMMA EngineKeepsBench ==
    ASSUME BenchInv, EngineStep
    PROVE  BenchInv'
<1> SUFFICES ASSUME client' = "bench" PROVE BenchInv'
  BY DEF BenchInv
<1>1. /\ client' = client /\ phase' = phase /\ row' = row /\ iter' = iter
      /\ calling' = calling /\ plan' = plan
  BY DEF EngineStep, benchVars
<1>2. options' = options /\ (RowPlanned' <=> RowPlanned)
  BY <1>1, EngineFacts, SamePlan, SMTT(30)
<1>3. CASE ~calling /\ ~(iter > 0)
  BY <1>1, <1>2, <1>3, SMTT(30) DEF BenchInv
<1>4. CASE calling \/ iter > 0
  <2>1. /\ warm = <<>> /\ pc # "construct" /\ warm' = warm /\ batch' = batch
        /\ pc' # "construct"
        /\ \/ pc' = pc /\ returned' = returned
           \/ pc # "idle" /\ pc' \in {"h2d", "launch", "pre_run", "run"}
           \/ pc \in {"d2h", "post_run", "return"}
           \/ pc # "idle" /\ pc' = "idle" /\ returned' = Error
    BY <1>1, <1>4, EngineFacts DEF BenchInv
  <2>2. Error' = Error
    BY DEF Error, Row
  <2> QED
    BY <1>1, <1>2, <1>4, <2>1, <2>2, SMTT(30) DEF BenchInv
<1> QED
  BY <1>3, <1>4

\* main's own steps.
LEMMA MainKeepsBench ==
    ASSUME ClientsTypeOK, BenchInv,
           BenchCalls \/ BenchReturns \/ PrintRow \/ NextWarmup \/ PrintChurn
    PROVE  BenchInv'
<1>1. client = "bench" /\ client' = client /\ plan' = plan /\ pc = "idle"
  BY DEF BenchCalls, BenchReturns, PrintRow, NextWarmup, PrintChurn, Ready
<1>2. iter \in Nat /\ Len(RowSizes) \in Nat \ {0} /\ ChurnMax \in Nat \ {0}
  BY ClientsAssumption, OnnxAssumption, SMTT(30) DEF ClientsTypeOK
<1>3. CASE BenchCalls
  <2>1. PICK n \in Size : RunInference(n)
    BY <1>3 DEF BenchCalls
  <2>2. /\ options' = options /\ warm' = <<>> /\ batch' = n /\ pc' \in {"memcpy", "run"}
        /\ phase' = phase /\ row' = row /\ iter' = iter /\ calling' = TRUE
    BY <1>3, <2>1, CallFacts DEF BenchCalls
  <2>3. phase = "rows" => n = RowSizes[row]
    BY <2>1 DEF Size
  <2>4. RowPlanned' <=> RowPlanned
    BY <1>1, <2>2, SamePlan, SMTT(30)
  <2> QED
    BY <1>1, <2>2, <2>3, <2>4 DEF BenchInv
<1>4. CASE BenchReturns
  <2>1. /\ options' = options /\ warm' = warm /\ batch' = batch /\ pc' = pc
        /\ row' = row /\ calling /\ calling' = FALSE
        /\ \/ phase' = "done" /\ iter' = iter
           \/ returned # Error /\ phase' = phase /\ iter' = iter + 1
    BY <1>4 DEF BenchReturns, vars
  <2>2. RowPlanned' <=> RowPlanned
    BY <1>1, <2>1, SamePlan, SMTT(30)
  <2> QED
    BY <1>1, <1>2, <2>1, <2>2, SMTT(30) DEF BenchInv
<1>5. CASE PrintRow \/ NextWarmup
  <2>1. /\ ~calling /\ calling' = calling /\ iter' = 0 /\ pc' = pc
        /\ phase' = "rows" => phase = "rows" /\ row < Len(RowSizes) /\ row' = row + 1
        /\ phase' = "churn_warmup" => \/ row' = 1
                                      \/ /\ phase = "churn_warmup" /\ row < ChurnMax
                                         /\ row' = row + 1
    BY <1>5, Zenon DEF PrintRow, NextWarmup, Ready, vars
  <2> QED
    BY <1>1, <1>2, <2>1 DEF BenchInv
<1>6. CASE PrintChurn
  <2>1. ~calling /\ calling' = calling /\ iter' = iter /\ pc' = pc /\ warm' = warm
        /\ phase' = "done"
    BY <1>6 DEF PrintChurn, Ready, vars
  <2> QED
    BY <1>1, <2>1, SMTT(30) DEF BenchInv
<1> QED
  BY <1>3, <1>4, <1>5, <1>6

\* The samples are those of the row: main clears them when it prints it.
LEMMA SamplesKeep ==
    ASSUME ClientsTypeOK, BenchInv, SamplesInv, ClientsNext
    PROVE  SamplesInv'
<1> SUFFICES ASSUME client = "bench", client' = "bench" PROVE SamplesInv'
  BY DEF SamplesInv, ClientsNext, Run, EngineStep, Call, BenchCalls, BenchReturns, PrintRow,
         NextWarmup, PrintChurn
<1>1. /\ iter \in Nat /\ kWarmupIters \in Nat \ {0} /\ kTimedIters \in Nat \ {0}
      /\ samples \in Seq([batch : 0..MaxBatch, ms : Times]) /\ Len(samples) \in Nat
  BY ClientsAssumption, SMTT(30) DEF ClientsTypeOK
<1>2. CASE Run \/ EngineStep \/ Call
  <2>1. /\ phase' = phase /\ row' = row /\ iter' = iter /\ calling' = calling
        /\ samples' = samples /\ report' = report
    BY <1>2 DEF Run, EngineStep, Call, benchVars
  <2> QED
    BY <2>1 DEF SamplesInv, RowSamples
<1>3. CASE BenchCalls
  <2>1. /\ phase' = phase /\ row' = row /\ iter' = iter /\ samples' = samples
        /\ report' = report
        /\ phase = "rows" => iter < kWarmupIters + kTimedIters
    BY <1>3 DEF BenchCalls
  <2> QED
    BY <2>1, Zenon DEF SamplesInv, RowSamples
<1>4. CASE BenchReturns
  <2>1. calling /\ calling' = FALSE /\ row' = row /\ report' = report
    BY <1>4, SMTT(30) DEF BenchReturns
  <2>2. RowSamples'
    BY <2>1 DEF SamplesInv, RowSamples
  <2>3. CASE phase' # "rows"
    BY <2>2, <2>3, SMTT(30) DEF SamplesInv
  <2>4. CASE phase' = "rows"
    <3>1. phase = "rows" /\ iter' = iter + 1
      BY <1>4, <2>4 DEF BenchReturns
    <3>2. PICK t \in Times :
            samples' = IF Timed THEN Append(samples, [batch |-> batch, ms |-> t]) ELSE samples
      BY <1>4, <2>4, <3>1, ZenonT(30) DEF BenchReturns
    <3>3. /\ iter < kWarmupIters + kTimedIters /\ batch = RowSizes[row]
          /\ Len(samples) = IF iter > kWarmupIters THEN iter - kWarmupIters ELSE 0
          /\ \A i \in 1..Len(samples) : samples[i].batch = RowSizes[row]
      BY <2>1, <3>1 DEF SamplesInv, BenchInv
    <3>4. Timed <=> iter >= kWarmupIters
      BY <3>1 DEF Timed
    <3>5. PICK s : s = [batch |-> batch, ms |-> t] /\ s.batch = batch
      <4>1. [batch |-> batch, ms |-> t].batch = batch
        OBVIOUS
      <4> QED
        BY <4>1, Zenon
    <3>6. PICK longer : longer = Append(samples, s)
      BY Zenon
    <3>7. /\ Len(longer) = Len(samples) + 1 /\ longer[Len(samples) + 1] = s
          /\ \A i \in 1..Len(samples) : longer[i] = samples[i]
      BY <1>1, <3>6, SMTT(30)
    <3>8. /\ Len(samples') = IF iter' > kWarmupIters THEN iter' - kWarmupIters ELSE 0
          /\ \A i \in 1..Len(samples') : samples'[i].batch = RowSizes[row]
      <4>1. CASE Timed
        <5>1. samples' = longer
          BY <3>2, <3>5, <3>6, <4>1
        <5>2. \A i \in 1..Len(longer) : i \in 1..Len(samples) \/ i = Len(samples) + 1
          BY <1>1, <3>7
        <5>3. \A i \in 1..Len(longer) : longer[i].batch = RowSizes[row]
          <6>1. s.batch = RowSizes[row]
            BY <3>3, <3>5
          <6> QED
            BY <3>3, <3>7, <5>2, <6>1, ZenonT(30)
        <5>4. iter >= kWarmupIters /\ Len(samples) = iter - kWarmupIters
          BY <1>1, <3>3, <3>4, <4>1, SMTT(30)
        <5>5. Len(longer) = iter' - kWarmupIters /\ iter' > kWarmupIters
          BY <1>1, <3>1, <3>7, <5>4, SMTT(30)
        <5> QED
          BY <5>1, <5>3, <5>5
      <4>2. CASE ~Timed
        BY <1>1, <3>1, <3>2, <3>3, <3>4, <4>2, SMTT(30)
      <4> QED
        BY <4>1, <4>2, SMTT(30)
    <3> QED
      BY <1>1, <2>1, <2>2, <3>1, <3>3, <3>8, SMTT(30) DEF SamplesInv
  <2> QED
    BY <2>3, <2>4, SMTT(30)
<1>5. CASE PrintRow
  <2>1. /\ phase = "rows" /\ iter = kWarmupIters + kTimedIters /\ samples' = <<>> /\ iter' = 0
        /\ ~calling /\ calling' = calling
        /\ report'.batch = RowSizes[row] /\ report'.samples = samples
    BY <1>5, SMTT(30) DEF PrintRow, Ready
  <2>2. /\ Len(samples) = kTimedIters
        /\ \A i \in 1..Len(samples) : samples[i].batch = RowSizes[row]
    BY <1>1, <2>1 DEF SamplesInv
  <2>3. RowSamples'
    BY <2>1, <2>2, SMTT(30) DEF RowSamples
  <2> QED
    BY <1>1, <2>1, <2>3, SMTT(30) DEF SamplesInv
<1>6. CASE NextWarmup
  <2>1. phase' # "rows" /\ report' = report
    BY <1>6, SMTT(30) DEF NextWarmup
  <2> QED
    BY <2>1 DEF SamplesInv, RowSamples
<1>7. CASE PrintChurn
  <2>1. phase' # "rows" /\ report'.batch = 0
    BY <1>7 DEF PrintChurn
  <2> QED
    BY <2>1 DEF SamplesInv, RowSamples
<1> QED
  BY <1>2, <1>3, <1>4, <1>5, <1>6, <1>7 DEF ClientsNext

\* The types of the programs' state.
LEMMA ClientsTypeKeeps ==
    ASSUME OnnxTypeOK, ClientsTypeOK, ClientsNext
    PROVE  ClientsTypeOK'
<1>1. CASE Run \/ EngineStep \/ Call
  BY <1>1 DEF Run, EngineStep, Call, benchVars, ClientsTypeOK
<1>2. CASE BenchCalls
  BY <1>2 DEF BenchCalls, ClientsTypeOK
<1>3. CASE BenchReturns
  <2>1. samples' = samples \/ \E t \in Times :
                                samples' = Append(samples, [batch |-> batch, ms |-> t])
    BY <1>3 DEF BenchReturns
  <2>2. \A t \in Times : [batch |-> batch, ms |-> t] \in [batch : 0..MaxBatch, ms : Times]
    BY DEF OnnxTypeOK
  <2>3. samples \in Seq([batch : 0..MaxBatch, ms : Times])
    BY DEF ClientsTypeOK
  <2>4. samples' \in Seq([batch : 0..MaxBatch, ms : Times])
    BY <2>1, <2>2, <2>3, AppendFacts, ZenonT(30)
  <2>5. /\ client' = client /\ calling' = FALSE /\ phase' \in {phase, "done"}
        /\ iter' \in {iter, iter + 1}
    BY <1>3 DEF BenchReturns
  <2>6. iter' \in Nat /\ phase' \in {"rows", "churn_warmup", "churn", "done"}
    BY <2>5 DEF ClientsTypeOK
  <2>7. client' \in {"server", "bench", "any"} /\ calling' \in BOOLEAN
    BY <2>5, Zenon DEF ClientsTypeOK
  <2> QED
    BY <2>4, <2>6, <2>7, ZenonT(30) DEF ClientsTypeOK
<1>4. CASE PrintRow \/ NextWarmup \/ PrintChurn
  <2>1. /\ client' = client /\ calling' = calling /\ iter' \in {0, iter}
        /\ phase' \in {phase, "churn_warmup", "churn", "done"} /\ samples' \in {samples, <<>>}
    BY <1>4, Zenon DEF PrintRow, NextWarmup, PrintChurn
  <2>2. <<>> \in Seq([batch : 0..MaxBatch, ms : Times])
    OBVIOUS
  <2>3. iter' \in Nat /\ phase' \in {"rows", "churn_warmup", "churn", "done"}
    BY <2>1 DEF ClientsTypeOK
  <2>4. client' \in {"server", "bench", "any"} /\ calling' \in BOOLEAN
    BY <2>1, Zenon DEF ClientsTypeOK
  <2>5. samples' \in Seq([batch : 0..MaxBatch, ms : Times])
    BY <2>1, <2>2, Zenon DEF ClientsTypeOK
  <2> QED
    BY <2>3, <2>4, <2>5, Zenon DEF ClientsTypeOK
<1> QED
  BY <1>1, <1>2, <1>3, <1>4, SMTT(30) DEF ClientsNext

\* The programs' invariant, with the engine's.
LEMMA ClientsNextInv ==
    ASSUME OnnxInv, ClientsInv, [ClientsNext]_clientVars
    PROVE  OnnxInv' /\ ClientsInv'
<1>1. OnnxInv'
  BY ProgramStep, OnnxNextInv
<1>2. /\ OnnxTypeOK /\ ClientsTypeOK /\ ServerInv /\ BenchInv /\ SamplesInv
  BY DEF OnnxInv, ClientsInv
<1>3. CASE ClientsNext
  <2>1. BenchInv'
    <3>1. CASE Call
      BY <3>1 DEF Call, BenchInv
    <3> QED
      BY <1>2, <1>3, <3>1, RunKeepsBench, EngineKeepsBench, MainKeepsBench, SMTT(30) DEF ClientsNext
  <2> QED
    BY <1>1, <1>2, <1>3, <2>1, ClientsTypeKeeps, ServerKeeps, SamplesKeep DEF ClientsInv
<1>4. CASE UNCHANGED clientVars
  <2>1. /\ client' = client /\ plan' = plan /\ phase' = phase /\ row' = row /\ iter' = iter
        /\ calling' = calling /\ samples' = samples /\ report' = report
        /\ options' = options /\ pc' = pc /\ warm' = warm /\ batch' = batch
        /\ returned' = returned
    BY <1>4 DEF clientVars, benchVars, vars
  <2>2. (RowPlanned' <=> RowPlanned) /\ Error' = Error
    BY <2>1, SamePlan DEF Error, Row
  <2>3. ClientsTypeOK' /\ ServerInv'
    BY <1>2, <2>1, SMTT(30) DEF ClientsTypeOK, ServerInv
  <2>4. BenchInv'
    BY <1>2, <2>1, <2>2 DEF BenchInv
  <2>5. SamplesInv'
    BY <1>2, <2>1, Zenon DEF SamplesInv, RowSamples
  <2> QED
    BY <1>1, <2>3, <2>4, <2>5, SMTT(30) DEF ClientsInv
<1> QED
  BY <1>1, <1>3, <1>4

\* The programs start with an engine that is not constructed.
LEMMA ClientsInitInv == ClientsInit => OnnxInv /\ ClientsInv
<1> SUFFICES ASSUME ClientsInit PROVE OnnxInv /\ ClientsInv
  OBVIOUS
<1>1. OnnxInv
  BY OnnxInitInv DEF ClientsInit
<1>2. ClientsTypeOK
  <2>1. <<>> \in Seq([batch : 0..MaxBatch, ms : Times]) /\ 0 \in Nat
    OBVIOUS
  <2>2. /\ client \in {"server", "bench", "any"} /\ phase = "rows" /\ iter = 0
        /\ calling = FALSE /\ samples = <<>>
    BY DEF ClientsInit
  <2> QED
    BY <2>1, <2>2, Zenon DEF ClientsTypeOK
<1>3. SamplesInv
  <2>1. /\ samples = <<>> /\ iter = 0 /\ calling = FALSE /\ report.batch = 0
        /\ kWarmupIters \in Nat /\ kTimedIters \in Nat
    BY ClientsAssumption DEF ClientsInit, NoReport
  <2>2. Len(samples) = 0
    BY <2>1, SMTT(30)
  <2> QED
    BY <2>1, <2>2, SMTT(30) DEF SamplesInv, RowSamples
<1>4. ServerInv
  BY ClientsAssumption, OnnxAssumption DEF ClientsInit, Init, ServerInv
<1>5. BenchInv
  <2>1. 1 \in 1..Len(RowSizes)
    BY ClientsAssumption, EndFacts
  <2> QED
    BY <2>1, SMTT(30) DEF ClientsInit, BenchInv
<1> QED
  BY <1>1, <1>2, <1>3, <1>4, <1>5 DEF ClientsInv

\* The programs' invariant holds in every state.
THEOREM ClientsInvariant == ClientsSpec => [](OnnxInv /\ ClientsInv)
<1>1. ClientsInit => OnnxInv /\ ClientsInv
  BY ClientsInitInv
<1>2. OnnxInv /\ ClientsInv /\ [ClientsNext]_clientVars => (OnnxInv /\ ClientsInv)'
  BY ClientsNextInv
<1> QED
  BY <1>1, <1>2, PTL DEF ClientsSpec

\* The server and bench_engine only do to the engine what its interface
\* allows, so what is proved of the engine holds in both programs.
THEOREM ProgramsRunTheEngine == ClientsSpec => Spec
<1>1. ClientsInit => Init
  BY DEF ClientsInit
<1>2. ClientsInv /\ [ClientsNext]_clientVars => [Next]_vars
  BY ProgramStep
<1> QED
  BY <1>1, <1>2, ClientsInvariant, PTL DEF ClientsSpec, Spec

\* make_engine's one bucket makes ONNX Runtime plan for one shape, whatever
\* batches the scheduler forms and whatever fails.
THEOREM ServerNeverReplans == ClientsSpec => []NeverReplans
<1>1. ClientsInv => NeverReplans
  BY DEF ClientsInv, ServerInv, NeverReplans
<1> QED
  BY <1>1, ClientsInvariant, PTL

\* bench_engine's timed calls find the plan of their own shape, for every list
\* of sizes and of buckets and any number of warm-up calls but none.
THEOREM RowsAlwaysTimedWarm == ClientsSpec => []RowsTimedWarm
<1>1. ClientsInv => RowsTimedWarm
  <2> SUFFICES ASSUME ClientsInv, client = "bench", calling, phase = "rows", Timed
               PROVE  plan = padded
    BY DEF RowsTimedWarm
  <2>1. iter > 0
    BY ClientsAssumption DEF ClientsInv, ClientsTypeOK, Timed
  <2> QED
    BY <2>1 DEF ClientsInv, BenchInv, RowPlanned, padded
<1> QED
  BY <1>1, ClientsInvariant, PTL

\* A row bench_engine prints has as many samples as timed calls, all of its own
\* batch; that its figure is their median is left to TLC, which sorts them.
THEOREM RowsOfTheirOwnSamples == ClientsSpec => [](client = "bench" => RowSamples)
<1>1. ClientsInv => (client = "bench" => RowSamples)
  BY DEF ClientsInv, SamplesInv
<1> QED
  BY <1>1, ClientsInvariant, PTL
=============================================================================
