----------------------------- MODULE OnnxEngine -----------------------------
(***************************************************************************)
(* OnnxExecutionEngine: construction with its fallback, warm-up, and       *)
(* run_inference on the bound path (persistent pinned and device buffers,  *)
(* one copy stream) or the host path.  One thread calls it, the            *)
(* scheduler's worker; the device executes the copy stream on its own.     *)
(*                                                                         *)
(* A row of data is the call and position it came from and how often it    *)
(* was normalised.  The model (external) computes each output row from the *)
(* input row at its position, and an output row is named by that row.      *)
(***************************************************************************)
EXTENDS Integers, Sequences

CONSTANTS
    BucketLists,  \* the values of Options::batch_buckets to consider
    MaxBatch,     \* bound: the largest batch
    MaxCalls,     \* bound: the batches after the warm-up
    Faults        \* the steps of the bound path whose CUDA or ORT call may fail

ASSUME OnnxAssumption ==
    /\ \A b \in BucketLists : b \in Seq(0..MaxBatch)
    /\ MaxBatch \in Nat \ {0} /\ MaxCalls \in Nat
    /\ Faults \subseteq {"h2d", "launch", "pre_run", "run", "d2h", "post_run"}

VARIABLES
    options,        \* batch_buckets, use_io_binding, normalize_on_device
    pc,             \* where the constructor or the caller is
    bound,          \* io_binding_active_
    warm,           \* the buckets warm_buckets has still to run
    call, batch,    \* the call in progress, 0 in the warm-up, and its rows
    host_input, device_input, device_output, host_output,
    queued,         \* the operations on the copy stream
    returned        \* what the last call returned

buffers == <<host_input, device_input, device_output, host_output>>
vars == <<options, pc, bound, warm, call, batch, buffers, queued, returned>>

Row(n, i, times) == [call |-> n, row |-> i, normalized |-> times]
Zero == Row(0, 0, 0)
Junk == Row(-1, 0, 0)  \* memory nothing was written to
Error == <<Row(-2, 0, 0)>>  \* an exception

Rows == 1..MaxBatch
Untouched == [i \in Rows |-> Junk]

Init ==
    /\ options \in [buckets : BucketLists, io_binding : BOOLEAN, normalize : BOOLEAN,
                    warm : BOOLEAN]
    /\ pc = "construct" /\ bound = FALSE /\ warm = <<>>
    /\ call = 0 /\ batch = 0
    /\ host_input = Untouched /\ device_input = Untouched
    /\ device_output = Untouched /\ host_output = Untouched
    /\ queued = <<>> /\ returned = <<>>

Ascending(b) == \A i \in 1..(Len(b) - 1) : b[i] <= b[i + 1]

\* The rows the persistent buffers hold.
Allocated == IF options.buckets = <<>> THEN 1 ELSE options.buckets[Len(options.buckets)]

\* The constructor's checks, in particular that normalising on the device
\* needs the bound path.
Acceptable == Ascending(options.buckets) /\ (options.normalize => options.io_binding)

\* Mutant: the pinned input is not zeroed.
ConstructedWithoutMemset ==
    /\ Acceptable
    /\ pc = "construct"
    /\ bound' = options.io_binding
    /\ warm' = IF options.warm THEN options.buckets ELSE <<>>
    /\ pc' = "idle"
    /\ UNCHANGED <<options, call, batch, buffers, queued, returned>>

\* Construction succeeds: the buffers are allocated, the pinned input zeroed.
Constructed ==
    /\ Acceptable
    /\ pc = "construct"
    /\ bound' = options.io_binding
    /\ host_input' = [i \in Rows |->
                        IF options.io_binding /\ i <= Allocated THEN Zero ELSE Junk]
    /\ warm' = IF options.warm THEN options.buckets ELSE <<>>
    /\ pc' = "idle"
    /\ UNCHANGED <<options, call, batch, device_input, device_output, host_output, queued,
                   returned>>

\* The buffers cannot be allocated: the engine falls back to the host path.
FallsBack ==
    /\ Acceptable
    /\ pc = "construct"
    /\ options.io_binding /\ ~options.normalize
    /\ warm' = IF options.warm THEN options.buckets ELSE <<>>
    /\ pc' = "idle"
    /\ UNCHANGED <<options, bound, call, batch, buffers, queued, returned>>

\* The constructor throws: the session cannot be created, the options are not
\* acceptable, or an allocation failed and the host path would skip the
\* normalisation.
ConstructorThrows ==
    /\ pc = "construct"
    /\ pc' = "failed"
    /\ UNCHANGED <<options, bound, warm, call, batch, buffers, queued, returned>>

\* The first bucket that holds the batch, the batch itself when none does.
bucket_for(n) ==
    LET fit == {i \in 1..Len(options.buckets) : n <= options.buckets[i]}
    IN  IF fit = {} THEN n ELSE options.buckets[CHOOSE i \in fit : \A j \in fit : i <= j]

padded == bucket_for(batch)

\* Mutant: an oversize batch is not told apart.
FitsAlways(n) == options.buckets # <<>>

FitsPreallocated(n) == options.buckets # <<>> /\ bucket_for(n) <= Allocated

\* The rows of the call in progress: zeros in the warm-up.
Input == [i \in 1..batch |-> IF call = 0 THEN Zero ELSE Row(call, i, 0)]

Enter(n) ==
    /\ batch' = n
    /\ pc' = IF bound /\ FitsPreallocated(n) THEN "memcpy" ELSE "run"
    /\ UNCHANGED <<options, bound, buffers, queued, returned>>

\* warm_buckets runs the next bucket that is not zero.
WarmBucket ==
    /\ pc = "idle" /\ warm # <<>> /\ Head(warm) # 0
    /\ warm' = Tail(warm)
    /\ Enter(Head(warm))
    /\ UNCHANGED call

SkipBucket ==
    /\ pc = "idle" /\ warm # <<>> /\ Head(warm) = 0
    /\ warm' = Tail(warm)
    /\ UNCHANGED <<options, pc, bound, call, batch, buffers, queued, returned>>

\* run_inference is entered with a well-formed batch; a malformed one throws
\* before anything is touched.
RunInference(n) ==
    /\ pc = "idle" /\ warm = <<>> /\ call < MaxCalls
    /\ n > 0
    /\ call' = call + 1
    /\ Enter(n)
    /\ UNCHANGED warm

EmptyBatch ==
    /\ pc = "idle" /\ warm = <<>> /\ call < MaxCalls
    /\ call' = call + 1 /\ batch' = 0
    /\ returned' = <<>>
    /\ UNCHANGED <<options, pc, bound, warm, buffers, queued>>

OnBoundPath == bound /\ FitsPreallocated(batch)

\* The real rows are staged; the rows after them are left as they are.
Memcpy ==
    /\ pc = "memcpy"
    /\ host_input' = [i \in Rows |-> IF i <= batch THEN Input[i] ELSE host_input[i]]
    /\ pc' = "h2d"
    /\ UNCHANGED <<options, bound, warm, call, batch, device_input, device_output,
                   host_output, queued, returned>>

Enqueue(step, op, after) ==
    /\ pc = step
    /\ queued' = Append(queued, [op |-> op, rows |-> padded])
    /\ pc' = after
    /\ UNCHANGED <<options, bound, warm, call, batch, buffers, returned>>

\* The padded extent is copied in, normalised when asked for, and copied out.
CopyIn == Enqueue("h2d", "h2d", IF options.normalize THEN "launch" ELSE "pre_run")
Launch == Enqueue("launch", "kernel", "pre_run")
CopyOut == Enqueue("d2h", "d2h", "post_run")

\* Mutant: Run does not wait for the copy stream.
NoWait(step, after) ==
    /\ pc = step
    /\ pc' = after
    /\ UNCHANGED <<options, bound, warm, call, batch, buffers, queued, returned>>

\* cudaStreamSynchronize, before Run and after the readback.
Wait(step, after) ==
    /\ pc = step
    /\ queued = <<>>
    /\ pc' = after
    /\ UNCHANGED <<options, bound, warm, call, batch, buffers, queued, returned>>

\* Session::Run over the bound device tensors, on ORT's own stream.
RunBound ==
    /\ pc = "run" /\ OnBoundPath
    /\ device_output' = [i \in Rows |-> IF i <= padded THEN device_input[i]
                                                       ELSE device_output[i]]
    /\ pc' = "d2h"
    /\ UNCHANGED <<options, bound, warm, call, batch, host_input, device_input, host_output,
                   queued, returned>>

\* run_host: a padded copy of the batch, one Run, the real rows returned.
RunHost ==
    /\ pc = "run" /\ ~OnBoundPath
    /\ LET input == [i \in 1..padded |-> IF i <= batch THEN Input[i] ELSE Zero]
       IN  returned' = SubSeq(input, 1, batch)
    /\ pc' = "idle"
    /\ UNCHANGED <<options, bound, warm, call, batch, buffers, queued>>

Return ==
    /\ pc = "return"
    /\ returned' = SubSeq(host_output, 1, batch)
    /\ pc' = "idle"
    /\ UNCHANGED <<options, bound, warm, call, batch, buffers, queued>>

\* A step fails and run_inference throws: CudaError from the copies, the launch
\* and the two waits, InferenceError from the session.  What is on the stream
\* stays there.  The warm-up swallows the exception.
Throws ==
    /\ pc \in Faults
    /\ returned' = Error
    /\ pc' = "idle"
    /\ UNCHANGED <<options, bound, warm, call, batch, buffers, queued>>

Normalize(r) == [r EXCEPT !.normalized = @ + 1]

\* External: the device executes the next operation of the copy stream, on the
\* rows the buffers hold at that moment.
Execute ==
    /\ queued # <<>>
    /\ LET o == Head(queued)
           Copied(from, to) == [i \in Rows |-> IF i <= o.rows THEN from[i] ELSE to[i]]
       IN  \/ /\ o.op = "h2d"
              /\ device_input' = Copied(host_input, device_input)
              /\ UNCHANGED <<host_input, device_output, host_output>>
           \/ /\ o.op = "kernel"
              /\ device_input' = [i \in Rows |-> IF i <= o.rows THEN Normalize(device_input[i])
                                                                ELSE device_input[i]]
              /\ UNCHANGED <<host_input, device_output, host_output>>
           \/ /\ o.op = "d2h"
              /\ host_output' = Copied(device_output, host_output)
              /\ UNCHANGED <<host_input, device_input, device_output>>
    /\ queued' = Tail(queued)
    /\ UNCHANGED <<options, pc, bound, warm, call, batch, returned>>

Next ==
    \/ Constructed \/ FallsBack \/ ConstructorThrows
    \/ WarmBucket \/ SkipBucket
    \/ EmptyBatch
    \/ \E n \in 1..MaxBatch : RunInference(n)
    \/ Memcpy \/ CopyIn \/ Launch \/ Wait("pre_run", "run") \/ RunBound
    \/ CopyOut \/ Wait("post_run", "return") \/ Return
    \/ RunHost \/ Throws \/ Execute

Spec == Init /\ [][Next]_vars
-----------------------------------------------------------------------------
(* Properties. *)

\* A call returned: the warm-up is over and nothing was thrown.
Answered == pc = "idle" /\ warm = <<>> /\ call > 0 /\ returned # Error

\* A call returns as many rows as its batch has, each computed from its own
\* row, never normalised twice, nor once when that was not asked for, whatever
\* earlier calls failed half-way and left on the stream or in the persistent
\* buffers.
OwnRows ==
    Answered =>
        /\ Len(returned) = batch
        /\ \A i \in 1..batch :
              \E times \in {0, IF options.normalize THEN 1 ELSE 0} :
                  returned[i] = Row(call, i, times)

\* The constructor refuses normalize_on_device without the bound path because
\* the host path "silently skipped normalization -- producing plausible, wrong
\* predictions": with the option set, what is returned is normalised.
NormalizedWhenAsked ==
    Answered /\ options.normalize => \A i \in 1..batch : returned[i].normalized = 1

\* No copy reaches past the buffers, which are sized for the last bucket, nor
\* leaves out a row of the batch.
WithinBuffers == pc = "memcpy" => batch <= padded /\ padded <= Allocated

\* The model never computes on memory nothing was written to: a padding row is
\* zero, as the constructor left it, or a row of an earlier, larger batch.
PaddingInitialised == pc = "h2d" => \A i \in 1..padded : host_input[i] # Junk
=============================================================================
