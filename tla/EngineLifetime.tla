--------------------------- MODULE EngineLifetime ---------------------------
(***************************************************************************)
(* An engine from its constructor to its destructor: who owns each piece   *)
(* of CUDA memory and each stream, with any CUDA call of the constructor   *)
(* failing, and one thread calling the CUDA or the stub engine in between. *)
(* (Concurrent calls are CudaEngine's, OnnxExecutionEngine's calls are     *)
(* OnnxEngine's.)                                                          *)
(*                                                                         *)
(* Members are destroyed in the reverse order of their construction, by a  *)
(* destructor and by an exception that leaves a constructor alike: "built" *)
(* is the stack of them.  An allocation or a stream is a number.           *)
(***************************************************************************)
EXTENDS NormalizeKernel, SequencesExt, FiniteSetsExt

CONSTANTS
    MaxChannels,     \* bound: the length of mean and of stddev
    MaxStreams,      \* bound: Options::stream_count
    MaxBatch,        \* bound: the rows of a batch
    MaxElems,        \* bound: the elements of an input or an output row
    MaxEngines,      \* bound: the engines made one after the other
    MaxCalls,        \* bound: the calls of each
    MaxAllocations,  \* bound: the allocations alive at once
    kMinBucket,      \* the smallest bucket of MemoryPool
    Width            \* the bits of size_t

ASSUME LifetimeAssumption ==
    /\ {MaxChannels, MaxStreams, MaxBatch, MaxElems, MaxEngines, MaxCalls} \subseteq Nat
    /\ MaxAllocations \in Nat /\ kMinBucket \in Nat \ {0} /\ Width \in Nat
    /\ MaxBatch * MaxElems <= 2^(Width - 1)  \* no vector is larger than that

VARIABLES
    options,   \* the engine being made or alive, and its options
    pc,
    built,     \* the members constructed so far
    buffer,    \* the DeviceBuffer and PinnedBuffer objects
    heap,      \* the allocations alive, with the function that made them
    content,   \* what an allocation holds of the constants
    streams,   \* CudaStreamPool::streams_
    stream,    \* Impl::stream, 0 for null
    driver,    \* the streams that exist
    lost,      \* those of them that a constructor left behind
    target,    \* which buffer allocate_device_buffers is at
    cached,    \* the blocks in MemoryPool's free lists
    handle,    \* the PooledBuffers of the call
    call,      \* the call's dimensions
    bucket,    \* bucket_for's local
    returned,  \* what the last call returned
    made, calls

memoryVars == <<buffer, heap, content>>
streamVars == <<streams, stream, driver, lost>>
callVars == <<cached, handle, call, bucket, returned, calls>>
vars == <<options, pc, built, memoryVars, streamVars, target, callVars, made, kernelVars>>

Null == [ptr |-> 0, bytes |-> 0]
NoCall == [n |-> 0, input_elems |-> 0, output_elems |-> 0]
Failure == [k \in {0} |-> Element(-2, 0)]  \* an exception
Impl == <<"host_input", "host_output", "device_input", "device_output", "device_mean",
          "device_stddev">>
PinnedNames == {"host_input", "host_output"}
BufferNames == ToSet(Impl) \union {"mean_", "stddev_", "temporary"}
Pooled == {"staging", "device"}
Kind(h) == IF h = "staging" THEN "pinned" ELSE "device"
Allocations == 1..MaxAllocations

Stub ==
    [engine |-> "stub", mean |-> 1, stddev |-> 1, zero_stddev |-> FALSE, stream_count |-> 0,
     normalize |-> FALSE]

Options ==
    [engine : {"cuda"}, mean : 0..MaxChannels, stddev : 0..MaxChannels, zero_stddev : BOOLEAN,
     stream_count : 0..MaxStreams, normalize : {FALSE}]
    \union
    [engine : {"onnx"}, mean : {1}, stddev : {1}, zero_stddev : {FALSE}, stream_count : {0},
     normalize : BOOLEAN]
    \union {Stub}

Init ==
    /\ options = Stub
    /\ pc = "none" /\ built = <<>> /\ target = 1
    /\ buffer = [b \in BufferNames |-> Null]
    /\ heap = {} /\ content = [a \in Allocations |-> "junk"]
    /\ streams = <<>> /\ stream = 0 /\ driver = {} /\ lost = {}
    /\ cached = {} /\ handle = [h \in Pooled |-> Null]
    /\ call = NoCall /\ bucket = 0 /\ returned = <<>>
    /\ made = 0 /\ calls = 0
    /\ KernelInit

NewAllocation == Min(Allocations \ {a.ptr : a \in heap})
NewStream == Min(1..(Cardinality(driver) + 1) \ driver)

Block(ptr, kind) == [ptr |-> ptr, kind |-> kind]

\* External: cudaMalloc and cudaHostAlloc; memory starts with no constants.
Allocate(b, bytes, kind) ==
    IF bytes = 0
    THEN buffer' = [buffer EXCEPT ![b] = Null] /\ UNCHANGED <<heap, content>>
    ELSE /\ buffer' = [buffer EXCEPT ![b] = [ptr |-> NewAllocation, bytes |-> bytes]]
         /\ heap' = heap \union {Block(NewAllocation, kind)}
         /\ content' = [content EXCEPT ![NewAllocation] = "junk"]

\* The explicit constructors.
DeviceBuffer(b, bytes) == Allocate(b, bytes, "device")
PinnedBuffer(b, bytes) == Allocate(b, bytes, "pinned")

\* Mutant: the buffer assigned from keeps its pointer.
CopyAssignDevice(b, other) ==
    /\ heap' = heap \ {Block(buffer[b].ptr, "device")}
    /\ buffer' = [buffer EXCEPT ![b] = buffer[other]]
    /\ UNCHANGED content

\* Move assignment: what the target holds is freed, the source emptied.
MoveAssignDevice(b, other) ==
    /\ heap' = heap \ {Block(buffer[b].ptr, "device")}
    /\ buffer' = [buffer EXCEPT ![b] = buffer[other], ![other] = Null]
    /\ UNCHANGED content

MoveAssignPinned(b, other) ==
    /\ heap' = heap \ {Block(buffer[b].ptr, "pinned")}
    /\ buffer' = [buffer EXCEPT ![b] = buffer[other], ![other] = Null]
    /\ UNCHANGED content

\* The destructors.
DestroyDevice(b) ==
    /\ heap' = heap \ {Block(buffer[b].ptr, "device")}
    /\ buffer' = [buffer EXCEPT ![b] = Null]
    /\ UNCHANGED content

DestroyPinned(b) ==
    /\ heap' = heap \ {Block(buffer[b].ptr, "pinned")}
    /\ buffer' = [buffer EXCEPT ![b] = Null]
    /\ UNCHANGED content
-----------------------------------------------------------------------------
(* Construction. *)

\* What a constructor step leaves alone.
Elsewhere == UNCHANGED <<options, callVars, made, kernelVars>>

Begin(o) ==
    /\ pc = "none" /\ made < MaxEngines
    /\ options' = o
    /\ made' = made + 1
    /\ calls' = 0
    /\ pc' = CASE o.engine = "cuda" -> "streams_"
               [] o.engine = "onnx" -> "session"
               [] o.engine = "stub" -> "ready"
    /\ built' = CASE o.engine = "cuda" -> <<"pool_">>
                  [] o.engine = "onnx" -> Append(Impl, "stream")
                  [] o.engine = "stub" -> <<>>
    /\ call' = NoCall /\ bucket' = 0 /\ returned' = <<>>
    /\ UNCHANGED <<memoryVars, streamVars, target, cached, handle, kernelVars>>

\* A call fails, or a check does, and the constructor is left.
Throw(step) ==
    /\ pc = step
    /\ pc' = "unwind"
    /\ UNCHANGED <<built, memoryVars, streamVars, target>> /\ Elsewhere

\* CudaStreamPool's constructor makes its streams one by one.
CreateStream ==
    /\ pc = "streams_" /\ Len(streams) < options.stream_count
    /\ driver' = driver \union {NewStream}
    /\ streams' = Append(streams, NewStream)
    /\ IF Len(streams) + 1 = options.stream_count
       THEN pc' = "mean_" /\ built' = Append(built, "streams_")
       ELSE UNCHANGED <<pc, built>>
    /\ UNCHANGED <<memoryVars, stream, lost, target>> /\ Elsewhere

\* It throws, for a count of zero or because a stream cannot be created: the
\* vector of those created so far is destroyed, its destructor is not run.
CreateStreamFails ==
    /\ pc = "streams_"
    /\ streams' = <<>>
    /\ lost' = lost \union ToSet(streams)
    /\ pc' = "unwind"
    /\ UNCHANGED <<built, memoryVars, stream, driver, target>> /\ Elsewhere

\* The two buffers CudaExecutionEngine initialises in place.
ConstructMember(b, bytes, after) ==
    /\ pc = b
    /\ DeviceBuffer(b, bytes)
    /\ built' = Append(built, b)
    /\ pc' = after
    /\ UNCHANGED <<streamVars, target>> /\ Elsewhere

ConstructFails(b, bytes) == bytes > 0 /\ Throw(b)

OptionsValid ==
    options.mean > 0 /\ options.mean = options.stddev /\ ~options.zero_stddev

CheckOptions ==
    /\ pc = "check"
    /\ pc' = IF OptionsValid THEN "upload_mean" ELSE "unwind"
    /\ UNCHANGED <<built, memoryVars, streamVars, target>> /\ Elsewhere

\* cudaMemcpy of the constants.
Upload(step, b, what, after) ==
    /\ pc = step
    /\ content' = [content EXCEPT ![buffer[b].ptr] = what]
    /\ pc' = after
    /\ UNCHANGED <<built, buffer, heap, streamVars, target>> /\ Elsewhere

\* OnnxExecutionEngine: the session is made; without use_io_binding that is all.
CreateSession ==
    /\ pc = "session"
    /\ pc' \in {"copy_stream"} \union (IF options.normalize THEN {} ELSE {"ready"})
    /\ UNCHANGED <<built, memoryVars, streamVars, target>> /\ Elsewhere

CreateCopyStream ==
    /\ pc = "copy_stream"
    /\ stream' = NewStream
    /\ driver' = driver \union {NewStream}
    /\ target' = 1
    /\ pc' = "temporary"
    /\ UNCHANGED <<built, memoryVars, streams, lost>> /\ Elsewhere

\* Each buffer in turn: a temporary is constructed, move-assigned to the
\* member and destroyed.
ConstructTemporary ==
    /\ pc = "temporary"
    /\ IF Impl[target] \in PinnedNames THEN PinnedBuffer("temporary", 1)
                                      ELSE DeviceBuffer("temporary", 1)
    /\ pc' = "assign"
    /\ UNCHANGED <<built, streamVars, target>> /\ Elsewhere

AssignMember ==
    /\ pc = "assign"
    /\ IF Impl[target] \in PinnedNames THEN MoveAssignPinned(Impl[target], "temporary")
                                      ELSE MoveAssignDevice(Impl[target], "temporary")
    /\ pc' = "destroy_temporary"
    /\ UNCHANGED <<built, streamVars, target>> /\ Elsewhere

DestroyTemporary ==
    /\ pc = "destroy_temporary"
    /\ IF Impl[target] \in PinnedNames THEN DestroyPinned("temporary")
                                      ELSE DestroyDevice("temporary")
    /\ target' = target + 1
    /\ pc' = CASE target < 4                       -> "temporary"
               [] target = 4 /\ options.normalize  -> "temporary"
               [] target = 4 /\ ~options.normalize -> "memory_info"
               [] target = 5                       -> "temporary"
               [] target = 6                       -> "upload_device_mean"
    /\ UNCHANGED <<built, streamVars>> /\ Elsewhere

MemoryInfo ==
    /\ pc = "memory_info"
    /\ pc' = "ready"
    /\ UNCHANGED <<built, memoryVars, streamVars, target>> /\ Elsewhere

\* A step of allocate_device_buffers throws: the host path is good enough
\* unless the constants were to be applied on the device.
Catch ==
    /\ pc \in {"copy_stream", "temporary", "upload_device_mean", "upload_device_stddev",
               "memory_info"}
    /\ pc' = IF options.normalize THEN "unwind" ELSE "ready"
    /\ UNCHANGED <<built, memoryVars, streamVars, target>> /\ Elsewhere
-----------------------------------------------------------------------------
(* Destruction. *)

DestroyEngine ==
    /\ pc = "ready"
    /\ pc' = "unwind"
    /\ UNCHANGED <<built, memoryVars, streamVars, target>> /\ Elsewhere

\* ~MemoryPool: a handle still alive ends the process, otherwise trim.
DestroyPool ==
    /\ Last(built) = "pool_"
    /\ pc' = IF \E h \in Pooled : handle[h] # Null THEN "terminated" ELSE "unwind"
    /\ heap' = heap \ {Block(b.ptr, b.kind) : b \in cached}
    /\ cached' = {}
    /\ UNCHANGED <<buffer, content, streamVars>>

\* ~CudaStreamPool, and the body of ~Impl.
DestroyStreams ==
    /\ Last(built) \in {"streams_", "stream"}
    /\ driver' = driver \ (ToSet(streams) \union {stream})
    /\ streams' = <<>> /\ stream' = 0
    /\ UNCHANGED <<pc, memoryVars, lost, cached>>

DestroyBuffer ==
    /\ Last(built) \in BufferNames
    /\ IF Last(built) \in PinnedNames THEN DestroyPinned(Last(built))
                                     ELSE DestroyDevice(Last(built))
    /\ UNCHANGED <<pc, streamVars, cached>>

DestroyMember ==
    /\ pc = "unwind" /\ built # <<>>
    /\ DestroyPool \/ DestroyStreams \/ DestroyBuffer
    /\ built' = Front(built)
    /\ UNCHANGED <<options, target, handle, call, bucket, returned, calls, made, kernelVars>>

Destroyed ==
    /\ pc = "unwind" /\ built = <<>>
    /\ pc' = "none"
    /\ UNCHANGED <<built, memoryVars, streamVars, target>> /\ Elsewhere
-----------------------------------------------------------------------------
(* run_inference of the stub and of the CUDA engine. *)

hw == call.input_elems \div options.mean
Bytes == call.n * call.input_elems

RunStub(n, input_elems, output_elems) ==
    /\ pc = "ready" /\ options.engine = "stub" /\ calls < MaxCalls
    /\ calls' = calls + 1
    /\ call' = [n |-> n, input_elems |-> input_elems, output_elems |-> output_elems]
    /\ returned' = CopyRows(Batch(n, input_elems), n, input_elems, output_elems)
    /\ UNCHANGED <<options, pc, built, memoryVars, streamVars, target, cached, handle, bucket,
                   made, kernelVars>>

\* run_inference is entered: an empty batch and a row that is not a number of
\* whole planes need no memory.
RunInference(n, input_elems, output_elems) ==
    /\ pc = "ready" /\ options.engine = "cuda" /\ calls < MaxCalls
    /\ calls' = calls + 1
    /\ call' = [n |-> n, input_elems |-> input_elems, output_elems |-> output_elems]
    /\ IF n = 0 \/ input_elems = 0 \/ input_elems % options.mean # 0
       THEN /\ returned' = IF n = 0 THEN <<>> ELSE Failure
            /\ UNCHANGED <<pc, bucket>>
       ELSE /\ returned' = <<>>
            /\ pc' = "staging"
            /\ bucket' = kMinBucket
    /\ UNCHANGED <<options, built, memoryVars, streamVars, target, cached, handle, made,
                   kernelVars>>

\* Mutant: a request of exactly the bucket's size does not fit it.
DoublesWhenEqual ==
    /\ pc \in Pooled
    /\ bucket <= Bytes
    /\ bucket' = (2 * bucket) % 2^Width
    /\ UNCHANGED <<options, pc, built, memoryVars, streamVars, target, cached, handle, call,
                   returned, calls, made, kernelVars>>

\* bucket_for: the bucket doubles, in Width bits, until the request fits.
Double ==
    /\ pc \in Pooled
    /\ bucket < Bytes
    /\ bucket' = (2 * bucket) % 2^Width
    /\ UNCHANGED <<options, pc, built, memoryVars, streamVars, target, cached, handle, call,
                   returned, calls, made, kernelVars>>

\* acquire_pinned and acquire_device: a cached block of the bucket or a new one.
Acquire(h) ==
    LET fit == {b \in cached : b.kind = Kind(h) /\ b.bytes = bucket} IN
    /\ pc = h /\ bucket >= Bytes
    /\ \/ \E b \in fit :
             /\ handle' = [handle EXCEPT ![h] = [ptr |-> b.ptr, bytes |-> bucket]]
             /\ cached' = cached \ {b}
             /\ UNCHANGED heap
       \/ /\ fit = {}
          /\ handle' = [handle EXCEPT ![h] = [ptr |-> NewAllocation, bytes |-> bucket]]
          /\ heap' = heap \union {Block(NewAllocation, Kind(h))}
          /\ UNCHANGED cached
    /\ bucket' = kMinBucket
    /\ pc' = IF h = "staging" THEN "device" ELSE "launch"
    /\ UNCHANGED <<options, built, buffer, content, streamVars, target, call, returned, calls,
                   made, kernelVars>>

\* The handles are released to the pool, whether the call returns or throws.
Return(result) ==
    /\ cached' = cached \union
          {[kind |-> Kind(h), ptr |-> handle[h].ptr, bytes |-> handle[h].bytes] :
             h \in {g \in Pooled : handle[g] # Null}}
    /\ handle' = [h \in Pooled |-> Null]
    /\ returned' = result
    /\ pc' = "ready"
    /\ grid' = NoGrid /\ idx' = <<>> /\ data' = <<>>
    /\ UNCHANGED <<options, built, memoryVars, streamVars, target, call, bucket, calls, made>>

\* An allocation, the copy in or the launch fails.  (A failure after the launch
\* leaves the kernel running: CudaEngine.)
CallFails ==
    /\ \/ pc \in Pooled /\ bucket >= Bytes
       \/ pc = "launch"
    /\ Return(Failure)

\* The batch is staged and copied in, the kernel launched.
LaunchNormalize ==
    /\ pc = "launch"
    /\ data' = Batch(call.n, call.input_elems)
    /\ Launch(call.n, options.mean, hw)
    /\ pc' = "kernel"
    /\ UNCHANGED <<options, built, memoryVars, streamVars, target, callVars, made>>

\* What a thread reads of each channel's constants.
Constants ==
    [channel \in 0..(grid.c - 1) |->
        IF content[buffer["mean_"].ptr] = "mean" /\ content[buffer["stddev_"].ptr] = "stddev"
        THEN channel ELSE -1]

Thread(t) ==
    /\ pc = "kernel"
    /\ KernelStep(t, Constants)
    /\ UNCHANGED <<options, pc, built, memoryVars, streamVars, target, callVars, made>>

\* The stream is synchronised, and the rows copied to the result.
CopyOut ==
    /\ pc = "kernel" /\ KernelDone
    /\ Return(CopyRows(data, call.n, call.input_elems, call.output_elems))
-----------------------------------------------------------------------------
Construction ==
    \/ \E step \in {"session", "upload_mean", "upload_stddev"} : Throw(step)
    \/ CreateStream \/ CreateStreamFails
    \/ ConstructMember("mean_", options.mean, "stddev_")
    \/ ConstructMember("stddev_", options.stddev, "check")
    \/ ConstructFails("mean_", options.mean) \/ ConstructFails("stddev_", options.stddev)
    \/ CheckOptions
    \/ Upload("upload_mean", "mean_", "mean", "upload_stddev")
    \/ Upload("upload_stddev", "stddev_", "stddev", "ready")
    \/ CreateSession \/ CreateCopyStream
    \/ ConstructTemporary \/ AssignMember \/ DestroyTemporary
    \/ Upload("upload_device_mean", "device_mean", "mean", "upload_device_stddev")
    \/ Upload("upload_device_stddev", "device_stddev", "stddev", "memory_info")
    \/ MemoryInfo \/ Catch

Inference ==
    \/ Double \/ \E h \in Pooled : Acquire(h)
    \/ LaunchNormalize \/ \E t \in DOMAIN idx : Thread(t)
    \/ CopyOut \/ CallFails

Program == Construction \/ DestroyMember \/ Destroyed \/ Inference

Next ==
    \/ \E o \in Options : Begin(o)
    \/ DestroyEngine
    \/ \E n \in 0..MaxBatch, i \in 0..MaxElems, o \in 1..MaxElems :
          RunStub(n, i, o) \/ RunInference(n, i, o)
    \/ Program

Spec == Init /\ [][Next]_vars

\* A constructor, a destructor and a call run to their end.
FairSpec == Spec /\ WF_vars(Program)
-----------------------------------------------------------------------------
(* Properties. *)

Owners ==
    {<<"buffer", b>> : b \in {c \in BufferNames : buffer[c].ptr # 0}}
        \union {<<"handle", h>> : h \in {g \in Pooled : handle[g].ptr # 0}}

Owned(o) == IF o[1] = "buffer" THEN buffer[o[2]].ptr ELSE handle[o[2]].ptr

\* Memory has exactly one owner at every step of construction, use and
\* destruction, whatever fails: "device memory is freed via a destructor rather
\* than manually at every throw/return path".  No allocation is without an
\* owner (a leak) or has two (a double free), no owner points to freed memory,
\* none frees it with the other kind's function, and once the engine is gone
\* nothing is left.  A stream has an owner too, unless CudaStreamPool's
\* constructor threw after it had made it.
SingleOwner ==
    /\ {a.ptr : a \in heap} = {Owned(o) : o \in Owners} \union {b.ptr : b \in cached}
    /\ Cardinality(heap) = Cardinality(Owners) + Cardinality(cached)
    /\ driver \ lost = (ToSet(streams) \union {stream}) \ {0}
    /\ pc = "none" => heap = {} /\ driver = lost

\* What an engine returns: each request's row starts with the first elements of
\* its own input, zero after them, "a drop-in substitute" for the stub; the
\* CUDA engine has applied to each element the uploaded constants of its own
\* channel, once, whichever threads of the grid came first.
OwnRowsInPlace ==
    pc = "ready" /\ returned # <<>> /\ returned # Failure =>
        \A k \in DOMAIN returned :
            LET i == k \div call.output_elems
                j == k % call.output_elems
            IN  returned[k] =
                  IF j >= call.input_elems THEN Zero
                  ELSE [row |-> i, col |-> j,
                        by |-> IF options.engine = "cuda" THEN <<j \div hw>> ELSE <<>>]

\* Constructors, destructors and calls end: the loops of bucket_for (up to the
\* largest size the width can hold) and of the kernel's threads do, and
\* ~MemoryPool finds no live handle.
ProgramEnds == pc \notin {"none", "ready"} ~> pc \in {"none", "ready"}
=============================================================================
