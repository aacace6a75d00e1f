----------------------------- MODULE CudaEngine -----------------------------
(***************************************************************************)
(* CudaExecutionEngine::run_inference on several threads: pooled staging   *)
(* and device buffers, a stream taken round-robin from CudaStreamPool, two *)
(* asynchronous copies and a kernel queued on it, one synchronisation.     *)
(* The device executes the streams concurrently, each in order.            *)
(*                                                                         *)
(* What a block holds is the call whose input it is and how many times it  *)
(* was normalised.  An asynchronous copy reads its source when the device  *)
(* executes it, not when it is queued.                                     *)
(***************************************************************************)
EXTENDS MemoryPool

CONSTANTS
    StreamCount,  \* Options::stream_count
    MaxCalls,     \* bound: how many batches each thread runs
    Faults        \* the CUDA calls that may fail, by step

ASSUME EngineAssumption ==
    /\ StreamCount \in Nat \ {0}
    /\ MaxCalls \in Nat
    /\ Faults \subseteq {"staging", "device", "h2d", "launch", "d2h", "sync"}

VARIABLES
    pc,        \* where each thread is in run_inference
    calls,     \* how many batches it has begun
    bytes,     \* the size of its batch
    cursor,    \* CudaStreamPool::cursor_, modulo the number of streams
    stream,    \* the stream it was given
    queued,    \* the operations queued on each stream
    content,   \* what each block holds
    returned   \* what each thread's last call returned

engineVars == <<calls, bytes, cursor, stream, queued, content, returned>>
vars == <<poolVars, pc, engineVars>>

Streams == 0..(StreamCount - 1)
Contents(who, n) == [of |-> who, call |-> n, normalized |-> 0]
Nothing == Contents("nobody", 0)
Error == Contents("error", 0)

Init ==
    /\ PoolInit
    /\ pc = [t \in Callers |-> "idle"]
    /\ calls = [t \in Callers |-> 0]
    /\ bytes = [t \in Callers |-> 0]
    /\ cursor = 0
    /\ stream = [t \in Callers |-> 0]
    /\ queued = [s \in Streams |-> <<>>]
    /\ content = [b \in Blocks |-> Nothing]
    /\ returned = [t \in Callers |-> Nothing]

Goto(t, step) == pc' = [pc EXCEPT ![t] = step]

\* Where an exception thrown at this step unwinds to: the buffers acquired so
\* far are destroyed, the one acquired last first.
Unwind(step) ==
    CASE step = "staging" -> "idle"
      [] step = "device"  -> "free_staging"
      [] OTHER            -> "free_device"

\* A CUDA call of this step fails and cuda_check throws.
Throw(t, step) ==
    /\ pc[t] = step
    /\ step \in Faults
    /\ Goto(t, Unwind(step))
    /\ returned' = [returned EXCEPT ![t] = Error]

Staging(t) == handle[t]["pinned"].ptr
Device(t) == handle[t]["device"].ptr

\* run_inference is entered with a well-formed batch; a malformed or an empty
\* one returns before anything is acquired.
Call(t) ==
    /\ pc[t] = "idle"
    /\ calls[t] < MaxCalls
    /\ calls' = [calls EXCEPT ![t] = @ + 1]
    /\ \E n \in Sizes : bytes' = [bytes EXCEPT ![t] = n]
    /\ returned' = [returned EXCEPT ![t] = Nothing]
    /\ Goto(t, "staging")
    /\ UNCHANGED <<poolVars, cursor, stream, queued, content>>

\* The two acquisitions.
Acquire(t, step, kind, after) ==
    /\ pc[t] = step
    /\ AcquireCached(t, kind, bytes[t]) \/ AcquireFresh(t, kind, bytes[t])
    /\ Goto(t, after)
    /\ UNCHANGED engineVars

AcquireThrows(t, step, kind) ==
    /\ Throw(t, step)
    /\ AcquireFails(kind, bytes[t])
    /\ UNCHANGED <<calls, bytes, cursor, stream, queued, content>>

\* CudaStreamPool::next: round-robin, busy or not.
NextStream(t) ==
    /\ stream' = [stream EXCEPT ![t] = cursor]
    /\ cursor' = (cursor + 1) % StreamCount

\* The batch is copied to the staging buffer, and next() picks a stream.
Memcpy(t) ==
    /\ pc[t] = "memcpy"
    /\ content' = [content EXCEPT ![Staging(t)] = Contents(t, calls[t])]
    /\ NextStream(t)
    /\ Goto(t, "h2d")
    /\ UNCHANGED <<poolVars, calls, bytes, queued, returned>>

\* cudaMemcpyAsync and launch_normalize queue an operation on the stream.
Enqueue(t, step, op, after) ==
    /\ pc[t] = step
    /\ queued' = [queued EXCEPT ![stream[t]] =
                    Append(@, [op |-> op, of |-> t, call |-> calls[t],
                               host |-> Staging(t), dev |-> Device(t)])]
    /\ Goto(t, after)
    /\ UNCHANGED <<poolVars, calls, bytes, cursor, stream, content, returned>>

StepThrows(t) ==
    /\ \E step \in {"h2d", "launch", "d2h", "sync"} : Throw(t, step)
    /\ UNCHANGED <<poolVars, calls, bytes, cursor, stream, queued, content>>

\* Mutant: the result is read without waiting for the stream.
NoSynchronize(t) ==
    /\ pc[t] = "sync"
    /\ Goto(t, "copy_out")
    /\ UNCHANGED <<poolVars, engineVars>>

\* cudaStreamSynchronize returns when everything this call queued is done.
Synchronize(t) ==
    /\ pc[t] = "sync"
    /\ \A i \in 1..Len(queued[stream[t]]) :
          ~(queued[stream[t]][i].of = t /\ queued[stream[t]][i].call = calls[t])
    /\ Goto(t, "copy_out")
    /\ UNCHANGED <<poolVars, engineVars>>

\* The rows are copied from the staging buffer to the result.
CopyOut(t) ==
    /\ pc[t] = "copy_out"
    /\ returned' = [returned EXCEPT ![t] = content[Staging(t)]]
    /\ Goto(t, "free_device")
    /\ UNCHANGED <<poolVars, calls, bytes, cursor, stream, queued, content>>

\* The handles are destroyed in the reverse order of their declaration, and
\* with the last one the call's locals are gone.
Destroy(t, step, kind, after) ==
    /\ pc[t] = step
    /\ Release(t, kind)
    /\ Goto(t, after)
    /\ bytes' = IF after = "idle" THEN [bytes EXCEPT ![t] = 0] ELSE bytes
    /\ stream' = IF after = "idle" THEN [stream EXCEPT ![t] = 0] ELSE stream
    /\ UNCHANGED <<calls, cursor, queued, content, returned>>

Thread(t) ==
    \/ Call(t)
    \/ Acquire(t, "staging", "pinned", "device")
    \/ AcquireThrows(t, "staging", "pinned")
    \/ Acquire(t, "device", "device", "memcpy")
    \/ AcquireThrows(t, "device", "device")
    \/ Memcpy(t)
    \/ Enqueue(t, "h2d", "h2d", "launch")
    \/ Enqueue(t, "launch", "kernel", "d2h")
    \/ Enqueue(t, "d2h", "d2h", "sync")
    \/ StepThrows(t)
    \/ Synchronize(t)
    \/ CopyOut(t)
    \/ Destroy(t, "free_device", "device", "free_staging")
    \/ Destroy(t, "free_staging", "pinned", "idle")

\* normalize_kernel, in place.
Normalize(d) == IF d = Nothing THEN d ELSE [d EXCEPT !.normalized = @ + 1]

\* The device executes the oldest operation of a stream.
Execute(s) ==
    /\ queued[s] # <<>>
    /\ LET o == Head(queued[s]) IN
       content' = CASE o.op = "h2d"    -> [content EXCEPT ![o.dev] = content[o.host]]
                    [] o.op = "kernel" -> [content EXCEPT ![o.dev] = Normalize(@)]
                    [] o.op = "d2h"    -> [content EXCEPT ![o.host] = content[o.dev]]
    /\ queued' = [queued EXCEPT ![s] = Tail(@)]
    /\ UNCHANGED <<poolVars, pc, calls, bytes, cursor, stream, returned>>

TrimPool == Trim /\ UNCHANGED <<pc, engineVars>>

Next ==
    \/ \E t \in Callers : Thread(t)
    \/ \E s \in Streams : Execute(s)
    \/ TrimPool

Spec == Init /\ [][Next]_vars
-----------------------------------------------------------------------------
(* Properties. *)

\* A call that returns gives back its own batch, normalised once, although
\* buffers and streams are shared with other calls: "safe to call
\* run_inference() from multiple threads".
OwnResult ==
    \A t \in Callers :
        returned[t] \notin {Nothing, Error} =>
            returned[t] = [of |-> t, call |-> calls[t], normalized |-> 1]

\* A PooledBuffer must "not be destroyed while a stream still has in-flight
\* work touching its memory": no queued operation uses a block that is back in
\* a free list.
IdleWhenReleased ==
    \A s \in Streams : \A i \in 1..Len(queued[s]) :
        \A k \in Kinds, c \in Buckets :
            {queued[s][i].host, queued[s][i].dev} \cap Cached(k, c) = {}
=============================================================================
