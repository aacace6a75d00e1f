----------------------------- MODULE MemoryPool -----------------------------
(***************************************************************************)
(* MemoryPool of src/cpp/src/memory: free lists of device and of pinned    *)
(* host blocks by bucket, and the PooledBuffer handles given out.  Every   *)
(* public operation holds MemoryPool::mutex_ throughout and is one step.   *)
(*                                                                         *)
(* A block is a number; the allocator hands out the least unused one,      *)
(* since no code looks at an address.  A user of the pool holds at most    *)
(* one handle of each kind, as CudaExecutionEngine::run_inference does.    *)
(***************************************************************************)
EXTENDS Integers, Sequences, FiniteSets, FiniteSetsExt, Functions

CONSTANTS
    Callers,    \* the threads that use the pool
    Sizes,      \* the sizes they ask for
    MinBucket,  \* kMinBucket
    MaxBlocks   \* how many blocks the device and the host can provide

ASSUME PoolAssumption ==
    /\ IsFiniteSet(Callers)
    /\ IsFiniteSet(Sizes)
    /\ Sizes \subseteq Nat
    /\ MinBucket \in Nat \ {0}
    /\ MaxBlocks \in Nat

VARIABLES
    free,    \* device_free_ and pinned_free_: bucket -> list of blocks
    heap,    \* the blocks allocated and not freed, with their true kind and size
    handle,  \* the PooledBuffer of each kind that each caller holds
    stats    \* the gauges of MemoryPoolStats; its three ever-growing counts,
             \* which no code reads, are left out

poolVars == <<free, heap, handle, stats>>

Kinds == {"device", "pinned"}
Blocks == 1..MaxBlocks

\* Doubling from MinBucket until the request fits.
BucketFor(bytes) ==
    Min({b \in {MinBucket * 2^k : k \in 0..bytes} : b >= bytes})

Buckets == {BucketFor(n) : n \in Sizes}

\* A bucket is a number of bytes.
ASSUME BucketAssumption == Buckets \subseteq Nat

Unused == [kind |-> "none", capacity |-> 0]
NoBuffer == [ptr |-> 0, capacity |-> 0, requested |-> 0]

PoolInit ==
    /\ free = [k \in Kinds |-> [c \in Buckets |-> <<>>]]
    /\ heap = [b \in Blocks |-> Unused]
    /\ handle = [t \in Callers |-> [k \in Kinds |-> NoBuffer]]
    /\ stats = [bytes_in_use |-> 0, bytes_cached |-> 0, live_handles |-> 0]

UnusedBlocks == {b \in Blocks : heap[b] = Unused}

\* The handle that acquire_device and acquire_pinned return.
Give(t, kind, ptr, bytes) ==
    handle' = [handle EXCEPT ![t][kind] =
                 [ptr |-> ptr, capacity |-> BucketFor(bytes), requested |-> bytes]]

\* acquire_device and acquire_pinned with a block of the bucket cached: the
\* one released last is reused.
AcquireCached(t, kind, bytes) ==
    LET c == BucketFor(bytes)
        list == free[kind][c]
    IN
    /\ list # <<>>
    /\ Give(t, kind, list[Len(list)], bytes)
    /\ free' = [free EXCEPT ![kind][c] = SubSeq(list, 1, Len(list) - 1)]
    /\ stats' = [stats EXCEPT !.bytes_cached = @ - c, !.bytes_in_use = @ + c,
                              !.live_handles = @ + 1]
    /\ UNCHANGED heap

\* Mutant: the free list is not consulted.
AcquireWithoutReuse(t, kind, bytes) ==
    LET c == BucketFor(bytes)
        b == Min(UnusedBlocks)
    IN
    /\ UnusedBlocks # {}
    /\ Give(t, kind, b, bytes)
    /\ heap' = [heap EXCEPT ![b] = [kind |-> kind, capacity |-> c]]
    /\ stats' = [stats EXCEPT !.bytes_in_use = @ + c, !.live_handles = @ + 1]
    /\ UNCHANGED free

\* The same with nothing cached: allocate_block.
AcquireFresh(t, kind, bytes) ==
    LET c == BucketFor(bytes)
        b == Min(UnusedBlocks)
    IN
    /\ free[kind][c] = <<>>
    /\ UnusedBlocks # {}
    /\ Give(t, kind, b, bytes)
    /\ heap' = [heap EXCEPT ![b] = [kind |-> kind, capacity |-> c]]
    /\ stats' = [stats EXCEPT !.bytes_in_use = @ + c, !.live_handles = @ + 1]
    /\ UNCHANGED free

\* allocate_block throws: nothing is given.
AcquireFails(kind, bytes) ==
    /\ free[kind][BucketFor(bytes)] = <<>>
    /\ UNCHANGED poolVars

\* Mutant: the released block goes to the list of the other kind.
ReleaseToDevice(t, kind) ==
    LET h == handle[t][kind] IN
    /\ handle' = [handle EXCEPT ![t][kind] = NoBuffer]
    /\ free' = [free EXCEPT !["device"][h.capacity] = Append(@, h.ptr)]
    /\ stats' = [stats EXCEPT !.bytes_in_use = @ - h.capacity,
                              !.bytes_cached = @ + h.capacity, !.live_handles = @ - 1]
    /\ UNCHANGED heap

\* PooledBuffer::release: the block goes back to its list and the handle is
\* emptied, so a second release would find nothing.
Release(t, kind) ==
    LET h == handle[t][kind] IN
    /\ handle' = [handle EXCEPT ![t][kind] = NoBuffer]
    /\ free' = [free EXCEPT ![kind][h.capacity] = Append(@, h.ptr)]
    /\ stats' = [stats EXCEPT !.bytes_in_use = @ - h.capacity,
                              !.bytes_cached = @ + h.capacity, !.live_handles = @ - 1]
    /\ UNCHANGED heap

Cached(kind, c) == Range(free[kind][c])

\* trim: every cached block is freed, live handles are not affected.
Trim ==
    LET gone == UNION {Cached(k, c) : k \in Kinds, c \in Buckets} IN
    /\ gone # {}
    /\ free' = [k \in Kinds |-> [c \in Buckets |-> <<>>]]
    /\ heap' = [b \in Blocks |-> IF b \in gone THEN Unused ELSE heap[b]]
    /\ stats' = [stats EXCEPT !.bytes_cached =
                   @ - SumFunction([l \in Kinds \X Buckets |-> l[2] * Len(free[l[1]][l[2]])])]
    /\ UNCHANGED handle

-----------------------------------------------------------------------------
(* Properties. *)

Live == {h \in Callers \X Kinds : handle[h[1]][h[2]] # NoBuffer}

Capacity(h) == handle[h[1]][h[2]].capacity

\* The pool's books are right: each allocated block is in one free list, the
\* one of its kind and size, or in one live handle, and the three gauges of
\* MemoryPoolStats, which ~MemoryPool relies on, say how many bytes and handles
\* there are, whatever failed and whatever was trimmed.
PoolAccounted ==
    /\ \A k \in Kinds, c \in Buckets :
          /\ IsInjective(free[k][c])
          /\ \A b \in Cached(k, c) : heap[b] = [kind |-> k, capacity |-> c]
    /\ \A h \in Live :
          LET b == handle[h[1]][h[2]].ptr IN
          /\ heap[b] = [kind |-> h[2], capacity |-> Capacity(h)]
          /\ \A k \in Kinds, c \in Buckets : b \notin Cached(k, c)
          /\ \A g \in Live \ {h} : handle[g[1]][g[2]].ptr # b
    /\ stats.live_handles = Cardinality(Live)
    /\ stats.bytes_in_use = SumFunction([h \in Live |-> Capacity(h)])
    /\ stats.bytes_cached + stats.bytes_in_use =
          SumFunction([b \in Blocks \ UnusedBlocks |-> heap[b].capacity])

\* Pooling works: "after warmup no cudaMalloc/cudaHostAlloc should occur on the
\* hot path".  A bucket never has more blocks than there are callers, however
\* many batches they run.
PoolStaysSmall ==
    \A k \in Kinds, c \in Buckets :
        Cardinality({b \in Blocks : heap[b] = [kind |-> k, capacity |-> c]})
            <= Cardinality(Callers)
=============================================================================
