-------------------------- MODULE CudaEngineProofs --------------------------
(***************************************************************************)
(* For every number of threads, streams and blocks and every set of sizes: *)
(* the pool's books stay right and the pool stays small whatever fails;    *)
(* and, when no call fails after work was queued, each run_inference       *)
(* returns its own batch, normalised once.                                 *)
(***************************************************************************)
EXTENDS CudaEngine, MemoryPoolProofs

Steps == {"idle", "staging", "device", "memcpy", "h2d", "launch", "d2h", "sync", "copy_out",
          "free_device", "free_staging"}

-----------------------------------------------------------------------------
(* The pool, as run_inference uses it. *)

\* Which handles a thread holds, by where it is; and its batch has a size.
Holding(t) ==
    /\ Held(t, "pinned") <=> pc[t] \notin {"idle", "staging"}
    /\ Held(t, "device") <=> pc[t] \notin {"idle", "staging", "device", "free_staging"}
    /\ pc[t] # "idle" => bytes[t] \in Sizes

PoolUse ==
    /\ PoolInv
    /\ pc \in [Callers -> Steps]
    /\ bytes \in [Callers -> Nat]
    /\ \A t \in Callers : Holding(t)

-----------------------------------------------------------------------------
(* What is queued, and what the blocks hold. *)

Operations == [op : {"h2d", "kernel", "d2h"}, of : Callers, call : Nat, host : Blocks, dev : Blocks]

EngineTypeOK ==
    /\ calls \in [Callers -> Nat]
    /\ cursor \in Streams
    /\ stream \in [Callers -> Streams]
    /\ queued \in [Streams -> Seq(Operations)]
    /\ DOMAIN content = Blocks
    /\ DOMAIN returned = Callers

Rank == [op \in {"h2d", "kernel", "d2h"} |->
            CASE op = "h2d" -> 1 [] op = "kernel" -> 2 [] op = "d2h" -> 3]

\* Where a thread can be when an operation of its is queued.
After(op) == CASE op = "h2d"    -> {"launch", "d2h", "sync"}
               [] op = "kernel" -> {"d2h", "sync"}
               [] op = "d2h"    -> {"sync"}

\* A queued operation is of the current call of its thread, which is still
\* inside it, is on the thread's stream and uses the buffers the thread holds.
OpOwned(s, o) ==
    /\ pc[o.of] \in After(o.op)
    /\ s = stream[o.of]
    /\ o.call = calls[o.of]
    /\ o.host = Staging(o.of)
    /\ o.dev = Device(o.of)

OpsOwned == \A s \in Streams : \A i \in 1..Len(queued[s]) : OpOwned(s, queued[s][i])

\* The operations of a thread are queued in the order of the calls.
OpsOrdered ==
    \A s \in Streams : \A i, j \in 1..Len(queued[s]) :
        i < j /\ queued[s][i].of = queued[s][j].of => Rank[queued[s][i].op] < Rank[queued[s][j].op]

Queued(t, op) ==
    \E i \in 1..Len(queued[stream[t]]) : queued[stream[t]][i].of = t /\ queued[stream[t]][i].op = op

Input(t) == Contents(t, calls[t])
Output(t) == [of |-> t, call |-> calls[t], normalized |-> 1]

\* What has not been executed yet is still queued, and the block the next
\* operation reads holds what it should.
Progress(t) ==
    /\ pc[t] # "idle" => calls[t] >= 1
    /\ Queued(t, "h2d") /\ pc[t] \in {"d2h", "sync"} => Queued(t, "kernel")
    /\ Queued(t, "kernel") /\ pc[t] = "sync" => Queued(t, "d2h")
    /\ pc[t] = "h2d" \/ Queued(t, "h2d") => content[Staging(t)] = Input(t)
    /\ (pc[t] = "launch" \/ Queued(t, "kernel")) /\ ~Queued(t, "h2d") =>
          content[Device(t)] = Input(t)
    /\ (pc[t] = "d2h" \/ Queued(t, "d2h")) /\ ~Queued(t, "kernel") =>
          content[Device(t)] = Output(t)
    /\ pc[t] = "copy_out" \/ (pc[t] = "sync" /\ ~Queued(t, "d2h")) =>
          content[Staging(t)] = Output(t)

EngineInv ==
    /\ EngineTypeOK
    /\ OpsOwned
    /\ OpsOrdered
    /\ \A t \in Callers : Progress(t)
    /\ OwnResult

-----------------------------------------------------------------------------
(* The pool's books. *)

\* What a step of one thread must show, when it leaves the others alone.
LEMMA PoolUseFrame ==
    ASSUME PoolUse, NEW t \in Callers, NEW step \in Steps, Goto(t, step),
           PoolInv', bytes' \in [Callers -> Nat],
           \A u \in Callers \ {t} : handle'[u] = handle[u] /\ bytes'[u] = bytes[u],
           Holding(t)'
    PROVE  PoolUse'
<1>1. pc' \in [Callers -> Steps] /\ \A u \in Callers \ {t} : pc'[u] = pc[u]
  BY DEF PoolUse, Goto
<1>2. ASSUME NEW u \in Callers \ {t} PROVE Holding(u)'
  <2>1. pc'[u] = pc[u] /\ handle'[u] = handle[u] /\ bytes'[u] = bytes[u] /\ Holding(u)
    BY <1>1 DEF PoolUse
  <2> QED
    BY <2>1 DEF Holding, Held
<1> QED
  BY <1>1, <1>2 DEF PoolUse

\* A step of a thread that leaves the pool alone.
LEMMA PoolUseKept ==
    ASSUME PoolUse, NEW t \in Callers, NEW step \in Steps, Goto(t, step), UNCHANGED poolVars,
           bytes' \in [Callers -> Nat], \A u \in Callers \ {t} : bytes'[u] = bytes[u],
           /\ pc[t] \notin {"idle", "staging"} <=> step \notin {"idle", "staging"}
           /\ pc[t] \notin {"idle", "staging", "device", "free_staging"} <=>
                 step \notin {"idle", "staging", "device", "free_staging"}
           /\ step # "idle" => bytes'[t] \in Sizes
    PROVE  PoolUse'
<1>1. PoolInv' /\ handle' = handle
  BY PoolStutters DEF PoolUse, poolVars
<1>2. pc'[t] = step /\ Holding(t)
  BY DEF PoolUse, Goto
<1>3. Holding(t)'
  BY <1>1, <1>2 DEF Holding, Held
<1> QED
  BY <1>1, <1>3, PoolUseFrame

\* An acquisition and a release change one handle of the thread.
LEMMA OneHandle ==
    ASSUME PoolInv, NEW t \in Callers, NEW kind \in Kinds,
           \/ \E n \in Sizes : AcquireCached(t, kind, n) \/ AcquireFresh(t, kind, n)
           \/ Release(t, kind)
    PROVE  /\ \A u \in Callers \ {t} : handle'[u] = handle[u]
           /\ \A k \in Kinds \ {kind} : handle'[t][k] = handle[t][k]
<1>1. \E buffer : handle' = [handle EXCEPT ![t][kind] = buffer]
  BY Zenon DEF AcquireCached, AcquireFresh, Give, Release
<1>2. PICK buffer : handle' = [handle EXCEPT ![t][kind] = buffer]
  BY <1>1, Zenon
<1>3. handle \in Handles
  BY DEF PoolInv, PoolTypeOK
<1> QED
  BY <1>2, <1>3 DEF Handles

\* An acquisition.
LEMMA AcquireUses ==
    ASSUME PoolUse, NEW t \in Callers, NEW kind \in Kinds, NEW step, NEW after \in Steps,
           Acquire(t, step, kind, after),
           \/ step = "staging" /\ kind = "pinned" /\ after = "device"
           \/ step = "device" /\ kind = "device" /\ after = "memcpy"
    PROVE  PoolUse' /\ Held(t, kind)'
<1>1. /\ pc[t] = step /\ Holding(t) /\ bytes[t] \in Sizes /\ ~Held(t, kind) /\ PoolInv
      /\ Goto(t, after) /\ bytes' = bytes /\ bytes \in [Callers -> Nat]
  BY DEF Acquire, PoolUse, Holding, engineVars
<1>2. AcquireCached(t, kind, bytes[t]) \/ AcquireFresh(t, kind, bytes[t])
  BY DEF Acquire
<1>3. PoolInv'
  BY <1>1, <1>2, AcquireCachedKeeps, AcquireFreshKeeps
<1>4. /\ \A u \in Callers \ {t} : handle'[u] = handle[u]
      /\ \A k \in Kinds \ {kind} : handle'[t][k] = handle[t][k]
  BY <1>1, <1>2, OneHandle
<1>5. Held(t, kind)'
  <2>1. PICK b \in Blocks : Give(t, kind, b, bytes[t])
    BY <1>1, <1>2, GivesBlock
  <2> QED
    BY <1>1, <2>1, GiveFacts DEF PoolInv, PoolTypeOK
<1>6. Holding(t)'
  <2>1. pc'[t] = after
    BY <1>1 DEF PoolUse, Goto
  <2>2. \A k \in Kinds \ {kind} : Held(t, k)' = Held(t, k)
    BY <1>4 DEF Held
  <2> QED
    BY <1>1, <1>5, <2>1, <2>2 DEF Holding, Kinds
<1> QED
  BY <1>1, <1>3, <1>4, <1>5, <1>6, PoolUseFrame

\* A release.
LEMMA DestroyUses ==
    ASSUME PoolUse, NEW t \in Callers, NEW kind \in Kinds, NEW step, NEW after \in Steps,
           Destroy(t, step, kind, after),
           \/ step = "free_device" /\ kind = "device" /\ after = "free_staging"
           \/ step = "free_staging" /\ kind = "pinned" /\ after = "idle"
    PROVE  PoolUse'
<1>1. /\ pc[t] = step /\ Holding(t) /\ bytes[t] \in Sizes /\ Held(t, kind) /\ PoolInv
      /\ Goto(t, after) /\ Release(t, kind) /\ bytes \in [Callers -> Nat]
  BY DEF Destroy, PoolUse, Holding
<1>2. PoolInv'
  BY <1>1, ReleaseKeeps
<1>3. /\ \A u \in Callers \ {t} : handle'[u] = handle[u]
      /\ \A k \in Kinds \ {kind} : handle'[t][k] = handle[t][k]
  BY <1>1, OneHandle
<1>4. ~Held(t, kind)'
  BY <1>1 DEF Release, Held, PoolInv, PoolTypeOK, Handles
<1>5. /\ bytes' \in [Callers -> Nat] /\ \A u \in Callers \ {t} : bytes'[u] = bytes[u]
      /\ after # "idle" => bytes' = bytes
  BY <1>1 DEF Destroy
<1>6. Holding(t)'
  <2>1. pc'[t] = after
    BY <1>1 DEF PoolUse, Goto
  <2>2. \A k \in Kinds \ {kind} : Held(t, k)' = Held(t, k)
    BY <1>3 DEF Held
  <2> QED
    BY <1>1, <1>4, <1>5, <2>1, <2>2 DEF Holding, Kinds
<1> QED
  BY <1>1, <1>2, <1>3, <1>5, <1>6, PoolUseFrame

\* The other steps of a thread leave the pool alone.
LEMMA OtherStepsUse ==
    ASSUME PoolUse, NEW t \in Callers,
           \/ Call(t) \/ AcquireThrows(t, "staging", "pinned") \/ AcquireThrows(t, "device", "device")
           \/ Memcpy(t) \/ Enqueue(t, "h2d", "h2d", "launch")
           \/ Enqueue(t, "launch", "kernel", "d2h") \/ Enqueue(t, "d2h", "d2h", "sync")
           \/ StepThrows(t) \/ Synchronize(t) \/ CopyOut(t)
    PROVE  PoolUse'
<1>1. bytes \in [Callers -> Nat] /\ Holding(t)
  BY SMTT(30) DEF PoolUse
<1>2. UNCHANGED poolVars
  BY DEF Call, AcquireThrows, AcquireFails, Memcpy, Enqueue, StepThrows, Synchronize, CopyOut
<1>3. CASE Call(t)
  <2>1. PICK n \in Sizes : bytes' = [bytes EXCEPT ![t] = n]
    BY <1>3, Zenon DEF Call
  <2>2. /\ bytes' \in [Callers -> Nat] /\ bytes'[t] \in Sizes
        /\ \A u \in Callers \ {t} : bytes'[u] = bytes[u]
    BY <1>1, <2>1, PoolAssumption
  <2>3. pc[t] = "idle" /\ Goto(t, "staging") /\ "staging" \in Steps
    BY <1>3 DEF Call, Steps
  <2> QED
    BY <1>2, <2>2, <2>3, PoolUseKept
<1>4. CASE ~Call(t)
  <2>1. bytes' = bytes
    BY <1>4 DEF AcquireThrows, Memcpy, Enqueue, StepThrows, Synchronize, CopyOut, engineVars
  <2>2. PICK step \in Steps :
            /\ Goto(t, step)
            /\ pc[t] # "idle"
            /\ pc[t] \notin {"idle", "staging"} <=> step \notin {"idle", "staging"}
            /\ pc[t] \notin {"idle", "staging", "device", "free_staging"} <=>
                  step \notin {"idle", "staging", "device", "free_staging"}
    <3>1. CASE Memcpy(t) \/ Synchronize(t) \/ CopyOut(t)
      BY <3>1 DEF Memcpy, Synchronize, CopyOut, Steps
    <3>2. CASE \/ Enqueue(t, "h2d", "h2d", "launch") \/ Enqueue(t, "launch", "kernel", "d2h")
               \/ Enqueue(t, "d2h", "d2h", "sync")
      BY <3>2, Zenon DEF Enqueue, Steps
    <3>3. CASE AcquireThrows(t, "staging", "pinned") \/ AcquireThrows(t, "device", "device")
      BY <3>3 DEF AcquireThrows, Throw, Unwind, Steps
    <3>4. CASE StepThrows(t)
      BY <3>4 DEF StepThrows, Throw, Unwind, Steps
    <3> QED
      BY <1>4, <3>1, <3>2, <3>3, <3>4, SMTT(30)
  <2>3. bytes'[t] \in Sizes
    BY <1>1, <2>1, <2>2 DEF Holding
  <2> QED
    BY <1>1, <1>2, <2>1, <2>2, <2>3, PoolUseKept, SMTT(30)
<1> QED
  BY <1>3, <1>4

\* A step of a thread.
LEMMA ThreadUses == ASSUME PoolUse, NEW t \in Callers, Thread(t) PROVE PoolUse'
<1>1. CASE Acquire(t, "staging", "pinned", "device")
  <2>1. "device" \in Steps /\ "pinned" \in Kinds
    BY DEF Steps, Kinds
  <2> QED
    BY <1>1, <2>1, AcquireUses
<1>2. CASE Acquire(t, "device", "device", "memcpy")
  <2>1. "memcpy" \in Steps /\ "device" \in Kinds
    BY DEF Steps, Kinds
  <2> QED
    BY <1>2, <2>1, AcquireUses
<1>3. CASE Destroy(t, "free_device", "device", "free_staging")
  <2>1. "free_staging" \in Steps /\ "device" \in Kinds
    BY DEF Steps, Kinds
  <2> QED
    BY <1>3, <2>1, DestroyUses
<1>4. CASE Destroy(t, "free_staging", "pinned", "idle")
  <2>1. "idle" \in Steps /\ "pinned" \in Kinds
    BY DEF Steps, Kinds
  <2> QED
    BY <1>4, <2>1, DestroyUses
<1> QED
  BY <1>1, <1>2, <1>3, <1>4, OtherStepsUse DEF Thread

\* A step that moves no thread and no handle.
LEMMA PoolUseStill ==
    ASSUME PoolUse, PoolInv', UNCHANGED <<handle, pc, bytes>> PROVE PoolUse'
<1>1. \A t \in Callers : Holding(t)'
  BY DEF PoolUse, Holding, Held
<1> QED
  BY <1>1 DEF PoolUse

\* PoolUse is inductive.
LEMMA PoolUseInvariant == Spec => []PoolUse
<1>1. Init => PoolUse
  <2> SUFFICES ASSUME Init PROVE PoolUse
    OBVIOUS
  <2>1. PoolInv
    BY PoolStarts DEF Init
  <2>2. \A t \in Callers : Holding(t)
    BY DEF Init, PoolInit, Holding, Held, Kinds
  <2> QED
    BY <2>1, <2>2 DEF Init, PoolUse, Steps
<1>2. PoolUse /\ [Next]_vars => PoolUse'
  <2> SUFFICES ASSUME PoolUse, [Next]_vars PROVE PoolUse'
    OBVIOUS
  <2>1. ASSUME NEW t \in Callers, Thread(t) PROVE PoolUse'
    BY <2>1, ThreadUses
  <2>2. ASSUME NEW s \in Streams, Execute(s) PROVE PoolUse'
    <3>1. UNCHANGED poolVars /\ UNCHANGED <<handle, pc, bytes>>
      BY <2>2 DEF Execute, poolVars
    <3> QED
      BY <3>1, PoolStutters, PoolUseStill DEF PoolUse
  <2>3. CASE TrimPool
    <3>1. Trim /\ UNCHANGED <<handle, pc, bytes>>
      BY <2>3 DEF TrimPool, Trim, engineVars
    <3> QED
      BY <3>1, TrimKeeps, PoolUseStill DEF PoolUse
  <2>4. CASE UNCHANGED vars
    <3>1. UNCHANGED poolVars /\ UNCHANGED <<handle, pc, bytes>>
      BY <2>4 DEF vars, poolVars, engineVars
    <3> QED
      BY <3>1, PoolStutters, PoolUseStill DEF PoolUse
  <2> QED
    BY <2>1, <2>2, <2>3, <2>4 DEF Next
<1> QED
  BY <1>1, <1>2, PTL DEF Spec

\* However many threads share the pool, whatever CUDA calls fail and whenever
\* it is trimmed: each block is in one free list or one live handle, and
\* bytes_cached, bytes_in_use and live_handles count them exactly.
THEOREM PoolAlwaysAccounted == Spec => []PoolAccounted
<1>1. PoolUse => PoolAccounted
  BY PoolGood DEF PoolUse
<1> QED
  BY <1>1, PoolUseInvariant, PTL

\* A bucket never has more blocks than there are threads: the pool allocates
\* only when every block of the bucket is in another thread's hands.
THEOREM PoolAlwaysSmall == Spec => []PoolStaysSmall
<1>1. PoolUse => PoolStaysSmall
  BY DEF PoolUse, PoolInv
<1> QED
  BY <1>1, PoolUseInvariant, PTL

-----------------------------------------------------------------------------
(* What a call returns. *)

\* The handles of two threads, or the two handles of one, are different blocks.
LEMMA BlocksApart ==
    ASSUME PoolInv, NEW t \in Callers, NEW u \in Callers, NEW k \in Kinds, NEW j \in Kinds,
           Held(t, k), Held(u, j), handle[t][k].ptr = handle[u][j].ptr
    PROVE  t = u /\ k = j
<1>1. Owns(t, k) /\ Owns(u, j)
  BY DEF PoolInv, HandlesOwn
<1>2. [kind |-> k, capacity |-> handle[t][k].capacity] =
      [kind |-> j, capacity |-> handle[u][j].capacity]
  BY <1>1 DEF Owns
<1>3. k = j
  BY <1>2
<1> QED
  BY <1>1, <1>3 DEF Owns

Inside(t) == pc[t] \in {"memcpy", "h2d", "launch", "d2h", "sync", "copy_out"}

\* A thread between the copy and the release has two buffers, and no other
\* such thread has either.
LEMMA InsideFacts ==
    ASSUME PoolUse, NEW t \in Callers, Inside(t)
    PROVE  /\ Staging(t) \in Blocks /\ Device(t) \in Blocks /\ Staging(t) # Device(t)
           /\ \A u \in Callers : Inside(u) /\ u # t =>
                 /\ Staging(u) \notin {Staging(t), Device(t)}
                 /\ Device(u) \notin {Staging(t), Device(t)}
<1>1. /\ PoolInv /\ PoolTypeOK /\ "pinned" \in Kinds /\ "device" \in Kinds
      /\ Held(t, "pinned") /\ Held(t, "device")
  BY DEF PoolUse, PoolInv, Holding, Inside, Kinds
<1>2. Staging(t) \in Blocks /\ Device(t) \in Blocks
  BY <1>1, HeldFacts DEF Staging, Device
<1>3. Staging(t) # Device(t)
  BY <1>1, BlocksApart, SMTT(30) DEF Staging, Device
<1>4. ASSUME NEW u \in Callers, Inside(u), u # t
      PROVE  /\ Staging(u) \notin {Staging(t), Device(t)}
             /\ Device(u) \notin {Staging(t), Device(t)}
  <2>1. Held(u, "pinned") /\ Held(u, "device")
    BY <1>4 DEF PoolUse, Holding, Inside
  <2> QED
    BY <1>1, <1>4, <2>1, BlocksApart DEF Staging, Device
<1> QED
  BY <1>2, <1>3, <1>4

NoOps(t) == \A s \in Streams : \A i \in 1..Len(queued[s]) : queued[s][i].of # t

\* A queued operation is of a thread inside a call.
LEMMA QueuedFacts ==
    ASSUME EngineInv, NEW s \in Streams, NEW i \in 1..Len(queued[s])
    PROVE  /\ queued[s][i] \in Operations /\ queued[s][i].of \in Callers
           /\ queued[s][i].op \in {"h2d", "kernel", "d2h"}
           /\ OpOwned(s, queued[s][i]) /\ Inside(queued[s][i].of)
<1>1. queued[s] \in Seq(Operations)
  BY DEF EngineInv, EngineTypeOK
<1>2. queued[s][i] \in Operations
  BY <1>1
<1>3. queued[s][i].of \in Callers /\ queued[s][i].op \in {"h2d", "kernel", "d2h"}
  BY <1>2 DEF Operations
<1>4. OpOwned(s, queued[s][i])
  BY DEF EngineInv, OpsOwned
<1> QED
  BY <1>2, <1>3, <1>4 DEF OpOwned, After, Inside

\* A thread that has not queued anything in this call has nothing queued.
LEMMA QuietThread ==
    ASSUME EngineInv, NEW t \in Callers, pc[t] \notin {"launch", "d2h", "sync"}
    PROVE  NoOps(t)
<1> SUFFICES ASSUME NEW s \in Streams, NEW i \in 1..Len(queued[s]), queued[s][i].of = t
             PROVE  FALSE
  BY DEF NoOps
<1>1. OpOwned(s, queued[s][i]) /\ queued[s][i].op \in {"h2d", "kernel", "d2h"}
  BY QueuedFacts
<1> QED
  BY <1>1 DEF OpOwned, After

\* Where a thread is, by what it has queued.
LEMMA QueuedWhere ==
    ASSUME EngineInv, NEW t \in Callers
    PROVE  /\ Queued(t, "h2d") => pc[t] \in {"launch", "d2h", "sync"}
           /\ Queued(t, "kernel") => pc[t] \in {"d2h", "sync"}
           /\ Queued(t, "d2h") => pc[t] = "sync"
<1>1. ASSUME NEW op, Queued(t, op) PROVE pc[t] \in After(op)
  BY <1>1, QueuedFacts DEF Queued, OpOwned, EngineInv, EngineTypeOK
<1> QED
  BY <1>1, SMTT(30) DEF After

\* One thread, with nothing queued, moves.
OnlyMoves(t) ==
    \A u \in Callers \ {t} : /\ pc'[u] = pc[u] /\ calls'[u] = calls[u]
                             /\ stream'[u] = stream[u] /\ handle'[u] = handle[u]

\* What is queued is not disturbed by a thread with nothing queued.
LEMMA QuietOps ==
    ASSUME EngineInv, NEW t \in Callers, NoOps(t), queued' = queued, OnlyMoves(t)
    PROVE  OpsOwned' /\ OpsOrdered' /\ NoOps(t)'
<1>1. OpsOrdered' /\ NoOps(t)'
  BY DEF EngineInv, OpsOrdered, NoOps
<1>2. ASSUME NEW s \in Streams, NEW i \in 1..Len(queued[s]) PROVE OpOwned(s, queued[s][i])'
  <2>1. OpOwned(s, queued[s][i]) /\ queued[s][i].of \in Callers \ {t}
    BY QueuedFacts, SMTT(30) DEF NoOps
  <2> QED
    BY <2>1, Zenon DEF OpOwned, OnlyMoves, Staging, Device
<1> QED
  BY <1>1, <1>2, SMTT(30) DEF OpsOwned

\* The progress of a thread that stays where it is.
LEMMA OthersProgress ==
    ASSUME PoolUse, EngineInv, NEW u \in Callers,
           pc'[u] = pc[u], calls'[u] = calls[u], handle'[u] = handle[u],
           \A op \in {"h2d", "kernel", "d2h"} : Queued(u, op)' <=> Queued(u, op),
           Inside(u) => /\ content'[Staging(u)] = content[Staging(u)]
                        /\ content'[Device(u)] = content[Device(u)]
    PROVE  Progress(u)'
<1>1. Progress(u)
  BY DEF EngineInv
<1>2. ASSUME NEW op, Queued(u, op) PROVE Inside(u)
  <2>1. stream[u] \in Streams
    BY SMTT(30) DEF EngineInv, EngineTypeOK
  <2>2. PICK i \in 1..Len(queued[stream[u]]) : queued[stream[u]][i].of = u
    BY <1>2, SMTT(30) DEF Queued
  <2> QED
    BY <2>1, <2>2, QueuedFacts, SMTT(30)
<1>3. Staging(u)' = Staging(u) /\ Device(u)' = Device(u)
  BY DEF Staging, Device
<1>4. Input(u)' = Input(u) /\ Output(u)' = Output(u)
  BY DEF Input, Output, Contents
<1> QED
  BY <1>1, <1>2, <1>3, <1>4, SMTT(30) DEF Progress, Inside

\* A step of a thread with nothing queued that queues nothing.
LEMMA QuietStep ==
    ASSUME PoolUse, EngineInv, EngineTypeOK', NEW t \in Callers, NoOps(t), queued' = queued,
           OnlyMoves(t),
           \A u \in Callers \ {t} : Inside(u) => /\ content'[Staging(u)] = content[Staging(u)]
                                                 /\ content'[Device(u)] = content[Device(u)],
           pc'[t] \notin {"launch", "d2h", "sync"},
           pc'[t] # "idle" => calls'[t] >= 1,
           pc'[t] = "h2d" => content'[Staging(t)'] = Input(t)',
           pc'[t] = "copy_out" => content'[Staging(t)'] = Output(t)',
           OwnResult'
    PROVE  EngineInv'
<1>1. OpsOwned' /\ OpsOrdered' /\ NoOps(t)'
  BY QuietOps, SMTT(30)
<1>2. ASSUME NEW u \in Callers \ {t} PROVE Progress(u)'
  <2>1. /\ pc'[u] = pc[u] /\ calls'[u] = calls[u] /\ stream'[u] = stream[u]
        /\ handle'[u] = handle[u]
    BY DEF OnlyMoves
  <2>2. \A op : Queued(u, op)' <=> Queued(u, op)
    BY <2>1, SMTT(30) DEF Queued
  <2> QED
    BY <2>1, <2>2, OthersProgress, SMTT(30)
<1>3. Progress(t)'
  <2>1. \A op : ~Queued(t, op)'
    BY <1>1, SMTT(30) DEF Queued, NoOps, EngineTypeOK
  <2> QED
    BY <2>1, SMTT(30) DEF Progress
<1> QED
  BY <1>1, <1>2, <1>3, SMTT(30) DEF EngineInv

\* Call, the acquisitions, the throws before anything is queued, the releases.
LEMMA OutsideSteps ==
    ASSUME PoolUse, EngineInv, Faults \subseteq {"staging", "device", "h2d"}, NEW t \in Callers,
           \/ Call(t)
           \/ Acquire(t, "staging", "pinned", "device") \/ Acquire(t, "device", "device", "memcpy")
           \/ AcquireThrows(t, "staging", "pinned") \/ AcquireThrows(t, "device", "device")
           \/ StepThrows(t)
           \/ Destroy(t, "free_device", "device", "free_staging")
           \/ Destroy(t, "free_staging", "pinned", "idle")
    PROVE  EngineInv'
<1>1. EngineTypeOK /\ OwnResult /\ Progress(t) /\ PoolInv /\ pc \in [Callers -> Steps]
  BY DEF EngineInv, PoolUse
<1>2. content' = content /\ queued' = queued /\ cursor' = cursor
  BY DEF Call, Acquire, AcquireThrows, StepThrows, Destroy, engineVars
<1>3. /\ pc[t] \notin {"launch", "d2h", "sync", "copy_out"}
      /\ \E step \in {"idle", "staging", "device", "memcpy", "free_device", "free_staging"} :
            Goto(t, step)
  <2>1. CASE Call(t)
    BY <2>1, SMTT(30) DEF Call
  <2>2. CASE Acquire(t, "staging", "pinned", "device") \/ Acquire(t, "device", "device", "memcpy")
    BY <2>2 DEF Acquire
  <2>3. CASE AcquireThrows(t, "staging", "pinned") \/ AcquireThrows(t, "device", "device")
    BY <2>3 DEF AcquireThrows, Throw, Unwind
  <2>4. CASE StepThrows(t)
    BY <2>4 DEF StepThrows, Throw, Unwind
  <2>5. CASE \/ Destroy(t, "free_device", "device", "free_staging")
             \/ Destroy(t, "free_staging", "pinned", "idle")
    BY <2>5 DEF Destroy
  <2> QED
    BY <2>1, <2>2, <2>3, <2>4, <2>5, SMTT(30)
<1>4. /\ pc'[t] \in {"idle", "staging", "device", "memcpy", "free_device", "free_staging"}
      /\ \A u \in Callers \ {t} : pc'[u] = pc[u]
  BY <1>1, <1>3 DEF Goto
<1>5. NoOps(t)
  BY <1>3, QuietThread, SMTT(30)
<1>6. \A u \in Callers \ {t} : handle'[u] = handle[u]
  <2>1. CASE \/ Acquire(t, "staging", "pinned", "device") \/ Acquire(t, "device", "device", "memcpy")
             \/ Destroy(t, "free_device", "device", "free_staging")
             \/ Destroy(t, "free_staging", "pinned", "idle")
    <3>1. \/ \E kind \in Kinds : AcquireCached(t, kind, bytes[t]) \/ AcquireFresh(t, kind, bytes[t])
          \/ \E kind \in Kinds : Release(t, kind)
      BY <2>1 DEF Acquire, Destroy, Kinds
    <3>2. PICK kind \in Kinds : \E buffer : handle' = [handle EXCEPT ![t][kind] = buffer]
      BY <3>1, Zenon DEF AcquireCached, AcquireFresh, Give, Release
    <3>3. PICK buffer : handle' = [handle EXCEPT ![t][kind] = buffer]
      BY <3>2, ZenonT(30)
    <3> QED
      BY <1>1, <3>3, SMTT(30) DEF PoolInv, PoolTypeOK, Handles
  <2>2. CASE \/ Call(t) \/ AcquireThrows(t, "staging", "pinned")
             \/ AcquireThrows(t, "device", "device") \/ StepThrows(t)
    BY <2>2 DEF Call, AcquireThrows, AcquireFails, StepThrows, poolVars
  <2> QED
    BY <2>1, <2>2
<1>7. /\ stream' \in [Callers -> Streams] /\ \A u \in Callers \ {t} : stream'[u] = stream[u]
  <2>1. 0 \in Streams /\ stream \in [Callers -> Streams]
    BY <1>1, EngineAssumption, SMTT(30) DEF Streams, EngineTypeOK
  <2> QED
    BY <2>1 DEF Call, Acquire, AcquireThrows, StepThrows, Destroy, engineVars
<1>8. /\ calls' \in [Callers -> Nat] /\ \A u \in Callers \ {t} : calls'[u] = calls[u]
      /\ DOMAIN returned' = Callers
      /\ pc'[t] # "idle" => calls'[t] >= 1
      /\ OwnResult'
  <2>1. calls \in [Callers -> Nat] /\ DOMAIN returned = Callers
    BY <1>1 DEF EngineTypeOK
  <2>2. CASE Call(t)
    <3>1. /\ calls' = [calls EXCEPT ![t] = @ + 1] /\ returned' = [returned EXCEPT ![t] = Nothing]
      BY <2>2 DEF Call
    <3>2. /\ calls'[t] = calls[t] + 1 /\ calls' \in [Callers -> Nat]
          /\ \A u \in Callers \ {t} : calls'[u] = calls[u]
      BY <2>1, <3>1
    <3>3. /\ DOMAIN returned' = Callers /\ returned'[t] = Nothing
          /\ \A u \in Callers \ {t} : returned'[u] = returned[u]
      BY <2>1, <3>1
    <3>4. OwnResult'
      BY <1>1, <3>2, <3>3, ZenonT(30) DEF OwnResult
    <3> QED
      BY <2>1, <3>2, <3>3, <3>4, SMTT(30)
  <2>3. CASE ~Call(t)
    <3>1. calls' = calls /\ pc[t] # "idle"
      BY <2>3 DEF Acquire, AcquireThrows, StepThrows, Throw, Destroy, engineVars
    <3>2. returned' = returned \/ returned' = [returned EXCEPT ![t] = Error]
      BY <2>3 DEF Acquire, AcquireThrows, StepThrows, Throw, Destroy, engineVars
    <3>3. DOMAIN returned' = Callers /\ OwnResult'
      BY <1>1, <2>1, <3>1, <3>2, SMTT(30) DEF OwnResult
    <3> QED
      BY <1>1, <2>1, <3>1, <3>3, SMTT(30) DEF Progress
  <2> QED
    BY <2>2, <2>3
<1>9. EngineTypeOK'
  BY <1>1, <1>2, <1>7, <1>8 DEF EngineTypeOK
<1>10. OnlyMoves(t)
  BY <1>4, <1>6, <1>7, <1>8, Zenon DEF OnlyMoves
<1> QED
  BY <1>2, <1>4, <1>5, <1>8, <1>9, <1>10, QuietStep, SMTT(30)

\* The copy to the staging buffer.
LEMMA MemcpyStep ==
    ASSUME PoolUse, EngineInv, NEW t \in Callers, Memcpy(t) PROVE EngineInv'
<1>1. EngineTypeOK /\ OwnResult /\ Progress(t) /\ pc \in [Callers -> Steps]
  BY DEF EngineInv, PoolUse
<1>2. /\ pc[t] = "memcpy" /\ Goto(t, "h2d") /\ queued' = queued /\ handle' = handle
      /\ calls' = calls /\ returned' = returned
      /\ content' = [content EXCEPT ![Staging(t)] = Input(t)]
      /\ stream' = [stream EXCEPT ![t] = cursor] /\ cursor' = (cursor + 1) % StreamCount
  BY Zenon DEF Memcpy, NextStream, poolVars, Input
<1>3. NoOps(t) /\ Inside(t)
  BY <1>2, QuietThread DEF Inside
<1>4. pc'[t] = "h2d" /\ \A u \in Callers \ {t} : pc'[u] = pc[u]
  BY <1>1, <1>2 DEF Goto
<1>5. cursor' \in Streams
  BY <1>1, <1>2, EngineAssumption, SMTT(30) DEF EngineTypeOK, Streams
<1>6. /\ stream' \in [Callers -> Streams] /\ \A u \in Callers \ {t} : stream'[u] = stream[u]
  BY <1>1, <1>2 DEF EngineTypeOK
<1>7. /\ DOMAIN content' = Blocks /\ content'[Staging(t)] = Input(t)
      /\ \A b \in Blocks : b # Staging(t) => content'[b] = content[b]
  <2>1. DOMAIN content = Blocks /\ Staging(t) \in Blocks
    BY <1>1, <1>3, InsideFacts, SMTT(30) DEF EngineTypeOK
  <2> QED
    BY <1>2, <2>1
<1>8. ASSUME NEW u \in Callers \ {t}, Inside(u)
      PROVE  content'[Staging(u)] = content[Staging(u)] /\ content'[Device(u)] = content[Device(u)]
  <2>1. /\ Staging(u) \in Blocks /\ Device(u) \in Blocks
        /\ Staging(u) # Staging(t) /\ Device(u) # Staging(t)
    BY <1>3, <1>8, InsideFacts
  <2> QED
    BY <1>7, <2>1
<1>9. EngineTypeOK'
  BY <1>1, <1>2, <1>5, <1>6, <1>7, SMTT(30) DEF EngineTypeOK
<1>10. OnlyMoves(t)
  BY <1>2, <1>4, <1>6, SMTT(30) DEF OnlyMoves
<1>11. content'[Staging(t)'] = Input(t)'
  BY <1>2, <1>7, SMTT(30) DEF Staging, Input
<1>12. OwnResult' /\ calls'[t] >= 1
  BY <1>1, <1>2, SMTT(30) DEF OwnResult, Progress
<1> QED
  BY <1>2, <1>3, <1>4, <1>8, <1>9, <1>10, <1>11, <1>12, QuietStep, ZenonT(30)

\* The wait for the stream.
LEMMA SynchronizeStep ==
    ASSUME PoolUse, EngineInv, NEW t \in Callers, Synchronize(t) PROVE EngineInv'
<1>1. EngineTypeOK /\ OwnResult /\ Progress(t) /\ pc \in [Callers -> Steps]
  BY DEF EngineInv, PoolUse
<1>2. /\ pc[t] = "sync" /\ Goto(t, "copy_out") /\ queued' = queued /\ handle' = handle
      /\ calls' = calls /\ returned' = returned /\ content' = content /\ stream' = stream
      /\ cursor' = cursor
  BY DEF Synchronize, poolVars, engineVars
<1>3. NoOps(t)
  <2> SUFFICES ASSUME NEW s \in Streams, NEW i \in 1..Len(queued[s]), queued[s][i].of = t
               PROVE  FALSE
    BY SMTT(30) DEF NoOps
  <2>1. s = stream[t] /\ queued[s][i].call = calls[t]
    BY QueuedFacts DEF OpOwned
  <2> QED
    BY <2>1 DEF Synchronize
<1>4. pc'[t] = "copy_out" /\ \A u \in Callers \ {t} : pc'[u] = pc[u]
  BY <1>1, <1>2, SMTT(30) DEF Goto
<1>5. ~Queued(t, "d2h")
  BY <1>1, <1>3, SMTT(30) DEF NoOps, Queued, EngineTypeOK
<1>6. content'[Staging(t)'] = Output(t)'
  BY <1>1, <1>2, <1>5 DEF Progress, Staging, Output
<1>7. EngineTypeOK' /\ OwnResult' /\ OnlyMoves(t)
  BY <1>1, <1>2, <1>4, ZenonT(30) DEF EngineTypeOK, OwnResult, OnlyMoves
<1>8. calls'[t] >= 1
  BY <1>1, <1>2 DEF Progress
<1> QED
  BY <1>2, <1>3, <1>4, <1>6, <1>7, <1>8, QuietStep, SMTT(30)

\* The result.
LEMMA CopyOutStep ==
    ASSUME PoolUse, EngineInv, NEW t \in Callers, CopyOut(t) PROVE EngineInv'
<1>1. EngineTypeOK /\ OwnResult /\ Progress(t) /\ pc \in [Callers -> Steps]
  BY DEF EngineInv, PoolUse
<1>2. /\ pc[t] = "copy_out" /\ Goto(t, "free_device") /\ queued' = queued /\ handle' = handle
      /\ calls' = calls /\ content' = content /\ stream' = stream /\ cursor' = cursor
      /\ returned' = [returned EXCEPT ![t] = content[Staging(t)]]
  BY DEF CopyOut, poolVars
<1>3. NoOps(t)
  BY <1>2, QuietThread
<1>4. pc'[t] = "free_device" /\ \A u \in Callers \ {t} : pc'[u] = pc[u]
  BY <1>1, <1>2, SMTT(30) DEF Goto
<1>5. /\ DOMAIN returned' = Callers /\ returned'[t] = Output(t)
      /\ \A u \in Callers \ {t} : returned'[u] = returned[u]
  BY <1>1, <1>2, SMTT(30) DEF EngineTypeOK, Progress
<1>6. OwnResult'
  BY <1>1, <1>2, <1>5, SMTT(30) DEF OwnResult, Output
<1>7. EngineTypeOK' /\ OnlyMoves(t)
  BY <1>1, <1>2, <1>4, <1>5, SMTT(30) DEF EngineTypeOK, OnlyMoves
<1>8. calls'[t] >= 1
  BY <1>1, <1>2, SMTT(30) DEF Progress
<1> QED
  BY <1>2, <1>3, <1>4, <1>6, <1>7, <1>8, QuietStep, ZenonT(30)


\* A sequence and one more element.
LEMMA AppendedFacts ==
    ASSUME NEW T, NEW q \in Seq(T), NEW o \in T, NEW longer, longer = Append(q, o)
    PROVE  /\ Len(longer) = Len(q) + 1 /\ Len(q) \in Nat
           /\ \A i \in 1..Len(q) : longer[i] = q[i]
           /\ longer[Len(q) + 1] = o
OBVIOUS

\* A sequence without its first element.
LEMMA TailFacts ==
    ASSUME NEW T, NEW q \in Seq(T), q # <<>>, NEW rest, rest = Tail(q)
    PROVE  /\ rest \in Seq(T) /\ Len(q) \in Nat /\ 1 \in 1..Len(q) /\ Len(rest) = Len(q) - 1
           /\ \A i \in 1..Len(rest) : rest[i] = q[i + 1] /\ i + 1 \in 1..Len(q)
           /\ \A i \in 1..Len(q) : i # 1 => i - 1 \in 1..Len(rest) /\ q[i] = rest[i - 1]
           /\ Head(q) = q[1] /\ q[1] \in T
<1>1. Len(q) \in Nat /\ Len(q) > 0 /\ rest \in Seq(T) /\ Len(rest) = Len(q) - 1
  OBVIOUS
<1>2. \A i \in 1..Len(rest) : rest[i] = q[i + 1]
  BY <1>1
<1>3. \A i \in 1..Len(q) : i # 1 => i - 1 \in 1..Len(rest) /\ (i - 1) + 1 = i
  BY <1>1
<1>4. \A i \in 1..Len(q) : i # 1 => q[i] = rest[i - 1]
  BY <1>2, <1>3
<1>5. Head(q) = q[1] /\ q[1] \in T
  BY <1>1
<1> QED
  BY <1>1, <1>2, <1>3, <1>4, <1>5, SMTT(30)

\* Queueing an operation.
LEMMA EnqueueStep ==
    ASSUME PoolUse, EngineInv, NEW t \in Callers, NEW step, NEW op, NEW after,
           Enqueue(t, step, op, after),
           \/ step = "h2d" /\ op = "h2d" /\ after = "launch"
           \/ step = "launch" /\ op = "kernel" /\ after = "d2h"
           \/ step = "d2h" /\ op = "d2h" /\ after = "sync"
    PROVE  EngineInv'
<1>1. /\ EngineTypeOK /\ OpsOwned /\ OpsOrdered /\ OwnResult /\ Progress(t)
      /\ pc \in [Callers -> Steps]
  BY DEF EngineInv, PoolUse
<1>2. PICK o, q, r, longer :
        /\ o = [op |-> op, of |-> t, call |-> calls[t], host |-> Staging(t), dev |-> Device(t)]
        /\ r = stream[t] /\ q = queued[r] /\ longer = Append(q, o)
  BY ZenonT(30)
<1>3. /\ pc[t] = step /\ Goto(t, after) /\ handle' = handle /\ calls' = calls
      /\ content' = content /\ stream' = stream /\ cursor' = cursor /\ returned' = returned
      /\ queued' = [queued EXCEPT ![r] = longer]
  BY <1>1, <1>2 DEF Enqueue, poolVars
<1>4. op \in {"h2d", "kernel", "d2h"} /\ Inside(t) /\ after \in After(op)
  BY <1>3, SMTT(30) DEF Inside, After
<1>5. o \in Operations /\ q \in Seq(Operations) /\ longer \in Seq(Operations)
  <2>1. Staging(t) \in Blocks /\ Device(t) \in Blocks /\ calls[t] \in Nat
    BY <1>1, <1>4, InsideFacts DEF EngineTypeOK
  <2>2. o \in Operations
    BY <1>2, <1>4, <2>1, ZenonT(30) DEF Operations
  <2>3. q \in Seq(Operations)
    BY <1>1, <1>2, SMTT(30) DEF EngineTypeOK
  <2> QED
    BY <1>2, <2>2, <2>3, SMTT(30)
<1>6. /\ o.of = t /\ o.op = op /\ o.call = calls[t] /\ o.host = Staging(t) /\ o.dev = Device(t)
      /\ r \in Streams /\ r = stream[t] /\ q = queued[r]
  BY <1>1, <1>2, SMTT(30) DEF EngineTypeOK
<1>7. /\ Len(longer) = Len(q) + 1 /\ Len(q) \in Nat
      /\ \A i \in 1..Len(q) : longer[i] = q[i]
      /\ longer[Len(q) + 1] = o
  <2>1. longer = Append(q, o)
    BY <1>2, Zenon
  <2>2. o \in Operations /\ q \in Seq(Operations)
    BY <1>5, Zenon
  <2> QED
    BY <2>1, <2>2, AppendedFacts, SMTT(20)
<1>8. queued'[r] = longer /\ \A s \in Streams \ {r} : queued'[s] = queued[s]
  BY <1>1, <1>3, <1>6, ZenonT(30) DEF EngineTypeOK
<1>9. pc'[t] = after /\ \A u \in Callers \ {t} : pc'[u] = pc[u]
  BY <1>1, <1>3 DEF Goto
<1>10. EngineTypeOK' /\ OwnResult'
  BY <1>1, <1>3, <1>5, <1>6, ZenonT(30) DEF EngineTypeOK, OwnResult
\* Each queued operation was queued before or is the new one.
<1>11. ASSUME NEW s \in Streams, NEW i \in 1..Len(queued'[s])
       PROVE  \/ i \in 1..Len(queued[s]) /\ queued'[s][i] = queued[s][i]
              \/ s = r /\ i = Len(q) + 1 /\ queued'[s][i] = o
  <2>1. CASE s = r
    BY <1>6, <1>7, <1>8, <2>1, SMTT(30)
  <2>2. CASE s # r
    BY <1>8, <2>2, SMTT(30)
  <2> QED
    BY <2>1, <2>2, SMTT(30)
\* What the thread had queued before is of a lower rank.
<1>12. ASSUME NEW s \in Streams, NEW i \in 1..Len(queued[s]), queued[s][i].of = t
       PROVE  after \in After(queued[s][i].op) /\ Rank[queued[s][i].op] < Rank[op]
  <2>1. step \in After(queued[s][i].op) /\ queued[s][i].op \in {"h2d", "kernel", "d2h"}
    BY <1>3, <1>12, QueuedFacts, ZenonT(30) DEF OpOwned
  <2>2. Rank["h2d"] = 1 /\ Rank["kernel"] = 2 /\ Rank["d2h"] = 3
    BY DEF Rank
  <2> QED
    BY <2>1, <2>2 DEF After
<1>13. OpsOwned'
  <2> SUFFICES ASSUME NEW s \in Streams, NEW i \in 1..Len(queued'[s]) PROVE OpOwned(s, queued[s][i])'
    BY SMTT(30) DEF OpsOwned
  <2>0. \A u \in Callers : Staging(u)' = Staging(u) /\ Device(u)' = Device(u)
    BY <1>3 DEF Staging, Device
  <2>1. CASE i \in 1..Len(queued[s]) /\ queued'[s][i] = queued[s][i]
    <3>1. OpOwned(s, queued[s][i]) /\ queued[s][i].of \in Callers
      BY <2>1, QueuedFacts, Zenon
    <3>2. pc'[queued[s][i].of] \in After(queued[s][i].op)
      BY <1>9, <1>12, <2>1, <3>1, ZenonT(30) DEF OpOwned
    <3> QED
      BY <1>3, <2>0, <2>1, <3>1, <3>2, ZenonT(30) DEF OpOwned
  <2>2. CASE s = r /\ queued'[s][i] = o
    BY <1>2, <1>3, <1>4, <1>6, <1>9, <2>0, <2>2, ZenonT(30) DEF OpOwned
  <2> QED
    BY <1>11, <2>1, <2>2, SMTT(30)
<1>14. OpsOrdered'
  <2> SUFFICES ASSUME NEW s \in Streams, NEW i \in 1..Len(queued'[s]), NEW j \in 1..Len(queued'[s]),
                      i < j, queued'[s][i].of = queued'[s][j].of
               PROVE  Rank[queued'[s][i].op] < Rank[queued'[s][j].op]
    BY ZenonT(30) DEF OpsOrdered
  <2>1. CASE j \in 1..Len(queued[s]) /\ queued'[s][j] = queued[s][j]
    <3>1. Len(queued[s]) \in Nat /\ (s = r => Len(queued[s]) = Len(q))
      <4>1. queued[s] \in Seq(Operations)
        BY <1>1, SMTT(30) DEF EngineTypeOK
      <4> QED
        BY <1>6, <4>1, SMTT(30)
    <3>2. i \in 1..Len(queued[s]) /\ queued'[s][i] = queued[s][i]
      BY <1>11, <2>1, <3>1, SMTT(30)
    <3>3. \A m, n \in 1..Len(queued[s]) : m < n /\ queued[s][m].of = queued[s][n].of
                                            => Rank[queued[s][m].op] < Rank[queued[s][n].op]
      BY <1>1 DEF OpsOrdered
    <3> QED
      BY <2>1, <3>2, <3>3, SMTT(30)
  <2>2. CASE s = r /\ j = Len(q) + 1 /\ queued'[s][j] = o
    <3>1. i \in 1..Len(queued[s]) /\ queued'[s][i] = queued[s][i]
      BY <1>6, <1>7, <1>11, <2>2, SMTT(30)
    <3>2. queued[s][i].of = t
      BY <1>6, <2>2, <3>1, ZenonT(30)
    <3>3. Rank[queued[s][i].op] < Rank[op]
      BY <1>12, <3>1, <3>2, ZenonT(30)
    <3> QED
      BY <1>6, <2>2, <3>1, <3>3, ZenonT(30)
  <2> QED
    BY <1>11, <2>1, <2>2, ZenonT(30)
<1>15. ASSUME NEW u \in Callers \ {t}, NEW p PROVE Queued(u, p)' <=> Queued(u, p)
  <2>1. stream[u] \in Streams /\ stream'[u] = stream[u]
    BY <1>1, <1>3 DEF EngineTypeOK
  <2>2. CASE stream[u] = r
    <3>1. Queued(u, p) <=> \E i \in 1..Len(q) : q[i].of = u /\ q[i].op = p
      BY <1>6, <2>2, SMTT(30) DEF Queued
    <3>2. Queued(u, p)' <=> \E i \in 1..(Len(q) + 1) : longer[i].of = u /\ longer[i].op = p
      BY <1>7, <1>8, <2>1, <2>2, SMTT(30) DEF Queued
    <3>3. ASSUME NEW i \in 1..(Len(q) + 1), longer[i].of = u
          PROVE  i \in 1..Len(q) /\ longer[i] = q[i]
      BY <1>6, <1>7, <3>3, SMTT(30)
    <3>4. 1..Len(q) \subseteq 1..(Len(q) + 1)
      BY <1>7, SMTT(30)
    <3> QED
      BY <1>7, <3>1, <3>2, <3>3, <3>4, ZenonT(30)
  <2>3. CASE stream[u] # r
    BY <1>8, <2>1, <2>3, SMTT(30) DEF Queued
  <2> QED
    BY <2>2, <2>3, SMTT(30)
<1>16. ASSUME NEW p PROVE Queued(t, p)' <=> (Queued(t, p) \/ p = op)
  <2>1. Queued(t, p) <=> \E i \in 1..Len(q) : q[i].of = t /\ q[i].op = p
    BY <1>6, SMTT(30) DEF Queued
  <2>2. Queued(t, p)' <=> \E i \in 1..(Len(q) + 1) : longer[i].of = t /\ longer[i].op = p
    BY <1>3, <1>6, <1>7, <1>8, SMTT(30) DEF Queued
  <2>3. /\ Len(q) + 1 \in 1..(Len(q) + 1) /\ 1..Len(q) \subseteq 1..(Len(q) + 1)
        /\ \A i \in 1..(Len(q) + 1) : i = Len(q) + 1 \/ i \in 1..Len(q)
    BY <1>7
  <2>4. (\E i \in 1..(Len(q) + 1) : longer[i].of = t /\ longer[i].op = p)
          <=> \/ \E i \in 1..Len(q) : longer[i].of = t /\ longer[i].op = p
              \/ longer[Len(q) + 1].of = t /\ longer[Len(q) + 1].op = p
    BY <2>3, Zenon
  <2> QED
    BY <1>6, <1>7, <2>1, <2>2, <2>4, SMTT(30)
<1>17. ASSUME NEW u \in Callers \ {t} PROVE Progress(u)'
  BY <1>3, <1>9, <1>15, OthersProgress, ZenonT(30)
<1>18. Progress(t)'
  <2>1. Staging(t)' = Staging(t) /\ Device(t)' = Device(t) /\ Input(t)' = Input(t)
        /\ Output(t)' = Output(t)
    BY <1>3 DEF Staging, Device, Input, Output, Contents
  <2>2. step = "h2d" => NoOps(t)
    BY <1>3, QuietThread, SMTT(30)
  <2>3. step = "h2d" => \A p : ~Queued(t, p)
    BY <1>1, <2>2, SMTT(30) DEF NoOps, Queued, EngineTypeOK
  <2>4. step = "launch" => ~Queued(t, "kernel") /\ ~Queued(t, "d2h")
    BY <1>3, QueuedWhere
  <2>5. step = "d2h" => ~Queued(t, "d2h")
    BY <1>3, QueuedWhere
  <2> QED
    BY <1>1, <1>3, <1>9, <1>16, <2>1, <2>3, <2>4, <2>5, ZenonT(30) DEF Progress
<1> QED
  BY <1>10, <1>13, <1>14, <1>17, <1>18, SMTT(30) DEF EngineInv

\* The device executes an operation.
LEMMA ExecuteStep ==
    ASSUME PoolUse, EngineInv, NEW r \in Streams, Execute(r) PROVE EngineInv'
<1>1. /\ EngineTypeOK /\ OpsOwned /\ OpsOrdered /\ OwnResult
      /\ \A u \in Callers : Progress(u)
  BY DEF EngineInv
<1>2. PICK q, o, t, rest : q = queued[r] /\ o = Head(q) /\ t = o.of /\ rest = Tail(q)
  BY Zenon
<1>3. /\ handle' = handle /\ calls' = calls /\ stream' = stream /\ cursor' = cursor
      /\ returned' = returned /\ pc' = pc /\ queued' = [queued EXCEPT ![r] = rest]
      /\ q # <<>>
  BY <1>1, <1>2, SMTT(30) DEF Execute, poolVars
<1>4. q \in Seq(Operations) /\ rest \in Seq(Operations)
  <2>1. q \in Seq(Operations)
    BY <1>1, <1>2, SMTT(30) DEF EngineTypeOK
  <2> QED
    BY <1>2, <1>3, <2>1, TailFacts, SMTT(30)
<1>5. /\ Len(q) \in Nat /\ 1 \in 1..Len(q) /\ Len(rest) = Len(q) - 1
      /\ o = q[1] /\ t = o.of /\ q = queued[r]
  BY <1>2, <1>3, <1>4, TailFacts, SMTT(30)
<1>6. /\ \A i \in 1..Len(rest) : rest[i] = q[i + 1] /\ i + 1 \in 1..Len(q)
      /\ \A i \in 1..Len(q) : i # 1 => i - 1 \in 1..Len(rest) /\ q[i] = rest[i - 1]
  BY <1>2, <1>3, <1>4, TailFacts
<1>7. /\ t \in Callers /\ o.op \in {"h2d", "kernel", "d2h"} /\ Inside(t)
      /\ pc[t] \in After(o.op) /\ r = stream[t] /\ o.host = Staging(t) /\ o.dev = Device(t)
  BY <1>5, QueuedFacts, ZenonT(30) DEF OpOwned
<1>8. queued'[r] = rest /\ \A s \in Streams \ {r} : queued'[s] = queued[s]
  BY <1>1, <1>3 DEF EngineTypeOK
<1>9. /\ Staging(t) \in Blocks /\ Device(t) \in Blocks /\ Staging(t) # Device(t)
      /\ DOMAIN content = Blocks
  BY <1>1, <1>7, InsideFacts, ZenonT(30) DEF EngineTypeOK
<1>10. /\ o.op = "h2d" => content' = [content EXCEPT ![Device(t)] = content[Staging(t)]]
       /\ o.op = "kernel" => content' = [content EXCEPT ![Device(t)] = Normalize(@)]
       /\ o.op = "d2h" => content' = [content EXCEPT ![Staging(t)] = content[Device(t)]]
  BY <1>2, <1>7, ZenonT(30) DEF Execute
<1>11. /\ DOMAIN content' = Blocks
       /\ \A b \in Blocks \ {Staging(t), Device(t)} : content'[b] = content[b]
  BY <1>7, <1>9, <1>10
<1>12. EngineTypeOK' /\ OwnResult'
  BY <1>1, <1>3, <1>4, <1>11, ZenonT(30) DEF EngineTypeOK, OwnResult
<1>13. OpsOwned'
  <2> SUFFICES ASSUME NEW s \in Streams, NEW i \in 1..Len(queued'[s]) PROVE OpOwned(s, queued[s][i])'
    BY DEF OpsOwned
  <2>1. PICK j \in 1..Len(queued[s]) : queued'[s][i] = queued[s][j]
    <3>1. CASE s = r
      BY <1>5, <1>6, <1>8, <3>1, ZenonT(30)
    <3>2. CASE s # r
      BY <1>8, <3>2, ZenonT(30)
    <3> QED
      BY <3>1, <3>2
  <2>2. OpOwned(s, queued[s][j])
    BY <1>1, SMTT(30) DEF OpsOwned
  <2> QED
    BY <1>3, <2>1, <2>2, ZenonT(30) DEF OpOwned, Staging, Device
<1>14. OpsOrdered'
  <2> SUFFICES ASSUME NEW s \in Streams, NEW i \in 1..Len(queued'[s]), NEW j \in 1..Len(queued'[s]),
                      i < j, queued'[s][i].of = queued'[s][j].of
               PROVE  Rank[queued'[s][i].op] < Rank[queued'[s][j].op]
    BY DEF OpsOrdered
  <2>1. CASE s = r
    <3>1. queued'[s] = rest /\ queued[s] = q
      BY <1>5, <1>8, <2>1, SMTT(30)
    <3>2. /\ i + 1 \in 1..Len(q) /\ j + 1 \in 1..Len(q) /\ i + 1 < j + 1
          /\ queued'[s][i] = q[i + 1] /\ queued'[s][j] = q[j + 1]
      BY <1>6, <3>1, SMTT(30)
    <3>3. \A m, n \in 1..Len(q) : m < n /\ q[m].of = q[n].of => Rank[q[m].op] < Rank[q[n].op]
      BY <1>1, <3>1, SMTT(30) DEF OpsOrdered
    <3> QED
      BY <3>2, <3>3, SMTT(30)
  <2>2. CASE s # r
    BY <1>1, <1>8, <2>2, SMTT(30) DEF OpsOrdered
  <2> QED
    BY <2>1, <2>2, SMTT(30)
\* The operations of the thread that stay queued are of a higher rank.
<1>15. ASSUME NEW i \in 1..Len(q), i # 1, q[i].of = t PROVE Rank[o.op] < Rank[q[i].op]
  <2>1. \A m, n \in 1..Len(q) : m < n /\ q[m].of = q[n].of => Rank[q[m].op] < Rank[q[n].op]
    BY <1>1, <1>5 DEF OpsOrdered
  <2> QED
    BY <1>5, <1>15, <2>1, SMTT(30)
<1>16. Rank["h2d"] = 1 /\ Rank["kernel"] = 2 /\ Rank["d2h"] = 3
  BY DEF Rank
<1> DEFINE Listed(u, p) == \E i \in 1..Len(q) : q[i].of = u /\ q[i].op = p
           Later(u, p) == \E i \in 1..Len(q) : i # 1 /\ q[i].of = u /\ q[i].op = p
<1> HIDE DEF Listed, Later
<1>17. ASSUME NEW u \in Callers, stream[u] = r, NEW p
       PROVE  (Queued(u, p) <=> Listed(u, p)) /\ (Queued(u, p)' <=> Later(u, p))
  <2>1. Queued(u, p) <=> \E i \in 1..Len(q) : q[i].of = u /\ q[i].op = p
    BY <1>5, <1>17, SMTT(30) DEF Queued
  <2>2. Queued(u, p)' <=> \E i \in 1..Len(rest) : rest[i].of = u /\ rest[i].op = p
    BY <1>3, <1>8, <1>17, SMTT(30) DEF Queued
  <2>3. ASSUME NEW i \in 1..Len(rest), rest[i].of = u, rest[i].op = p
        PROVE  \E j \in 1..Len(q) : j # 1 /\ q[j].of = u /\ q[j].op = p
    <3>1. i + 1 # 1
      BY <1>5
    <3> QED
      BY <1>6, <2>3, <3>1
  <2>4. ASSUME NEW j \in 1..Len(q), j # 1, q[j].of = u, q[j].op = p
        PROVE  \E i \in 1..Len(rest) : rest[i].of = u /\ rest[i].op = p
    BY <1>6, <2>4, ZenonT(30)
  <2> QED
    BY <2>1, <2>2, <2>3, <2>4, ZenonT(30) DEF Listed, Later
<1>18. ASSUME NEW u \in Callers \ {t} PROVE Progress(u)'
  <2>1. \A p : Queued(u, p)' <=> Queued(u, p)
    <3>1. CASE stream[u] = r
      <4>1. \A p : Listed(u, p) <=> Later(u, p)
        BY <1>5, Zenon DEF Listed, Later
      <4> QED
        BY <1>17, <3>1, <4>1, ZenonT(30)
    <3>2. CASE stream[u] # r
      BY <1>1, <1>3, <1>8, <3>2, ZenonT(30) DEF Queued, EngineTypeOK
    <3> QED
      BY <3>1, <3>2
  <2>2. Inside(u) => /\ content'[Staging(u)] = content[Staging(u)]
                     /\ content'[Device(u)] = content[Device(u)]
    BY <1>7, <1>11, InsideFacts, SMTT(30)
  <2> QED
    BY <1>3, <2>1, <2>2, OthersProgress, SMTT(30)
<1>19. Progress(t)'
  <2>1. ASSUME NEW p \in {"h2d", "kernel", "d2h"}
        PROVE  /\ Queued(t, p)' <=> Queued(t, p) /\ p # o.op
               /\ Queued(t, p) => Rank[o.op] <= Rank[p]
    <3>1. (Queued(t, p) <=> Listed(t, p)) /\ (Queued(t, p)' <=> Later(t, p))
      <4>1. t \in Callers /\ stream[t] = r
        BY <1>7, ZenonT(30)
      <4> QED
        BY <1>17, <4>1, Zenon
    <3>2. /\ \A i \in 1..Len(q) : q[i].of = t /\ q[i].op = p /\ i # 1 => Rank[o.op] < Rank[p]
          /\ Rank[o.op] \in Int /\ Rank[p] \in Int
      BY <1>7, <1>15, <1>16, SMTT(30)
    <3>3. ASSUME NEW i \in 1..Len(q), i # 1, q[i].of = t, q[i].op = p PROVE p # o.op
      BY <3>2, <3>3, SMTT(30)
    <3>4. ASSUME NEW i \in 1..Len(q), q[i].of = t, q[i].op = p PROVE i # 1 \/ p = o.op
      BY <1>5, <3>4
    <3>5. Queued(t, p)' <=> Queued(t, p) /\ p # o.op
      BY <3>1, <3>3, <3>4, ZenonT(30) DEF Listed, Later
    <3>6. Queued(t, p) => Rank[o.op] <= Rank[p]
      BY <3>1, <3>2, <3>4 DEF Listed
    <3> QED
      BY <3>5, <3>6
  <2>2. /\ Queued(t, "h2d")' <=> Queued(t, "h2d") /\ o.op # "h2d"
        /\ Queued(t, "kernel")' <=> Queued(t, "kernel") /\ o.op # "kernel"
        /\ Queued(t, "d2h")' <=> Queued(t, "d2h") /\ o.op # "d2h"
        /\ Queued(t, "h2d") => Rank[o.op] <= Rank["h2d"]
        /\ Queued(t, "kernel") => Rank[o.op] <= Rank["kernel"]
    BY <2>1, ZenonT(30)
  <2>3. /\ Staging(t)' = Staging(t) /\ Device(t)' = Device(t) /\ Input(t)' = Input(t)
        /\ Output(t)' = Output(t)
    BY <1>3 DEF Staging, Device, Input, Output, Contents
  <2>0. Queued(t, o.op)
    <3>1. q[1].of = t /\ q[1].op = o.op /\ stream[t] = r
      BY <1>2, <1>5, <1>7, ZenonT(30)
    <3> QED
      BY <1>5, <1>7, <1>17, <3>1, ZenonT(30) DEF Listed
  <2>4. CASE o.op = "h2d"
    <3>0. Queued(t, "h2d") /\ (Queued(t, "d2h") => pc[t] = "sync")
      BY <1>7, <2>0, <2>4, QueuedWhere, ZenonT(30)
    <3>1. /\ ~Queued(t, "h2d")'
          /\ Queued(t, "kernel")' <=> Queued(t, "kernel")
          /\ Queued(t, "d2h")' <=> Queued(t, "d2h")
      BY <2>2, <2>4
    <3>2. pc[t] \in {"launch", "d2h", "sync"}
      BY <1>7, <2>4, SMTT(30) DEF After
    <3>3. content'[Device(t)] = Input(t)
      BY <1>1, <1>7, <1>9, <1>10, <2>4, <3>0, SMTT(30) DEF Progress
    <3> QED
      BY <1>1, <1>3, <1>7, <2>3, <3>0, <3>1, <3>2, <3>3, ZenonT(30) DEF Progress
  <2>5. CASE o.op = "kernel"
    <3>0. Queued(t, "kernel") /\ pc[t] \in {"d2h", "sync"}
      BY <1>7, <2>0, <2>5, QueuedWhere, SMTT(30)
    <3>1. /\ ~Queued(t, "h2d") /\ ~Queued(t, "h2d")' /\ ~Queued(t, "kernel")'
          /\ Queued(t, "d2h")' <=> Queued(t, "d2h")
      BY <1>16, <2>2, <2>5
    <3>2. content[Device(t)] = Input(t) /\ calls[t] >= 1
      BY <1>1, <1>7, <3>0, <3>1, ZenonT(30) DEF Progress
    <3>3. Normalize(Input(t)) = Output(t)
      BY <3>2 DEF Normalize, Input, Output, Contents, Nothing
    <3>4. content'[Device(t)] = Output(t)
      BY <1>9, <1>10, <2>5, <3>2, <3>3, SMTT(30)
    <3> QED
      BY <1>1, <1>3, <1>7, <2>3, <3>0, <3>1, <3>4, ZenonT(30) DEF Progress
  <2>6. CASE o.op = "d2h"
    <3>0. Queued(t, "d2h") /\ pc[t] = "sync"
      BY <1>7, <2>0, <2>6, QueuedWhere, ZenonT(30)
    <3>1. /\ ~Queued(t, "h2d") /\ ~Queued(t, "kernel")
          /\ ~Queued(t, "h2d")' /\ ~Queued(t, "kernel")' /\ ~Queued(t, "d2h")'
      BY <1>16, <2>2, <2>6, SMTT(30)
    <3>2. content'[Staging(t)] = Output(t)
      BY <1>1, <1>7, <1>9, <1>10, <2>6, <3>0, <3>1, SMTT(30) DEF Progress
    <3> QED
      BY <1>1, <1>3, <1>7, <2>3, <3>0, <3>1, <3>2, ZenonT(30) DEF Progress
  <2> QED
    BY <1>7, <2>4, <2>5, <2>6, SMTT(30)
<1> QED
  BY <1>12, <1>13, <1>14, <1>18, <1>19, SMTT(30) DEF EngineInv

\* EngineInv is inductive where PoolUse holds.
LEMMA EngineInvariant ==
    ASSUME Faults \subseteq {"staging", "device", "h2d"} PROVE Spec => []EngineInv
<1>1. Init => EngineInv
  <2> SUFFICES ASSUME Init PROVE EngineInv
    OBVIOUS
  <2>1. EngineTypeOK
    BY EngineAssumption DEF Init, EngineTypeOK, Streams
  <2>2. \A s \in Streams : 1..Len(queued[s]) = {}
    BY DEF Init
  <2>3. OpsOwned /\ OpsOrdered
    BY <2>2, Zenon DEF OpsOwned, OpsOrdered
  <2>4. ASSUME NEW t \in Callers PROVE Progress(t)
    <3>1. pc[t] = "idle" /\ \A op : ~Queued(t, op)
      BY <2>1, <2>2 DEF Init, Queued, EngineTypeOK
    <3> QED
      BY <3>1, ZenonT(30) DEF Progress
  <2>5. OwnResult
    BY DEF Init, OwnResult
  <2> QED
    BY <2>1, <2>3, <2>4, <2>5 DEF EngineInv
<1>2. PoolUse /\ EngineInv /\ [Next]_vars => EngineInv'
  <2> SUFFICES ASSUME PoolUse, EngineInv, [Next]_vars PROVE EngineInv'
    OBVIOUS
  <2>1. ASSUME NEW t \in Callers, Thread(t) PROVE EngineInv'
    BY <2>1, OutsideSteps, MemcpyStep, EnqueueStep, SynchronizeStep, CopyOutStep, SMTT(30) DEF Thread
  <2>2. ASSUME NEW s \in Streams, Execute(s) PROVE EngineInv'
    BY <2>2, ExecuteStep
  <2>3. CASE TrimPool \/ UNCHANGED vars
    <3>1. UNCHANGED <<handle, pc, engineVars>>
      BY <2>3 DEF TrimPool, Trim, vars, poolVars
    <3>2. /\ handle' = handle /\ pc' = pc /\ calls' = calls /\ stream' = stream /\ cursor' = cursor
          /\ queued' = queued /\ content' = content /\ returned' = returned
      BY <3>1 DEF engineVars
    <3>3. EngineTypeOK' /\ OpsOrdered' /\ OwnResult'
      BY <3>2, Zenon DEF EngineInv, EngineTypeOK, OpsOrdered, OwnResult
    <3>4. OpsOwned'
      BY <3>2, ZenonT(30) DEF EngineInv, OpsOwned, OpOwned, Staging, Device
    <3>5. ASSUME NEW t \in Callers PROVE Progress(t)'
      <4>1. \A op : Queued(t, op)' <=> Queued(t, op)
        BY <3>2 DEF Queued
      <4> QED
        BY <3>2, <4>1, OthersProgress, Zenon
    <3> QED
      BY <3>3, <3>4, <3>5 DEF EngineInv
  <2> QED
    BY <2>1, <2>2, <2>3 DEF Next
<1> QED
  BY <1>1, <1>2, PoolUseInvariant, PTL DEF Spec

\* "safe to call run_inference() from multiple threads": with any number of
\* threads and streams, every call that returns gives back its own batch
\* normalised once, when the CUDA calls that fail are the allocations and the
\* first copy.  A call that fails later leaves work in flight on buffers it
\* releases, which IdleWhenReleased is about.
THEOREM EveryCallGetsItsResult ==
    ASSUME Faults \subseteq {"staging", "device", "h2d"} PROVE Spec => []OwnResult
<1>1. EngineInv => OwnResult
  BY DEF EngineInv
<1> QED
  BY <1>1, EngineInvariant, PTL
=============================================================================
