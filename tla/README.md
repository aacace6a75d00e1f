# A TLA+ model of the CUDA inference server

The server batches image-classification requests. This directory models the
parts of it in which threads, callbacks, devices, files and shutdown meet, checks
them with TLC on small instances, and proves most of their safety properties with
TLAPS for every instance.

## The system

A request passes these parts, in this order:

1. **ASGI middleware** (`python/cuda_db/server/`): request logging, API-key
   authentication, then admission control, which bounds the requests in flight
   and gives each a deadline.
2. **Routes** (`routes.py`): validate the input, submit one call to a thread
   pool, attach the call to the request's admission lease, await it.
3. **Native binding** (`cpp/src/bindings/module.cpp`): `predict` pushes the input
   on the scheduler's queue and blocks on a future.
4. **Scheduler** (`cpp/src/scheduler/`): one worker thread drains the queue into
   batches, runs the engine and resolves the promises.
5. **Engines** (`cpp/src/engine/`): a stub, a CUDA normalisation engine, and an
   ONNX Runtime engine that pads batches to buckets.

Beside the request path, `cpp/src/memory/` pools device and pinned memory for the
CUDA engine, `cpp/tools/bench_engine.cpp` times the ONNX engine, and `python/cuda_db/security/keys.py` is the command that edits the
API-key file the server loads when it starts.

The **lifespan** (`app.py`) builds all this, probes it with one inference, and
takes it down in order.

## Inventory and modules

| Part of the code | Module | State |
| --- | --- | --- |
| request queue, scheduler | `Scheduler` | modelled, every lock and notification |
| the same with a clock | `BatchWindow` | modelled, coarser steps |
| what the scheduler promises | `BatchService` | abstract specification |
| `InferenceRuntime` and the GIL | `Runtime` (extends `BatchWindow`) | modelled |
| admission controller, lease, middleware, route | `Admission` | modelled |
| lifespan, probe, authentication gate | `Server` (extends `Admission`) | modelled |
| memory pool | `MemoryPool`, `EngineLifetime` | modelled but for the pooled handle's move assignment |
| CUDA engine, stream pool | `CudaEngine` (extends `MemoryPool`) | concurrent calls |
| kernel, stub engine | `NormalizeKernel` | every thread of the grid; no arithmetic |
| construction and destruction of the engines, raw buffers | `EngineLifetime` (extends `NormalizeKernel`) | modelled |
| ONNX engine | `OnnxEngine` | modelled; ONNX Runtime and the model are external |
| the engine's clients: scheduler, `bench_engine` | `EngineClients` (extends `OnnxEngine`) | modelled |
| API-key store (`security/keys.py`) | `KeyStore` | modelled |
| configuration, schemas, image decoding, load tests, docker | none | see "Not modelled" |

The theorems are in eight modules: `SchedulerProofs` (on the lemmas of
`SchedulerStepProofs`), `RuntimeProofs`, `ServerProofs`, `KeyStoreProofs`,
`CudaEngineProofs` (on the lemmas of `MemoryPoolProofs`) and `OnnxEngineProofs`,
which covers `OnnxEngine` and `EngineClients`. The modules named
`MC...` instantiate the specifications for TLC; `EngineLifetime` needs none.
Operators whose comment begins with "Mutant" are faulty variants of the
definition after them; no specification uses them.

### Scheduler

`queue`, `stop_requested`, `running`, the counters `stats` and the promises are
the code's. `worker` says where `run_loop` is, `client[r]` where a caller of
`predict` is, `control` where the thread that calls `start`/`stop` is.
`accepted` is a history of the requests `push` took.

- Lock-protected regions are one step. The `notify` calls come after the unlock
  and are steps of their own, so a request may be drained before its notify.
- `wait_and_drain` has its two waits: `parked` for the first arrival, `window` for
  more. Spurious wake-ups are allowed; time is the step `WindowExpires`.
- Every promise of a batch is a step of its own, and so is every counter's update,
  except that the queue waits of a batch are added to their total and their maximum
  in one step each (`Count`), where the loop of `scheduler.cpp` (172-184) adds them
  request by request.
- A throw while slicing (`SliceThrows`) is possible if `MayExhaustMemory`. Setting
  a satisfied promise raises `std::future_error`; raised in the catch block it
  ends the process (`Abort`).
- Data: a request is a model value, its input is itself, and an output row is the
  request it was computed from.

Not modelled: allocations of lines 145-191, outside the `try`; an engine that
never returns; `stop()` before `start()`; durations (each counts one unit).
Mis-sized requests reach the queue only through `Scheduler::submit`, since the
route checks the size first.

### BatchWindow and Runtime

`BatchWindow` is the queue and the worker again, with time: `window` is what is left
of `wait_for`, `exec` what is left of the engine call, and `Elapse` is possible
only while the worker is in a wait. A batch answers its requests by identity: that a
row's position in the batch is the right one is `OwnRow` of `Scheduler`, and `OwnAnswer`
is about ids, threads and refusals. Locks and notifications, which `Scheduler` has,
are folded into the steps; a batch is drained and counted at once.

`Runtime` is the object Python holds. `gil` is the thread that has the interpreter
lock, `caller[r]` where a `predict` is, `main` where the thread that made the
runtime is. `predict` takes its id with the GIL, submits and waits without it, and
takes it again to build its result. `stats` keeps the GIL and reads the counters
before the queue's size. `shutdown` releases the GIL around `stop()`; `__exit__` and
the destructor keep it while they join the worker. `age[r]` and `ahead[r]`, the time
a call has taken and how many requests were queued before it, are histories for
`LatencyBounded`. Time passes only when no thread could go on at once (`Urgent`):
the bound is about waits, not about a loaded processor. One thread stops the
runtime; `Scheduler::stop` is not claimed to be safe from two at once.

### Admission

`mw[r]` is the middleware of a request, `app[r]` its downstream task, `work[r]` its
native call, `lease[r]` the flags of `AdmissionLease` that are set. The event loop runs one
callback at a time: each stretch between two awaits is a step, and `LoopFree`
keeps the loop's steps out of the middle of a release. Executor threads
interleave with the loop freely.

- The deadline is `expired[r]`, which may become true at any time after admission.
- The client may disconnect and the server may cancel the middleware at each
  await (`Abandoned` says for which requests).
- Responses are counted, not described; bodies are complete, late, or too large.
- The executor takes queued calls in any order, which includes its FIFO order.
- `Deliver` (the event-loop callback) and `WorkDone` (the executor's) come in either order.
- A native call ends well, with `InferenceError`, or with another exception. The
  handler that turns a `ValueError` into 400 (`app.py:170`) is left out: `predict`
  raises one only for an array of the wrong size, and the routes refuse that first
  (`RefuseInput`).

### Server

`Server` extends `Admission` with the lifespan's program counter `phase`, the key
set, the executor `pool`, the `runtime` and the `probe`. `Keyed` requests carry a
valid key; others are refused before they are admitted.

### MemoryPool and CudaEngine

`MemoryPool` has the free lists, the blocks the allocator handed out, each caller's
handles and the three gauges of `MemoryPoolStats`. Every operation runs under the
pool's mutex and is one step. The three ever-growing counters, which no code
reads back, are left out.

`CudaEngine` takes `run_inference` step by step on several threads: acquire twice,
stage, pick a stream, queue two copies and the kernel, synchronise, copy out,
release in reverse order. The device executes each stream in order, and a copy
reads its source when it is executed. `Faults` names the CUDA calls that may fail;
a failure unwinds the handles acquired so far. A block's content is the call
whose input it holds and how often it was normalised.

### OnnxEngine

The constructor with its fallback to the host path, the warm-up, the choice of
bucket and path, and the bound path's steps over the four persistent buffers and
the copy stream. One thread calls it, as the scheduler does. Row `i` of the output
is taken to depend on row `i` of the input only. Malformed arguments, which throw
before any effect, are left out.

### NormalizeKernel and EngineLifetime

`NormalizeKernel` has the launch checks, the capped grid, and one turn of a thread's
loop as a step. An element of the tensor is the row and column it came from and
the channels whose constants were applied to it. `CopyRows` is the stub engine's
copy, which the CUDA engine repeats.

`EngineLifetime` builds an engine of one of the three kinds, calls it and destroys it.
`built` is the stack of members constructed so far, popped by the destructor and by an
exception that leaves the constructor. Each CUDA call of a constructor may fail.
`heap` and `driver` are what the CUDA runtime has handed out; `buffer`, `handle`,
`cached`, `streams` and `stream` are the owners. The ONNX engine's buffers are made
as the code does, a temporary that is moved into the member. `Double` is the loop of
`bucket_for` in `Width` bits. A failure after the launch is left to `CudaEngine`. Left
out: the checks that an input has the announced size (`cuda_execution_engine.cpp:89`,
`execution_engine.cpp:28`), which throw before any effect and which the scheduler's
validated batches pass; and the casts to `int` for the launch (113-114), which change
nothing below 2^31 rows and 2^31 elements per channel.

### EngineClients

Who calls the ONNX engine, and with what: the server, whose one bucket `make_engine`
derives from the largest batch; `bench_engine`, with its rows, warm-ups, samples and
varying phase; and any calls, as the engine's tests make. `plan` is the shape of the
session's last run, the only one ONNX Runtime keeps a plan for. All of `OnnxEngine`'s
steps, options and failures are included.

### KeyStore

Each process runs one `generate` or `revoke`: lock, read, write and flush a
temporary file, rename, flush the directory, unlock. Every system call may fail,
a process may be killed at each step (the kernel then drops its lock), and the
machine may lose power. `store` is what the path names now; `disk` is the set of
what it may name after a power loss. Each rename adds to `disk`, the directory
flush leaves one. A file renamed before its data was flushed may come back torn.

## Runs

| Run | Shows |
| --- | --- |
| `scheduler_safety` | drained at exit, own row, no lost wake-up, counters agree; `Scheduler` implements `BatchService` |
| `scheduler_live` | no promise is set twice without memory exhaustion; counters are settled when the last promise is set, also with `reset_stats()`; every accepted request is answered; `stop()` returns |
| `scheduler_abort` (violation) | an allocation failure in slicing aborts the process |
| `runtime_predict` | each `predict` gets its own answer and id, within the bound; `stats` counts none twice; every `predict` and every `stop` returns, whoever holds the GIL |
| `admission_readiness` (violation) | a failure other than `InferenceError` leaves the server ready |
| `server_lifespan` | in the whole server: one release per permit, bounded native work, one response per request; drained means idle, no call on a stopped runtime; ready only when probed and serving; permits return, late failures are noticed, start-up decides, shutdown completes |
| `cudaengine_results` | concurrent calls get their own batch, normalised once; every pool block in one place, gauges right; a bucket never has more blocks than callers |
| `cudaengine_inflight` (violation) | an error after the first copy releases buffers in use |
| `engine_lifetime` | every allocation and stream has one owner whatever fails; rows in place, normalised once, for any grid; constructors, calls and destructors end |
| `onnx_clients` | own rows in order, within the buffers, no uninitialised memory, after any failure; the server never re-plans; `bench_engine` times warm shapes and reports each row's own median |
| `onnx_normalize` (violation) | a batch past the last bucket is returned un-normalised although normalisation was asked for |
| `keystore_commands` | never torn; acknowledged changes are durable; no lost update; every command ends |

Four properties are violated, and say where the code differs from its text:

- `FailuresAreCatchable`: the comment in `module.cpp` (170-171) promises a catchable
  exception "rather than an abort", but `scheduler.cpp:222` sets an exception on
  promises that may be satisfied.
- `EngineFailureUnready`: the README (123-125) says `/readyz` is 503 "after an engine
  failure"; `routes.py:40` reacts to `InferenceError` only, and a `CudaError`
  arrives as a plain `RuntimeError`.
- `IdleWhenReleased`: `memory_pool.hpp` (20-24) forbids destroying a handle under
  in-flight work; when `launch_normalize`, the second copy or the synchronisation
  fails, `cuda_execution_engine.cpp` (113-120) does so. `cudaengine_results` therefore
  restricts `Faults` to the calls up to the first copy: with the later ones a call
  that reuses the blocks can return a wrong batch.
- `NormalizedWhenAsked`: `onnx_execution_engine.cpp` (142-144) refuses
  `normalize_on_device` without the bound path, since the host path would have
  "silently skipped normalization -- producing plausible, wrong predictions", and
  229-232 refuses to fall back for the same reason. A batch past the last bucket, or
  any batch when there is no bucket, takes that path all the same (336).
  `FittingBatchesNormalized` proves that these are the only ones. The server's
  binding does not set the option.

Smaller differences met while modelling, which the models exhibit and no run is
spent on:

- `cuda_execution_engine.hpp` (23-25) says concurrent batches land on different
  streams. Round-robin does not ensure it: a thread that finishes early is given
  the stream of a batch still running. `OwnResult` holds anyway.
- `onnx_execution_engine.cpp` (341-342) says the padded tail "was zeroed at
  construction and never changes". A larger batch overwrites it. `OwnRows` and
  `PaddingInitialised` hold anyway.
- `request_queue.cpp` (44-48, 52-53, 77) times the window from the first request's
  arrival. `wait_for` starts when the worker gets to phase 2, so a request that
  arrived during a batch waits for the rest of it and a whole window.
  `LatencyBounded` states the bound that holds.
- When `cudaStreamCreateWithFlags` fails, `cuda_stream_pool.cpp` (16-24) leaves the
  streams made before to nobody, since the destructor of an object that was not
  constructed does not run. `SingleOwner` excepts exactly these (`lost`).
- `bench_engine.cpp` (81-83) reports the path so that no row is mislabelled, once
  for all rows; a batch of 16 passes the largest default bucket and is timed on the
  host path under "io_binding active: yes".

### Bounds

Four requests with one mis-sized fill two batches of two and leave one request
to arrive while a batch runs (`scheduler_safety`); the liveness run has two, one of
them mis-sized, since counter resets multiply its states. A batch of it has at most one
valid row; that `WorkerSurvives` holds for larger ones is `NoAbort`. A wait of zero, for which the
window vanishes, is covered by the proofs. Three `predict` calls and batches of two let one
arrive while a batch is in the engine, so that it waits for a batch, a window and its
own; two stops are enough for one to follow another.

Two requests for one permit let every abandonment race the successor's admission,
and a third without a key is refused before it. Larger capacities are covered by
`ServerProofs`.

Two CUDA threads with two batches each reuse blocks and streams of each other; they
use one size, since lists of different buckets do not interact. A grid of at most two
blocks of two threads is partial, full and capped for tensors of up to eight elements.
Eight is also the largest power of two of `Width` = 4 bits: the largest batch is the
last size for which `bucket_for` ends. Larger ones, past half the address space, cannot
be allocated (`LifetimeAssumption`).

The ONNX bucket lists are none, one, two, one with a zero, and one that is not
ascending; batches of up to three rows are below, at and above the last bucket, and
two calls let the second find what the first left. `bench_engine`'s three rows, one
warm-up and two samples are the smallest numbers in which a row can inherit another's
plan or samples.

The key commands are two `generate` on different ids and a `revoke` of the first, from
every initial store; power may fail any number of times. Deadlock checking is off:
every one of these systems may stop, or have no more requests.

### Fairness

Threads that can run do run (weak fairness of the worker, of a started `stop()`, of
each notify, of the loop and executor steps of each request). `WindowExpires` has
strong fairness: the deadline of `wait_until` is fixed, and wake-ups for new
arrivals only interrupt the wait. `Expire` is fair because a deadline passes. No
fairness is assumed of arrivals, disconnections or the decision to shut down.
Engines are assumed to return or throw. A running key command goes on, and one that
waits gets a lock that stays free; kills, failures and power losses are not fair.
In `Runtime` the worker, each `predict` and a started `stop()` go on when they can,
and time passes; calls and stops need not come. In `EngineLifetime` a constructor, a
destructor or a call that has begun goes on.

A liveness property is stated as "again and again nothing is pending" where what is
pending happens at most once per request or stop.

## Proofs

Every theorem is about all values of the constants that the named assumptions of its
module allow. The form is always the same: the properties are not inductive, so a
stronger invariant is stated, and the proof shows that the initial states have it, that
every action keeps it (one lemma per action or group of actions) and that it implies
the properties.

### Scheduler (`SchedulerStepProofs`, `SchedulerProofs`)

For any set of requests, any batch size of at least one and any wait
(`SchedulerAssumption`, which the configuration guarantees):

- `TypeCorrect`, `DrainedAtExit`, `OwnRowAlways`, `NoAbort`, `WakeupsAreNotLost`;
- `CountersAlwaysAgree`: the counters of the batches, failed ones included, agree;
- `CountersSettled`, an action property;
- `Refinement`: `Spec => ImplementsService`.

In the inductive invariant `IInv`, `Places` and `AcceptedOnce` say that an
accepted request is in exactly one place (queue, drained, batch or answered);
`Answered` and `BatchFromDrained` tie promises to those places; `LoopInv` says, for
each place of `run_loop`, which promises of the batch are set; `ExitInv` says the
worker leaves only on an empty queue that cannot fill again.

### Runtime (`RuntimeProofs`)

For any finite set of callers, any batch size of at least one and any wait and engine
time (`WindowAssumption`, which also says that no caller is named as one of the two
marks of a future without an answer; `RuntimeAssumption`): `AnswersAreOwn`,
`StatsCountOnce` and `LatencyIsBounded`.

`PlaceInv` says that a request in the queue or in the batch has one place, and that
its caller still waits; `AnswerInv` ties a set future to the caller's id; `CountInv`
says that no more was served, is queued and is about to be queued than ids were given
out, which is what makes the two separate reads of `stats()` safe; `GilInv` says that
until `stop()` nobody but `stats()` keeps the GIL. `TimeInv` is the argument for the bound:
`Left` is, for each place in the queue, the most time its answer can still take (the
rest of the batch in the engine, the full batches in front of it, the rest of the
window, its own batch), and a request's age plus that never exceeds the bound it was
given at `submit`. A tick moves one unit from the second to the first, an arrival
changes neither for those before it, and a drain takes a batch off everyone's count.
The quotient in the bound is handled by two lemmas (`RoomFacts` and `BoundFacts`), so that
no other step divides.

### Admission (`ServerProofs`)

For any finite set of requests, any capacity and any number of executor threads
(`AdmissionAssumption`): `PermitsAlwaysAccounted`, `WorkAlwaysBounded`, `DrainedIsIdle`,
`OneResponseAlways`.

The inductive invariant `AInv` has one conjunct per request and one for the controller.
`LeaseInv` relates the lease's flags to where the middleware, the application task and
the native call are: it is what makes the second of `finish_http()` and `_work_done()`,
and only the second, release the permit. `ResponseInv` says how many responses were
started at each of those places. `ControllerInv` says that the count is the number of
holders and that a drained controller is closed and empty. The proof has two halves.
`RequestKeeps` shows, action by action, that a step of a request keeps its own
invariants, leaves the other requests alone (`Local`) and takes one permit, gives one
back, or does neither (`PermitEffect`). `HoldersFollow` turns that into the change of
the holders' number.

### Server (`ServerProofs`)

Under the same assumptions and any set of keys: `NoCallAfterStop`,
`ReadyOnlyWhenServing`, and `ServerPermits` and `ServerAnswersOnce`, that the guarantees
of Admission hold in the whole server. Nearly every step of the server that touches
admission is a step of `Admission`, so `AInv` is kept by the lemmas above; `LifeInv` says what is up in each
phase of the lifespan. Two of its clauses reach into Admission: before the lifespan
yields no request has come in, so nothing can have closed admission behind start-up's
back; and past `drain()` no permit is out, which `AInv` turns into "no native call".

### Key store (`KeyStoreProofs`)

For any number of commands on any ids (`KeyStoreAssumption`): `StoreNeverTorn`,
`AcknowledgedAlways`, and `NoLostUpdate`, an action property.

The inductive invariant `KInv` says that the commands between lock and unlock are exactly
the holders of the lock and at most one (`LockInv`), that what such a command is about to
write is the present store with its own change (`PlanInv`), and that every content the disk
may come back with is a whole document. `AcknowledgedStays` is inductive next to it: another
command works on another id and starts from a store that shows the acknowledged change.

### Memory pool and CUDA engine (`MemoryPoolProofs`, `CudaEngineProofs`)

For any number of threads and streams, any finite set of sizes with a natural bucket each
(`PoolAssumption`, `BucketAssumption`, `EngineAssumption`) and any supply of blocks:

- `PoolAlwaysAccounted` and `PoolAlwaysSmall`, whatever calls fail;
- `EveryCallGetsItsResult`: if no call fails after it has queued work, every
  `run_inference` returns its own batch, normalised once.

The hypothesis of the last one is about the constant `Faults`, and it is needed: the run
`cudaengine_inflight` shows what happens without it.

The gauges are sums over the blocks. A sum has no induction here, so
`MemoryPoolProofs` first shows how such a sum changes when one block joins or leaves a
finite set, from the library's facts on cardinality and well-founded minima: a smallest
set that broke the law would have a smaller one that breaks it too. `PoolAlwaysSmall` needs
to know that a block is made only when its list is empty, hence when each existing block
of that kind and bucket is held by another thread. In `CudaEngineProofs`, the invariant ties each queued
operation to the call that queued it: it is on the stream and about the blocks its
thread holds (`OpsOwned`), one thread's operations are queued in order (`OpsOrdered`),
and what the thread's blocks hold follows from which of its operations are still
queued (`Progress`).

### ONNX engine and its clients (`OnnxEngineProofs`)

For any list of options and buckets, any batch size, any number of calls and any
failures (`OnnxAssumption`, `ClientsAssumption`):

- `RowsAlwaysOwn`, `FittingBatchesNormalized`, `CopiesWithinBuffers` and
  `PaddingAlwaysInitialised` about the engine;
- `ProgramsRunTheEngine`: `ClientsSpec => Spec`, so these hold in the server and in
  `bench_engine`;
- `ServerNeverReplans`, `RowsAlwaysTimedWarm`, and `RowsOfTheirOwnSamples`, the
  part of `RowReported` that is about which samples a row is reported from.

A failed call leaves its operations on the copy stream, so the invariant cannot say that
the stream is empty when a call begins. `RowsInv` speaks of the end of the stream: the
operations of the call in progress are the last ones, and what they will make of the
first rows of the buffers does not depend on what comes before them.
`BenchInv` and `SamplesInv` follow the loops of `bench_engine`'s `main`.

### Model-checked only

- Liveness, and properties with `ENABLED`: out of the prover's reach.
- `RowReported`'s median: it is computed by sorting, and what a sorting function returns
  is an induction over its input.
- `SingleOwner` and `OwnRowsInPlace` of `EngineLifetime`: no proof was attempted.
  The first compares cardinalities of the owners, which `built`, a stack, determines; the
  second rests on the grid's stride, division and remainders of variables.
- The four properties that are violated.

## Not modelled

- `config.py`, the schemas and image decoding: checks and conversions of one value,
  without state or order. The assumptions on the constants come from the ranges
  `config.py` enforces.
- Floating-point arithmetic: of the kernel only which element is changed, how often and
  by which constants; of the counters' averages nothing.
- Code nothing calls: the move constructors and the pooled handle's move assignment,
  `copy_from_host_async` and `copy_to_host_async`, `CudaStreamPool::at` and
  `synchronize_all`.
- Log records, health documents and metrics, beyond the counters `stats` reads.
- `build-tsan/`, which holds files a build generates; load tests and container tests,
  which are clients of the system.
- ONNX Runtime, the CUDA driver, asyncio, the executor, the GIL and the file system are
  external: modelled as far as the code relies on them.

## Plan

1. `Server` composed with `Runtime`.
2. A proof of `SingleOwner` in `EngineLifetime`.
