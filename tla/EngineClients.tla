---------------------------- MODULE EngineClients ----------------------------
(***************************************************************************)
(* The two programs that drive an OnnxExecutionEngine: the server, whose   *)
(* engine the binding's make_engine configures and whose batches the       *)
(* scheduler bounds, and bench_engine's main, which times it.  A third     *)
(* client makes any calls, as the engine's tests do.                       *)
(*                                                                         *)
(* What matters to both programs is the plan ONNX Runtime keeps: "only for *)
(* the most recent shape" (external).  A time is a small number.           *)
(***************************************************************************)
EXTENDS OnnxEngine, FiniteSets, TLC

CONSTANTS
    MaxBatchSize,  \* RuntimeConfig::max_batch_size
    BucketSpecs,   \* bench_engine's second argument: the tokens between commas
    NoToken,       \* an empty token
    RowSizes,      \* the batch sizes main times one after the other
    kWarmupIters, kTimedIters,
    ChurnMax,      \* the largest batch of the varying phase
    ChurnWarmups, ChurnIters,
    Times,         \* how long a call may take
    FreeCalls      \* bound: the calls of the other clients

ASSUME ClientsAssumption ==
    /\ MaxBatchSize \in 1..MaxBatch /\ ChurnMax \in 1..MaxBatch
    /\ RowSizes \in Seq(1..MaxBatch) \ {<<>>}
    /\ {kWarmupIters, kTimedIters, ChurnWarmups, ChurnIters} \subseteq Nat \ {0}
    /\ FreeCalls <= MaxCalls

VARIABLES
    client,   \* who drives the engine
    plan,     \* the shape of the session's last run, 0 before the first
    phase,    \* where main is
    row,      \* the index in RowSizes, or the batch being warmed
    iter,     \* the loop counter
    calling,  \* main is inside run_inference
    samples,  \* the times taken, each with its batch
    report    \* the row printed last: its batch, median and samples

benchVars == <<phase, row, iter, calling, samples, report>>
clientVars == <<vars, client, plan, benchVars>>

\* parse_buckets skips empty tokens.
parse_buckets(spec) == SelectSeq(spec, LAMBDA token : token # NoToken)

\* Mutant: the bucket is left at a default smaller than the batches.
DefaultBuckets == <<MaxBatchSize - 1>>

\* make_engine: one bucket, the largest batch the scheduler can produce.
ServerBuckets == <<MaxBatchSize>>

\* median_ms.
median_ms(times) == SortSeq(times, <)[(Len(times) \div 2) + 1]

NoReport == [batch |-> 0, median |-> 0, samples |-> <<>>]

ClientsInit ==
    /\ Init
    /\ \/ /\ client = "server"
          /\ options.buckets = ServerBuckets
          /\ options.io_binding /\ options.warm /\ ~options.normalize
       \/ /\ client = "bench"
          /\ \E spec \in BucketSpecs : options.buckets = parse_buckets(spec)
          /\ options.warm /\ ~options.normalize
       \/ client = "any"
    /\ plan = 0
    /\ phase = "rows" /\ row = 1 /\ iter = 0 /\ calling = FALSE
    /\ samples = <<>> /\ report = NoReport

\* Session::Run plans for the shape it is given unless it is the last one's.
Run ==
    /\ RunBound \/ RunHost
    /\ plan' = padded
    /\ UNCHANGED <<client, benchVars>>

EngineStep ==
    /\ \/ Constructed \/ FallsBack \/ ConstructorThrows
       \/ WarmBucket \/ SkipBucket
       \/ Memcpy \/ CopyIn \/ Launch \/ Wait("pre_run", "run")
       \/ CopyOut \/ Wait("post_run", "return") \/ Return
       \/ Throws \/ Execute
    /\ UNCHANGED <<client, plan, benchVars>>

\* The scheduler's worker and the tests.
Call ==
    /\ client # "bench" /\ call < FreeCalls
    /\ \/ \E n \in 1..MaxBatch :
             RunInference(n) /\ (client = "server" => n <= MaxBatchSize)
       \/ EmptyBatch
    /\ UNCHANGED <<client, plan, benchVars>>

Timed == phase = "churn" \/ (phase = "rows" /\ iter >= kWarmupIters)
Ready == client = "bench" /\ pc = "idle" /\ warm = <<>> /\ ~calling

\* Mutant: the warm-up uses the first row's batch throughout.
SizeOfFirst ==
    IF phase = "rows" THEN {IF iter < kWarmupIters THEN RowSizes[1] ELSE RowSizes[row]}
    ELSE IF phase = "churn_warmup" THEN {row} ELSE 1..ChurnMax

\* The batch main passes: the row's, the one being warmed, or one picked at
\* random.
Size ==
    IF phase = "rows" THEN {RowSizes[row]}
    ELSE IF phase = "churn_warmup" THEN {row} ELSE 1..ChurnMax

BenchCalls ==
    /\ Ready /\ phase # "done"
    /\ iter < CASE phase = "rows"         -> kWarmupIters + kTimedIters
                [] phase = "churn_warmup" -> ChurnWarmups
                [] phase = "churn"        -> ChurnIters
    /\ \E n \in Size : RunInference(n)
    /\ calling' = TRUE
    /\ UNCHANGED <<client, plan, phase, row, iter, samples, report>>

\* run_inference returns and, in a timed loop, the time is kept; an exception
\* is not caught and ends main.
BenchReturns ==
    /\ client = "bench" /\ calling /\ pc = "idle"
    /\ calling' = FALSE
    /\ IF returned = Error
       THEN phase' = "done" /\ UNCHANGED <<iter, samples>>
       ELSE /\ iter' = iter + 1
            /\ \E t \in Times :
                  samples' = IF Timed THEN Append(samples, [batch |-> batch, ms |-> t])
                                      ELSE samples
            /\ UNCHANGED phase
    /\ UNCHANGED <<vars, client, plan, row, report>>

Median == median_ms([i \in 1..Len(samples) |-> samples[i].ms])

\* Mutant: the samples of the rows before are kept.
PrintRowAndKeep ==
    /\ Ready /\ phase = "rows" /\ iter = kWarmupIters + kTimedIters
    /\ report' = [batch |-> RowSizes[row], median |-> Median, samples |-> samples]
    /\ iter' = 0
    /\ IF row < Len(RowSizes) THEN row' = row + 1 /\ UNCHANGED phase
                              ELSE row' = 1 /\ phase' = "churn_warmup"
    /\ UNCHANGED <<vars, client, plan, calling, samples>>

\* A row is printed; after the last one the varying phase begins.
PrintRow ==
    /\ Ready /\ phase = "rows" /\ iter = kWarmupIters + kTimedIters
    /\ report' = [batch |-> RowSizes[row], median |-> Median, samples |-> samples]
    /\ samples' = <<>> /\ iter' = 0
    /\ IF row < Len(RowSizes) THEN row' = row + 1 /\ UNCHANGED phase
                              ELSE row' = 1 /\ phase' = "churn_warmup"
    /\ UNCHANGED <<vars, client, plan, calling>>

\* Each batch of the varying phase is warmed.
NextWarmup ==
    /\ Ready /\ phase = "churn_warmup" /\ iter = ChurnWarmups
    /\ iter' = 0
    /\ IF row < ChurnMax THEN row' = row + 1 /\ UNCHANGED phase
                         ELSE row' = 1 /\ phase' = "churn"
    /\ UNCHANGED <<vars, client, plan, calling, samples, report>>

\* The figures of the varying phase are printed.
PrintChurn ==
    /\ Ready /\ phase = "churn" /\ iter = ChurnIters
    /\ report' = [batch |-> 0, median |-> Median, samples |-> samples]
    /\ phase' = "done"
    /\ UNCHANGED <<vars, client, plan, row, iter, calling, samples>>

ClientsNext ==
    \/ Run \/ EngineStep \/ Call
    \/ BenchCalls \/ BenchReturns \/ PrintRow \/ NextWarmup \/ PrintChurn

ClientsSpec == ClientsInit /\ [][ClientsNext]_clientVars
-----------------------------------------------------------------------------
(* Properties. *)

\* "Every batch pads up to it and ORT never re-plans": the server's session
\* sees one shape, whatever batches the scheduler makes and whatever fails.
NeverReplans == client = "server" => plan \in {0, MaxBatchSize}

\* main times a row's batch only when the session's plan is for its shape,
\* "the first call at a new batch size is not representative".
RowsTimedWarm ==
    client = "bench" /\ calling /\ phase = "rows" /\ Timed /\ pc = "run" => plan = padded

\* A printed row is the median of exactly the timed calls of its own batch: as
\* many samples as iterations, at least half not above it and half not below.
RowReported ==
    LET s == report.samples
        Half(P(_)) == 2 * Cardinality({i \in 1..Len(s) : P(s[i].ms)}) >= Len(s)
    IN  report # NoReport =>
          /\ Half(LAMBDA ms : ms <= report.median) /\ Half(LAMBDA ms : ms >= report.median)
          /\ report.batch # 0 =>
                Len(s) = kTimedIters /\ \A i \in 1..Len(s) : s[i].batch = report.batch
=============================================================================
