---------------------------- MODULE BatchService ----------------------------
(***************************************************************************)
(* What the scheduler promises to its callers, without threads, locks or   *)
(* batches.  Requests are accepted in some order while the service is      *)
(* open.  Each accepted request gets exactly one outcome, its own result   *)
(* or a failure.  A request is never overtaken by one that was accepted    *)
(* MaxBatchSize or more places after it.  The service can halt only when   *)
(* it is closed and nothing accepted is left without an outcome.           *)
(***************************************************************************)
EXTENDS Integers, Sequences

CONSTANTS Requests, MisSized, MaxBatchSize, NoOutcome, Failure

VARIABLES
    accepted,  \* the accepted requests, in order
    outcome,   \* what each request got
    open,      \* are requests accepted?
    halted     \* has stop() returned, with no start() since?

svars == <<accepted, outcome, open, halted>>

SInit ==
    /\ accepted = <<>>
    /\ outcome = [r \in Requests |-> NoOutcome]
    /\ open = TRUE
    /\ halted = FALSE

Accept(r) ==
    /\ open
    /\ \A i \in 1..Len(accepted) : accepted[i] # r
    /\ accepted' = Append(accepted, r)
    /\ UNCHANGED <<outcome, open, halted>>

\* The results a request may be given.
Answers(r) == IF r \in MisSized THEN {Failure} ELSE {r, Failure}

Resolve(i) ==
    /\ outcome[accepted[i]] = NoOutcome
    /\ \A k \in 1..(i - MaxBatchSize) : outcome[accepted[k]] # NoOutcome
    /\ \E answer \in Answers(accepted[i]) :
          outcome' = [outcome EXCEPT ![accepted[i]] = answer]
    /\ UNCHANGED <<accepted, open, halted>>

Close ==
    /\ open' = FALSE
    /\ UNCHANGED <<accepted, outcome, halted>>

Halt ==
    /\ ~open
    /\ \A i \in 1..Len(accepted) : outcome[accepted[i]] # NoOutcome
    /\ halted' = TRUE
    /\ UNCHANGED <<accepted, outcome, open>>

\* A halted service may be started again, but it stays closed.
Resume ==
    /\ halted' = FALSE
    /\ UNCHANGED <<accepted, outcome, open>>

SNext ==
    \/ \E r \in Requests : Accept(r)
    \/ \E i \in 1..Len(accepted) : Resolve(i)
    \/ Close \/ Halt \/ Resume

SSpec == SInit /\ [][SNext]_svars
=============================================================================
