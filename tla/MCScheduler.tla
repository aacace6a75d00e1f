----------------------------- MODULE MCScheduler -----------------------------
(* Instances of Scheduler for TLC. *)
EXTENDS Scheduler, TLC

\* Requests of the right size are interchangeable.  Used for invariants and
\* action properties only.
WellSizedSymmetry == Permutations(Requests \ MisSized)
=============================================================================
