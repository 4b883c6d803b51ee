--------------------------- MODULE MCBenchmarkCell ---------------------------
(* A cell whose clock counts in units of 150 seconds. *)
EXTENDS BenchmarkCell, TLC

\* PHASE_CEILING_SECONDS: 600, 300, 600, 300 and 1500.
MCShape ==
  [p \in Phases |-> CASE p \in {"research", "plan"} -> 4
                      [] p = "implement"            -> 10
                      [] OTHER                      -> 2]

\* No step tells one version of the source from another.
SourceSymmetry == Permutations(Sources)
=============================================================================
