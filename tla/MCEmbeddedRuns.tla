--------------------------- MODULE MCEmbeddedRuns ---------------------------
(* Small instances for EmbeddedRuns: every run is of session s1.           *)
EXTENDS EmbeddedRuns, TLC

CONSTANTS r1, r2, r3, c1, s1

\* Runs of the same kind differ only by name.
MCSymmetry == Permutations(Runs \ (ManualCron \cup TimedRuns))

MCOneSession == [r \in Runs |-> s1]
=============================================================================
