----------------------------- MODULE MCTestEnv -----------------------------
(***************************************************************************)
(* Instances of TestEnv for TLC.                                           *)
(***************************************************************************)
EXTENDS TestEnv, TLC

\* Names are interchangeable, and so are invocations.
Symmetry == Permutations(Names) \cup Permutations(Procs)

=============================================================================
