----------------------------- MODULE MCXdpLink -----------------------------
(***************************************************************************)
(* Instances of XdpLink for TLC.                                           *)
(***************************************************************************)
EXTENDS XdpLink, TLC

\* Processes are interchangeable: their requests are chosen in Init.
Symmetry == Permutations(Procs)

=============================================================================
