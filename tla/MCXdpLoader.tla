---------------------------- MODULE MCXdpLoader ----------------------------
(***************************************************************************)
(* Instances of XdpLoader for TLC.                                         *)
(***************************************************************************)
EXTENDS XdpLoader, TLC

\* Native mode, and no program is replaced.
NativeNoExist == {"drv", IF_NOEXIST}

\* A process with up to two options, and two with up to one.
CONSTANTS p, q, r
TwoOneOne == (p :> 2) @@ (q :> 1) @@ (r :> 1)

\* The last two are interchangeable: their command lines are chosen in Init.
Symmetry == Permutations({q, r})

=============================================================================
