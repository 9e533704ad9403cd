------------------------------ MODULE MCServer ------------------------------
(***************************************************************************)
(* Instances of Server for TLC.  No action tells two clients apart, so     *)
(* they are permuted where no liveness is checked.                         *)
(***************************************************************************)
EXTENDS Server

Symmetry == Permutations(Clients)
=============================================================================
