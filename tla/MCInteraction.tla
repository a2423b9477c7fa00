---------------------------- MODULE MCInteraction ----------------------------
(***************************************************************************)
(* Small instances of Interaction for TLC.                                 *)
(***************************************************************************)
EXTENDS Interaction, TLC

\* Messages are interchangeable.
ProcSymmetry == Permutations(Proc)
=============================================================================
