--------------------------- MODULE MCCardRenderer ---------------------------
(***************************************************************************)
(* Small instances of CardRenderer for TLC.                                *)
(***************************************************************************)
EXTENDS CardRenderer, TLC

\* Calls are interchangeable, and so are posters; for the safety run only.
CardSymmetry == Permutations(Proc) \union Permutations(Poster)
=============================================================================
