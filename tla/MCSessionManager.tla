-------------------------- MODULE MCSessionManager --------------------------
(***************************************************************************)
(* A small instance of SessionManager for TLC.                             *)
(***************************************************************************)
EXTENDS SessionManager, TLC

\* The manager treats its users alike.
UserSymmetry == Permutations(User)
=============================================================================
