----------------------------- MODULE MCMigration -----------------------------
(***************************************************************************)
(* Small instances of Migration for TLC.                                   *)
(***************************************************************************)
EXTENDS Migration, TLC

CONSTANTS u1, u2, s1, bad

\* s1 spells u1.
MCAliasOf == s1 :> u1
=============================================================================
