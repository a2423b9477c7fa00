-------------------------- MODULE MCUnlockProtocol --------------------------
(***************************************************************************)
(* Small instances of UnlockProtocol for TLC.                              *)
(***************************************************************************)
EXTENDS UnlockProtocol, TLC

\* Goroutines are interchangeable; symmetry serves the safety run only.
ProcSymmetry == Permutations(Proc)

\* What symmetry would save the liveness run: users are interchangeable, so one
\* chosen goroutine may be taken to serve one chosen user.
MCInit == Init /\ UserOf(CHOOSE p \in Proc : TRUE) = CHOOSE u \in User : TRUE

MCFairSpec == MCInit /\ [][Next]_vars /\ \A p \in Proc : WF_vars(Step(p))
=============================================================================
