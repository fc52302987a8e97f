------------------------------ MODULE MCObsClient ------------------------------
(***************************************************************************)
(* ObsClient for TLC.                                                      *)
(***************************************************************************)
EXTENDS ObsClient, TLC

\* Goroutines of one kind are interchangeable (safety runs only).
Symmetry ==
  Permutations(Requesters) \cup Permutations(LoginCallers)
    \cup Permutations(LogoutCallers)
===============================================================================
