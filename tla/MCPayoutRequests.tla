--------------------------- MODULE MCPayoutRequests ---------------------------
(***************************************************************************)
(* Small instances of PayoutRequests.                                      *)
(***************************************************************************)
EXTENDS PayoutRequests, TLC

\* Calls, keys and bodies are interchangeable among themselves.
MCSymmetry == Permutations(Calls) \cup Permutations(Keys) \cup Permutations(Bodies)
=============================================================================
