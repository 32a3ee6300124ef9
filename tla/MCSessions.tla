------------------------------ MODULE MCSessions ------------------------------
(***************************************************************************)
(* A small instance of Sessions.                                           *)
(***************************************************************************)
EXTENDS Sessions, TLC

MCSymmetry == Permutations(Calls) \cup Permutations(Tokens)
=============================================================================
