--------------------------- MODULE MCReliefLedger ---------------------------
(***************************************************************************)
(* A small instance of ReliefLedger: one disaster and scheme, and clients  *)
(* of both writing organizations, one whose role attribute differs from    *)
(* the role of its MSP and one auditor whose attribute claims a writer's.  *)
(***************************************************************************)
EXTENDS ReliefLedger, TLC

MCIdentities ==
  {[msp |-> "GovernmentMSP", role |-> "none"],
   [msp |-> "NgoMSP",        role |-> "NGO"],
   [msp |-> "GovernmentMSP", role |-> "NGO"],
   [msp |-> "AuditorMSP",    role |-> "GOVERNMENT"]}

\* Ids of one kind are interchangeable: no rule orders or names them.
MCSymmetry ==
  Permutations(Sources) \cup Permutations(Allocations)
    \cup Permutations(Disbursements) \cup Permutations(Keys)
=============================================================================
