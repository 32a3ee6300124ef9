---------------------------- MODULE MCOperatorDesk ----------------------------
(***************************************************************************)
(* A small instance of OperatorDesk: two officers of the government, one   *)
(* of them restricted to a place, and one of an NGO; three people, two of  *)
(* whom share a phone; a source with one allocation and a settled payout.  *)
(***************************************************************************)
EXTENDS OperatorDesk, TLC

CONSTANTS g1, g2, n1, p1, p2, p3, here, there, s0, a0, d0, b1, b2

MCOrgOf == [u \in Users |-> IF u = n1 THEN "NgoMSP" ELSE "GovernmentMSP"]
MCDistrictOf == [u \in Users |-> IF u = g2 THEN here ELSE None]
MCPhoneOf == [p \in People |-> IF p = p3 THEN "second" ELSE "first"]

MCSeeds ==
  [sources |-> (s0 :> [owner |-> "GovernmentMSP", allocated |-> AllocationAmount]),
   allocations |-> (a0 :> [source |-> s0, owner |-> "GovernmentMSP", place |-> here,
                           reserved |-> 0, disbursed |-> 1]),
   people |-> (p1 :> here),
   payouts |-> (d0 :> [allocation |-> a0, person |-> p1, batch |-> None, status |-> "SETTLED"])]

MCBatchSeeds ==
  (b1 :> [status |-> "PENDING_APPROVAL", owner |-> "GovernmentMSP", createdBy |-> g1,
          approvedBy |-> None])
  @@ (b2 :> Batch!NoBatch)

MCSymmetry == Permutations(Calls)
=============================================================================
