----------------------------- MODULE MCDashboards -----------------------------
(***************************************************************************)
(* A small instance of Dashboards: a source with an allocation to each of  *)
(* two districts, a third one on the map that has the first one's name and *)
(* a word more, and three payouts of two families in the first district,   *)
(* which is shown once both have one.                                      *)
(***************************************************************************)
EXTENDS Dashboards, TLC

CONSTANTS s1, a1, a2, kamrup, metro, baksa, p1, p2, p3, f1, f2

MCSourceOf == (a1 :> s1) @@ (a2 :> s1)
MCDistrictOf == (a1 :> kamrup) @@ (a2 :> baksa)
MCAllocationOf == (p1 :> a1) @@ (p2 :> a1) @@ (p3 :> a1)
MCPersonOf == (p1 :> f1) @@ (p2 :> f1) @@ (p3 :> f2)
MCNameOf ==
  (kamrup :> <<"kamrup">>) @@ (metro :> <<"kamrup", "metropolitan">>) @@ (baksa :> <<"baksa">>)

\* The two payouts of one family are alike.
MCSymmetry == Permutations({p1, p2})
=============================================================================
