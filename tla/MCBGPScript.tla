---------------------------- MODULE MCBGPScript -----------------------------
(***************************************************************************)
(* Instances of BGPScript for TLC: one peering, whose two directions fail  *)
(* together or one at a time.                                              *)
(***************************************************************************)
EXTENDS BGPScript, TLC

CONSTANTS e1, e2, v1, b

MCEnds == {e1, e2}
MCOther == e1 :> e2 @@ e2 :> e1
AnyDirection == {MCEnds, {e1}, {e2}}
UpdatesWithdraws == [type : RouteTypes, body : {b}]

(* The two ends are interchangeable. *)
Symmetry == Permutations(MCEnds)

=============================================================================
