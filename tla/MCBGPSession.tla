---------------------------- MODULE MCBGPSession ----------------------------
(***************************************************************************)
(* Instances of BGPSession for TLC: one peering between two routers.       *)
(***************************************************************************)
EXTENDS BGPSession, TLC

CONSTANTS e1, e2, v1, v2, b

MCEnds == {e1, e2}
MCOther == e1 :> e2 @@ e2 :> e1
OnePath == {v1}
TwoPaths == {v1, v2}
Updates == {[type |-> "UPDATE", body |-> b]}
UpdatesWithdraws == Updates \union {[type |-> "WITHDRAW", body |-> b]}

(* The two ends and the paths are interchangeable. *)
Symmetry == Permutations(MCEnds) \union Permutations(TwoPaths)

=============================================================================
