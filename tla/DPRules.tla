------------------------------ MODULE DPRules ------------------------------
(* The rules of the BGP decision process (src/bgp/dp_rules.c) and the loop   *)
(* that applies them (src/bgp/as.c, _bgp_router_decision_process_run).       *)
(*                                                                           *)
(* A candidate is a route together with what the rules read of it: its own   *)
(* attributes, the session it was learned on and the routing table's cost to *)
(* its next-hop.  A rule is a filter on the set of remaining candidates: the *)
(* program's loops compute an extremum and remove what is beyond it, or, for *)
(* the deterministic MED, compare the routes two by two; module DecisionRun  *)
(* has them as the loops they are and relates them to the filters below.     *)
EXTENDS Integers

CONSTANTS
    MedType,       \* "deterministic" or "always-compare": bgp options med
    MaxUint8       \* the largest value of the 8-bit minima of two rules

ASSUME MedTypeAssumption == MedType \in {"deterministic", "always-compare"}
ASSUME MaxUint8Assumption == MaxUint8 \in Nat

-----------------------------------------------------------------------------
(* One operator per rule, S being the candidates that remain.                *)

dp_rule_highest_pref(S) ==
    {r \in S : \A q \in S : r.local_pref >= q.local_pref}

(* The minimum starts at 255 in a uint8_t; lengths are ints.                 *)
dp_rule_shortest_path(S) ==
    {r \in S : r.length <= MaxUint8 /\ \A q \in S : r.length <= q.length}

dp_rule_lowest_origin(S) ==
    {r \in S : \A q \in S : r.origin <= q.origin}

Comparable(r, q) == MedType = "always-compare" \/ r.last_as = q.last_as

(* The rule of always-compare: the MEDs of routes of different ASes as well. *)
lowest_med_of_all(S) == {r \in S : \A q \in S : r.med <= q.med}

dp_rule_lowest_med(S) ==
    {r \in S : \A q \in S : Comparable(r, q) => r.med <= q.med}

dp_rule_ebgp_over_ibgp(S) ==
    {r \in S : (\E q \in S : q.ebgp) => r.ebgp}

dp_rule_nearest_next_hop(S) ==
    {r \in S : \A q \in S : r.igp_cost <= q.igp_cost}

dp_rule_lowest_router_id(S) ==
    {r \in S : \A q \in S : r.id <= q.id}

(* The minimum of the lengths is taken of their low 8 bits; the lengths that *)
(* are compared with it are whole.                                           *)
Uint8(n) == n % (MaxUint8 + 1)

dp_rule_shortest_cluster_list(S) ==
    {r \in S : \A q \in S : r.clusters <= Uint8(q.clusters)}

dp_rule_lowest_neighbor_address(S) ==
    {r \in S : \A q \in S : r.addr <= q.addr}

(* One turn of the loop of _bgp_router_decision_process_run: a rule is only  *)
(* applied when there is still a choice to make.                             *)
Turn(S, kept) == IF \A r, q \in S : r = q THEN S ELSE kept

(* A variant with the cluster list before the router-ID, the order that the  *)
(* comment of _bgp_router_decision_process_run gives.                        *)
run_as_commented(S) ==
    LET s1 == Turn(S, dp_rule_highest_pref(S))
        s2 == Turn(s1, dp_rule_shortest_path(s1))
        s3 == Turn(s2, dp_rule_lowest_origin(s2))
        s4 == Turn(s3, dp_rule_lowest_med(s3))
        s5 == Turn(s4, dp_rule_ebgp_over_ibgp(s4))
        s6 == Turn(s5, dp_rule_nearest_next_hop(s5))
        s7 == Turn(s6, dp_rule_shortest_cluster_list(s6))
        s8 == Turn(s7, dp_rule_lowest_router_id(s7))
    IN  Turn(s8, dp_rule_lowest_neighbor_address(s8))

(* The whole loop over DP_RULES: what remains is at most one candidate when  *)
(* the neighbours have different addresses.                                  *)
decision_process_run(S) ==
    LET s1 == Turn(S, dp_rule_highest_pref(S))
        s2 == Turn(s1, dp_rule_shortest_path(s1))
        s3 == Turn(s2, dp_rule_lowest_origin(s2))
        s4 == Turn(s3, dp_rule_lowest_med(s3))
        s5 == Turn(s4, dp_rule_ebgp_over_ibgp(s4))
        s6 == Turn(s5, dp_rule_nearest_next_hop(s5))
        s7 == Turn(s6, dp_rule_lowest_router_id(s6))
        s8 == Turn(s7, dp_rule_shortest_cluster_list(s7))
    IN  Turn(s8, dp_rule_lowest_neighbor_address(s8))

-----------------------------------------------------------------------------
(* Reference: the order of preference of two routes, attribute by attribute, *)
(* and the best routes of a set for it.                                      *)
RankOf(r, med) == << -r.local_pref, r.length, r.origin, med,
                     IF r.ebgp THEN 0 ELSE 1, r.igp_cost, r.id, r.clusters, r.addr >>

Precedes(a, b) == \E k \in 1 .. 9 : a[k] < b[k] /\ \A i \in 1 .. k - 1 : a[i] = b[i]

Preferred(S)    == {r \in S : ~ \E q \in S : Precedes(RankOf(q, q.med), RankOf(r, r.med))}
PreferredNoMed(S) == {r \in S : ~ \E q \in S : Precedes(RankOf(q, 0), RankOf(r, 0))}

(* "The router has to group each route by AS. Secondly, it has to elect the  *)
(* best route of each group and then continue to apply the remaining rules   *)
(* of the decision process to these best routes." (src/bgp/dp_rules.c:444)   *)
Elected(S) ==
    IF MedType = "always-compare" THEN Preferred(S)
    ELSE PreferredNoMed(UNION {Preferred({q \in S : q.last_as = r.last_as}) : r \in S})
=============================================================================
