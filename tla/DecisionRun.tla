---------------------------- MODULE DecisionRun ----------------------------
(* One execution of _bgp_router_decision_process_run (src/bgp/as.c) on the   *)
(* list of the feasible routes of a prefix.  The rules (src/bgp/dp_rules.c)  *)
(* are executed as the loops they are, one pass of a loop per step: a rule   *)
(* walks over the list for the best value of its attribute, then once more   *)
(* to remove what is worse; the deterministic MED rule compares the routes   *)
(* two by two in nested loops, replaces by NULL, and then removes the NULLs. *)
EXTENDS DPRules, Sequences, Functions

CONSTANTS
    Lists,         \* the lists that the loop may be called with
    MaxUint32,     \* the initial value of the 32-bit minima
    NULL

VARIABLES
    given,         \* the list the loop is called with
    routes,        \* the list the rules shorten
    index,         \* rules applied so far
    pc,            \* the loop that is executed
    i, j,          \* its indexes
    bound,         \* the best value found so far
    before         \* history: the list that the last rule was called with

vars == <<given, routes, index, pc, i, j, bound, before>>

(* Attributes within the width of their types, and AS-paths and cluster      *)
(* lists within that of the 8-bit minima.                                    *)
Routes ==
    [peer : Nat, local_pref : 0 .. MaxUint32, length : 0 .. MaxUint8, origin : 0 .. 2,
     med : 0 .. MaxUint32, last_as : Int, ebgp : BOOLEAN, igp_cost : 0 .. MaxUint32,
     id : 0 .. MaxUint32, clusters : 0 .. MaxUint8, addr : 0 .. MaxUint32]

(* bgp_router_get_feasible_routes lists at most one route per peer, and the  *)
(* peers are kept sorted by address.                                         *)
FeasibleList(list) ==
    /\ list \in Seq(Routes)
    /\ \A m, n \in DOMAIN list : m < n => list[m].addr < list[n].addr

ASSUME ListsAssumption == \A list \in Lists : list # <<>> /\ FeasibleList(list)
ASSUME WidthAssumption == MaxUint32 \in Nat
ASSUME NULLAssumption  == NULL \notin Routes

Init == /\ given \in Lists
        /\ routes = given /\ before = given
        /\ index = 0 /\ pc = "loop"
        /\ i = 1 /\ j = 2 /\ bound = 0

-----------------------------------------------------------------------------
(* DP_NUM_RULES is 11, but without the rules of an experimental build the    *)
(* array DP_RULES ends with two entries that are NULL: a loop that went past *)
(* the last rule with several routes would call NULL, before it could reach  *)
(* its abort().                                                              *)
LastRule == 9
MED  == 4          \* the positions of dp_rule_lowest_med and
EBGP == 5          \* dp_rule_ebgp_over_ibgp in DP_RULES

(* DP_RULES[k - 1].rule, as a filter on the set of the remaining routes.     *)
DP_RULES(k, S) ==
    CASE k = 1 -> dp_rule_highest_pref(S)
      [] k = 2 -> dp_rule_shortest_path(S)
      [] k = 3 -> dp_rule_lowest_origin(S)
      [] k = 4 -> dp_rule_lowest_med(S)
      [] k = 5 -> dp_rule_ebgp_over_ibgp(S)
      [] k = 6 -> dp_rule_nearest_next_hop(S)
      [] k = 7 -> dp_rule_lowest_router_id(S)
      [] k = 8 -> dp_rule_shortest_cluster_list(S)
      [] k = 9 -> dp_rule_lowest_neighbor_address(S)

(* What rule k reads of a route, the smaller the better.                     *)
Value(k, r) ==
    CASE k = 1 -> -r.local_pref
      [] k = 2 -> r.length
      [] k = 3 -> r.origin
      [] k = 4 -> r.med
      [] k = 5 -> IF r.ebgp THEN 0 ELSE 1
      [] k = 6 -> r.igp_cost
      [] k = 7 -> r.id
      [] k = 8 -> r.clusters
      [] k = 9 -> r.addr

(* The initial value of the minimum (or, negated, of the maximum) of rule k: *)
(* 0, 255, INCOMPLETE, UINT_MAX, no eBGP route, UINT_MAX, MAX_ADDR, 255,     *)
(* MAX_ADDR.                                                                 *)
Start(k) == CASE k = 1 -> 0
              [] k \in {2, 8} -> MaxUint8
              [] k = 3 -> 2
              [] k = 5 -> 1
              [] k \in {4, 6, 7, 9} -> MaxUint32

rule   == index + 1
Nested == rule = MED /\ MedType = "deterministic"

-----------------------------------------------------------------------------
(* The loop over DP_RULES calls the next rule.                               *)
EnterRule ==
    /\ pc = "loop"
    /\ index < LastRule
    /\ Len(routes) > 1
    /\ pc' = IF Nested THEN "compare" ELSE "scan"
    /\ i' = 1 /\ j' = 2 /\ bound' = Start(rule)
    /\ before' = routes
    /\ UNCHANGED <<given, routes, index>>

(* The rule for eBGP stops at the first route it looks for.                  *)
Scanned == i > Len(routes) \/ (rule = EBGP /\ bound = 0)

Scan ==
    /\ pc = "scan"
    /\ ~ Scanned
    /\ bound' = IF Value(rule, routes[i]) < bound THEN Value(rule, routes[i]) ELSE bound
    /\ i' = i + 1
    /\ UNCHANGED <<given, routes, index, pc, j, before>>

EndScan ==
    /\ pc = "scan"
    /\ Scanned
    /\ pc' = "discard" /\ i' = 1
    /\ UNCHANGED <<given, routes, index, j, bound, before>>

ptr_array_remove_at(list, k) ==
    [m \in 1 .. Len(list) - 1 |-> IF m < k THEN list[m] ELSE list[m + 1]]

Excluded(r) == IF Nested THEN r = NULL ELSE Value(rule, r) > bound

(* When there is no eBGP route the program skips this loop, which would not  *)
(* remove any route.                                                         *)
Discard ==
    /\ pc = "discard"
    /\ i <= Len(routes)
    /\ \/ Excluded(routes[i]) /\ routes' = ptr_array_remove_at(routes, i) /\ i' = i
       \/ ~ Excluded(routes[i]) /\ routes' = routes /\ i' = i + 1
    /\ UNCHANGED <<given, index, pc, j, bound, before>>

EndRule ==
    /\ pc = "discard"
    /\ i > Len(routes)
    /\ pc' = "loop" /\ index' = index + 1
    /\ UNCHANGED <<given, routes, i, j, bound, before>>

-----------------------------------------------------------------------------
(* The nested loops of the deterministic MED rule: of two routes of one      *)
(* neighbour AS the one with the larger MED is set to NULL, and the inner    *)
(* loop is left when that is the outer one.                                  *)
NextOuter == i' = i + 1 /\ j' = i + 2
NextInner == i' = i /\ j' = j + 1

InnerDone == routes[i] = NULL \/ j > Len(routes)

Compared(p, q) == q # NULL /\ p.last_as = q.last_as

(* A variant that nulls the later one of two routes with equal MEDs as well. *)
CompareEqual ==
    /\ pc = "compare"
    /\ i <= Len(routes)
    /\ \/ InnerDone /\ routes' = routes /\ NextOuter
       \/ /\ ~ InnerDone
          /\ LET p == routes[i]
                 q == routes[j]
             IN  \/ /\ ~ Compared(p, q)
                    /\ routes' = routes /\ NextInner
                 \/ /\ Compared(p, q) /\ p.med <= q.med
                    /\ routes' = [routes EXCEPT ![j] = NULL] /\ NextInner
                 \/ /\ Compared(p, q) /\ p.med > q.med
                    /\ routes' = [routes EXCEPT ![i] = NULL] /\ NextOuter
    /\ UNCHANGED <<given, index, pc, bound, before>>

Compare ==
    /\ pc = "compare"
    /\ i <= Len(routes)
    /\ \/ InnerDone /\ routes' = routes /\ NextOuter
       \/ /\ ~ InnerDone
          /\ LET p == routes[i]
                 q == routes[j]
             IN  \/ /\ Compared(p, q) => p.med = q.med
                    /\ routes' = routes /\ NextInner
                 \/ /\ Compared(p, q) /\ p.med < q.med
                    /\ routes' = [routes EXCEPT ![j] = NULL] /\ NextInner
                 \/ /\ Compared(p, q) /\ p.med > q.med
                    /\ routes' = [routes EXCEPT ![i] = NULL] /\ NextOuter
    /\ UNCHANGED <<given, index, pc, bound, before>>

EndCompare ==
    /\ pc = "compare"
    /\ i > Len(routes)
    /\ pc' = "discard" /\ i' = 1
    /\ UNCHANGED <<given, routes, index, j, bound, before>>

-----------------------------------------------------------------------------
Next == \/ EnterRule \/ Scan \/ EndScan \/ Discard \/ EndRule
        \/ Compare \/ EndCompare

Spec == Init /\ [][Next]_vars

Finished == pc = "loop" /\ (index = LastRule \/ Len(routes) <= 1)

-----------------------------------------------------------------------------
(* Whatever routes the peers announced, the loop ends with exactly the route *)
(* that the order of preference elects: no rule undoes an earlier one, the   *)
(* early exit at one route loses nothing, and neither a NULL rule is called  *)
(* nor the abort() for several remaining routes reached.                     *)
(* decision_process_run, the loop as one expression, which module BGPRouter  *)
(* uses, selects the same route.                                             *)
SelectsElected ==
    Finished => /\ Len(routes) = 1
                /\ Range(routes) = Elected(Range(given))
                /\ Range(routes) = decision_process_run(Range(given))

(* The loops of every rule, which remove routes from the list they walk      *)
(* over, leave exactly the routes that the rule's filter keeps, in the order *)
(* they were in: for the nested loops of the deterministic MED rule, those   *)
(* that no route of the same neighbour AS beats, although the loops compare  *)
(* with routes that have been replaced by NULL in the meantime no more.      *)
RulesAreFilters ==
    pc = "loop" /\ index > 0 =>
        /\ Range(routes) = DP_RULES(index, Range(before))
        /\ FeasibleList(routes)
=============================================================================
