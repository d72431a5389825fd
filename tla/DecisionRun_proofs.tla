------------------------ MODULE DecisionRun_proofs ------------------------
(* The loops of the decision process leave exactly the route that the order  *)
(* of preference elects, whatever the number of the feasible routes and      *)
(* their attributes.                                                         *)
(*                                                                           *)
(* The inductive invariant says of each loop what it has done so far, and    *)
(* that the rules still to come make of the list the set they would have     *)
(* made of the list given.                                                   *)
EXTENDS DecisionRun, DPRules_proofs

Slots == Routes \cup {NULL}

(* What the nested loops have not replaced by NULL.                          *)
Left(list) == Range(list) \ {NULL}

Ordered(list) ==
    \A m, n \in 1 .. Len(list) :
        m < n /\ list[m] # NULL /\ list[n] # NULL => list[m].addr < list[n].addr

(* What the rules after the first k make of S.                               *)
Rest9(S) == S
Rest8(S) == Turn(S, dp_rule_lowest_neighbor_address(S))
Rest7(S) == Rest8(Turn(S, dp_rule_shortest_cluster_list(S)))
Rest6(S) == Rest7(Turn(S, dp_rule_lowest_router_id(S)))
Rest5(S) == Rest6(Turn(S, dp_rule_nearest_next_hop(S)))
Rest4(S) == Rest5(Turn(S, dp_rule_ebgp_over_ibgp(S)))
Rest3(S) == Rest4(Turn(S, dp_rule_lowest_med(S)))
Rest2(S) == Rest3(Turn(S, dp_rule_lowest_origin(S)))
Rest1(S) == Rest2(Turn(S, dp_rule_shortest_path(S)))
Rest0(S) == Rest1(Turn(S, dp_rule_highest_pref(S)))

Rest(k, S) == CASE k = 0 -> Rest0(S) [] k = 1 -> Rest1(S) [] k = 2 -> Rest2(S)
                [] k = 3 -> Rest3(S) [] k = 4 -> Rest4(S) [] k = 5 -> Rest5(S)
                [] k = 6 -> Rest6(S) [] k = 7 -> Rest7(S) [] k = 8 -> Rest8(S)
                [] k = 9 -> Rest9(S)

TypeInv ==
    /\ given \in Lists
    /\ routes \in Seq(Slots) /\ Ordered(routes)
    /\ FeasibleList(before)
    /\ index \in 0 .. LastRule
    /\ pc \in {"loop", "scan", "compare", "discard"}
    /\ i \in Nat \ {0} /\ j \in Nat /\ bound \in Int

(* Between two rules, and within a rule.                                     *)
BetweenRules ==
    /\ FeasibleList(routes)
    /\ Rest(index, Range(routes)) = decision_process_run(Range(given))
    /\ index > 0 => Range(routes) = DP_RULES(index, Range(before))

InRule ==
    /\ index < LastRule
    /\ Len(before) > 1
    /\ Rest(index, Range(before)) = decision_process_run(Range(given))
    /\ ~ Nested => routes \in Seq(Routes)

(* The bound is the least of the initial value and the values seen.          *)
ScanAt(k, list, n, b) ==
    /\ \A m \in 1 .. Len(list) : m < n => b <= Value(k, list[m])
    /\ b = Start(k) \/ \E m \in 1 .. Len(list) : b = Value(k, list[m])

Scanning == /\ ~ Nested /\ routes = before
            /\ ScanAt(rule, routes, i, bound)

(* What is still to be removed is what the rule's filter does not keep.      *)
Discarding ==
    /\ {r \in Range(routes) : ~ Excluded(r)} = DP_RULES(rule, Range(before))
    /\ \A m \in 1 .. Len(routes) : m < i => ~ Excluded(routes[m])

(* Routes of one AS that have been compared and are left have equal MEDs.    *)
EqualAt(list, m, n) ==
    list[m] # NULL /\ list[n] # NULL /\ list[m].last_as = list[n].last_as
        => list[m].med = list[n].med

CompareAt(list, p, q) ==
    \A m, n \in 1 .. Len(list) :
        m < n /\ (m < p \/ (m = p /\ n < q)) => EqualAt(list, m, n)

Comparing ==
    /\ Nested /\ i < j
    /\ dp_rule_lowest_med(Left(routes)) = dp_rule_lowest_med(Range(before))
    /\ CompareAt(routes, i, j)

RunInv ==
    /\ TypeInv
    /\ pc = "loop" => BetweenRules
    /\ pc # "loop" => InRule
    /\ pc = "scan" => Scanning
    /\ pc = "discard" => Discarding
    /\ pc = "compare" => Comparing
-----------------------------------------------------------------------------
(* Facts about the data.                                                     *)

LEMMA RoutesAreCandidates == Routes \subseteq Candidates(Nat, MaxUint32)
  BY WidthAssumption DEF Routes, Candidates

LEMMA RangeOf ==
    ASSUME NEW T, NEW s \in Seq(T)
    PROVE  /\ Range(s) \subseteq T
           /\ \A m \in 1 .. Len(s) : s[m] \in Range(s)
           /\ \A x \in Range(s) : \E m \in 1 .. Len(s) : x = s[m]
  BY DEF Range

LEMMA ValueTypes ==
    ASSUME NEW k \in 1 .. 9, NEW r \in Routes
    PROVE  Value(k, r) \in Int /\ Start(k) \in Int /\ Value(k, r) <= Start(k)
  <1>1. /\ r.local_pref \in 0 .. MaxUint32 /\ r.length \in 0 .. MaxUint8
        /\ r.origin \in 0 .. 2 /\ r.med \in 0 .. MaxUint32
        /\ r.igp_cost \in 0 .. MaxUint32 /\ r.id \in 0 .. MaxUint32
        /\ r.clusters \in 0 .. MaxUint8 /\ r.addr \in 0 .. MaxUint32
    BY DEF Routes
  <1>2. k = 1 \/ k = 2 \/ k = 3 \/ k = 4 \/ k = 5 \/ k = 6 \/ k = 7 \/ k = 8 \/ k = 9
    OBVIOUS
  <1> QED
    BY <1>1, <1>2, WidthAssumption, MaxUint8Assumption DEF Value, Start

LEMMA EbgpValue ==
    ASSUME NEW r \in Routes
    PROVE  Value(EBGP, r) >= 0
  BY DEF Value, EBGP

(* A rule, the deterministic MED rule apart, keeps the routes with the least *)
(* value.                                                                    *)
LEMMA RuleKeepsLeast ==
    ASSUME NEW k \in 1 .. 9, k # MED \/ MedType = "always-compare",
           NEW S \in SUBSET Routes
    PROVE  DP_RULES(k, S) = {r \in S : \A q \in S : Value(k, r) <= Value(k, q)}
  <1>1. \A r \in S : /\ r.local_pref \in 0 .. MaxUint32 /\ r.length \in 0 .. MaxUint8
                    /\ r.ebgp \in BOOLEAN
    BY DEF Routes
  <1>2. CASE k = 1
    BY <1>1, <1>2, WidthAssumption DEF DP_RULES, Value, dp_rule_highest_pref
  <1>3. CASE k = 2
    BY <1>1, <1>3, MaxUint8Assumption DEF DP_RULES, Value, dp_rule_shortest_path
  <1>4. CASE k = 3
    BY <1>4 DEF DP_RULES, Value, dp_rule_lowest_origin
  <1>5. CASE k = 4
    BY <1>5 DEF DP_RULES, Value, dp_rule_lowest_med, Comparable, MED
  <1>6. CASE k = 5
    BY <1>1, <1>6 DEF DP_RULES, Value, dp_rule_ebgp_over_ibgp
  <1>7. CASE k = 6
    BY <1>7 DEF DP_RULES, Value, dp_rule_nearest_next_hop
  <1>8. CASE k = 7
    BY <1>8 DEF DP_RULES, Value, dp_rule_lowest_router_id
  <1>9. CASE k = 8
    <2>1. \A r \in S : r.clusters \in 0 .. MaxUint8
      BY DEF Routes
    <2>2. \A r \in S : Uint8(r.clusters) = r.clusters
      BY Zenon, <2>1, Uint8Fits
    <2> QED
      BY <1>9, <2>2 DEF DP_RULES, Value, dp_rule_shortest_cluster_list
  <1>10. CASE k = 9
    BY <1>10 DEF DP_RULES, Value, dp_rule_lowest_neighbor_address
  <1> QED
    BY <1>2, <1>3, <1>4, <1>5, <1>6, <1>7, <1>8, <1>9, <1>10

(* What is within the bound at the end of a scan is what the rule keeps.     *)
LEMMA ScanIsFilter ==
    ASSUME NEW k \in 1 .. 9, k # MED \/ MedType = "always-compare",
           NEW list \in Seq(Routes), Len(list) > 0, NEW b \in Int,
           \A m \in 1 .. Len(list) : b <= Value(k, list[m]),
           b = Start(k) \/ \E m \in 1 .. Len(list) : b = Value(k, list[m])
    PROVE  {r \in Range(list) : ~ (Value(k, r) > b)} = DP_RULES(k, Range(list))
  <1> DEFINE S == Range(list)
  <1>1. /\ S \subseteq Routes
        /\ \A m \in 1 .. Len(list) : list[m] \in S
        /\ \A x \in S : \E m \in 1 .. Len(list) : x = list[m]
    BY RangeOf
  <1> HIDE DEF S
  <1>2. \A r \in S : Value(k, r) \in Int /\ Value(k, r) <= Start(k) /\ Start(k) \in Int
    BY Zenon, <1>1, ValueTypes
  <1>3. \A r \in S : b <= Value(k, r)
    BY Zenon, <1>1
  <1>4. \E r \in S : b = Value(k, r)
    <2>1. CASE b = Start(k)
      <3>1. list[1] \in S
        BY <1>1
      <3> QED
        BY <2>1, <3>1, <1>2, <1>3
    <2>2. CASE \E m \in 1 .. Len(list) : b = Value(k, list[m])
      BY Zenon, <2>2, <1>1
    <2> QED
      BY <2>1, <2>2
  <1>5. DP_RULES(k, S) = {r \in S : \A q \in S : Value(k, r) <= Value(k, q)}
    BY Zenon, <1>1, RuleKeepsLeast
  <1>6. \A r \in S : ~ (Value(k, r) > b) <=> \A q \in S : Value(k, r) <= Value(k, q)
    BY <1>2, <1>3, <1>4
  <1> QED
    BY Zenon, <1>5, <1>6 DEF S

-----------------------------------------------------------------------------
(* The rules still to come.                                                  *)

LEMMA RestCases ==
    ASSUME NEW S
    PROVE  /\ Rest(0, S) = Rest0(S) /\ Rest(1, S) = Rest1(S) /\ Rest(2, S) = Rest2(S)
           /\ Rest(3, S) = Rest3(S) /\ Rest(4, S) = Rest4(S) /\ Rest(5, S) = Rest5(S)
           /\ Rest(6, S) = Rest6(S) /\ Rest(7, S) = Rest7(S) /\ Rest(8, S) = Rest8(S)
           /\ Rest(9, S) = Rest9(S)
  BY DEF Rest

LEMMA RestOfRun ==
    ASSUME NEW S
    PROVE  Rest(0, S) = decision_process_run(S) /\ Rest(9, S) = S
  <1>1. Rest0(S) = decision_process_run(S)
    BY Zenon DEF Rest0, Rest1, Rest2, Rest3, Rest4, Rest5, Rest6, Rest7, Rest8,
                 decision_process_run
  <1>2. Rest9(S) = S
    BY DEF Rest9
  <1> QED
    BY Zenon, <1>1, <1>2, RestCases

LEMMA RestStep ==
    ASSUME NEW k \in 0 .. 8, NEW S
    PROVE  Rest(k, S) = Rest(k + 1, Turn(S, DP_RULES(k + 1, S)))
  <1>1. CASE k = 0
    <2>1. Rest(0, S) = Rest(1, Turn(S, dp_rule_highest_pref(S)))
      BY Zenon, RestCases DEF Rest0
    <2>2. DP_RULES(1, S) = dp_rule_highest_pref(S)
      BY DEF DP_RULES
    <2>3. k + 1 = 1
      BY <1>1
    <2> QED
      BY Zenon, <1>1, <2>1, <2>2, <2>3
  <1>2. CASE k = 1
    <2>1. Rest(1, S) = Rest(2, Turn(S, dp_rule_shortest_path(S)))
      BY Zenon, RestCases DEF Rest1
    <2>2. DP_RULES(2, S) = dp_rule_shortest_path(S)
      BY DEF DP_RULES
    <2>3. k + 1 = 2
      BY <1>2
    <2> QED
      BY Zenon, <1>2, <2>1, <2>2, <2>3
  <1>3. CASE k = 2
    <2>1. Rest(2, S) = Rest(3, Turn(S, dp_rule_lowest_origin(S)))
      BY Zenon, RestCases DEF Rest2
    <2>2. DP_RULES(3, S) = dp_rule_lowest_origin(S)
      BY DEF DP_RULES
    <2>3. k + 1 = 3
      BY <1>3
    <2> QED
      BY Zenon, <1>3, <2>1, <2>2, <2>3
  <1>4. CASE k = 3
    <2>1. Rest(3, S) = Rest(4, Turn(S, dp_rule_lowest_med(S)))
      BY Zenon, RestCases DEF Rest3
    <2>2. DP_RULES(4, S) = dp_rule_lowest_med(S)
      BY DEF DP_RULES
    <2>3. k + 1 = 4
      BY <1>4
    <2> QED
      BY Zenon, <1>4, <2>1, <2>2, <2>3
  <1>5. CASE k = 4
    <2>1. Rest(4, S) = Rest(5, Turn(S, dp_rule_ebgp_over_ibgp(S)))
      BY Zenon, RestCases DEF Rest4
    <2>2. DP_RULES(5, S) = dp_rule_ebgp_over_ibgp(S)
      BY DEF DP_RULES
    <2>3. k + 1 = 5
      BY <1>5
    <2> QED
      BY Zenon, <1>5, <2>1, <2>2, <2>3
  <1>6. CASE k = 5
    <2>1. Rest(5, S) = Rest(6, Turn(S, dp_rule_nearest_next_hop(S)))
      BY Zenon, RestCases DEF Rest5
    <2>2. DP_RULES(6, S) = dp_rule_nearest_next_hop(S)
      BY DEF DP_RULES
    <2>3. k + 1 = 6
      BY <1>6
    <2> QED
      BY Zenon, <1>6, <2>1, <2>2, <2>3
  <1>7. CASE k = 6
    <2>1. Rest(6, S) = Rest(7, Turn(S, dp_rule_lowest_router_id(S)))
      BY Zenon, RestCases DEF Rest6
    <2>2. DP_RULES(7, S) = dp_rule_lowest_router_id(S)
      BY DEF DP_RULES
    <2>3. k + 1 = 7
      BY <1>7
    <2> QED
      BY Zenon, <1>7, <2>1, <2>2, <2>3
  <1>8. CASE k = 7
    <2>1. Rest(7, S) = Rest(8, Turn(S, dp_rule_shortest_cluster_list(S)))
      BY Zenon, RestCases DEF Rest7
    <2>2. DP_RULES(8, S) = dp_rule_shortest_cluster_list(S)
      BY DEF DP_RULES
    <2>3. k + 1 = 8
      BY <1>8
    <2> QED
      BY Zenon, <1>8, <2>1, <2>2, <2>3
  <1>9. CASE k = 8
    <2>1. Rest(8, S) = Rest(9, Turn(S, dp_rule_lowest_neighbor_address(S)))
      BY Zenon, RestCases DEF Rest8, Rest9
    <2>2. DP_RULES(9, S) = dp_rule_lowest_neighbor_address(S)
      BY DEF DP_RULES
    <2>3. k + 1 = 9
      BY <1>9
    <2> QED
      BY Zenon, <1>9, <2>1, <2>2, <2>3
  <1> QED
    BY <1>1, <1>2, <1>3, <1>4, <1>5, <1>6, <1>7, <1>8, <1>9

(* Without a choice to make the rules do nothing.                            *)
LEMMA RestOfOne ==
    ASSUME NEW k \in 0 .. 9, NEW S, \A r, q \in S : r = q
    PROVE  Rest(k, S) = S
  <1>1. \A T : Turn(S, T) = S
    BY DEF Turn
  <1>2. ASSUME NEW n \in 0 .. 8
        PROVE  Rest(n, S) = Rest(n + 1, S)
    <2>1. Turn(S, DP_RULES(n + 1, S)) = S
      BY Zenon, <1>1
    <2>2. Rest(n, S) = Rest(n + 1, Turn(S, DP_RULES(n + 1, S)))
      BY RestStep
    <2> QED
      BY Zenon, <2>1, <2>2
  <1>3. Rest(9, S) = S
    BY RestOfRun
  <1> QED
    BY <1>2, <1>3

-----------------------------------------------------------------------------
(* Removing one route from a list.                                           *)

LEMMA RemoveFacts ==
    ASSUME NEW T, NEW s \in Seq(T), NEW k \in 1 .. Len(s)
    PROVE  /\ ptr_array_remove_at(s, k) \in Seq(T)
           /\ Len(ptr_array_remove_at(s, k)) = Len(s) - 1
           /\ \A m \in 1 .. Len(s) - 1 :
                 /\ m < k => ptr_array_remove_at(s, k)[m] = s[m]
                 /\ m >= k => ptr_array_remove_at(s, k)[m] = s[m + 1]
  BY DEF ptr_array_remove_at

LEMMA RemoveRange ==
    ASSUME NEW T, NEW s \in Seq(T), NEW k \in 1 .. Len(s)
    PROVE  /\ Range(ptr_array_remove_at(s, k)) \subseteq Range(s)
           /\ \A x \in Range(s) : x = s[k] \/ x \in Range(ptr_array_remove_at(s, k))
  <1> DEFINE t == ptr_array_remove_at(s, k)
  <1>1. /\ t \in Seq(T)
        /\ Len(t) = Len(s) - 1
        /\ \A m \in 1 .. Len(s) - 1 : /\ m < k => t[m] = s[m]
                                      /\ m >= k => t[m] = s[m + 1]
    BY Zenon, RemoveFacts
  <1> HIDE DEF t
  <1>2. /\ \A m \in 1 .. Len(t) : t[m] \in Range(t)
        /\ \A x \in Range(t) : \E m \in 1 .. Len(t) : x = t[m]
        /\ \A m \in 1 .. Len(s) : s[m] \in Range(s)
        /\ \A x \in Range(s) : \E m \in 1 .. Len(s) : x = s[m]
    BY Zenon, <1>1, RangeOf
  <1>3. ASSUME NEW x \in Range(t)
        PROVE  x \in Range(s)
    <2>1. PICK m \in 1 .. Len(t) : x = t[m]
      BY Zenon, <1>2
    <2>2. x = s[m] \/ x = s[m + 1]
      BY <2>1, <1>1
    <2>3. m \in 1 .. Len(s) /\ m + 1 \in 1 .. Len(s)
      BY <2>1, <1>1
    <2> QED
      BY Zenon, <1>2, <2>2, <2>3
  <1>4. ASSUME NEW x \in Range(s), x # s[k]
        PROVE  x \in Range(t)
    <2>1. PICK m \in 1 .. Len(s) : x = s[m]
      BY Zenon, <1>2
    <2>2. CASE m < k
      <3>1. m \in 1 .. Len(t) /\ x = t[m]
        BY <2>1, <2>2, <1>1
      <3> QED
        BY Zenon, <3>1, <1>2
    <2>3. CASE m > k
      <3>1. m - 1 \in 1 .. Len(t) /\ x = t[m - 1]
        BY <2>1, <2>3, <1>1
      <3> QED
        BY Zenon, <3>1, <1>2
    <2> QED
      BY <2>1, <2>2, <2>3, <1>4
  <1> QED
    BY Zenon, <1>3, <1>4 DEF t

LEMMA RemoveOrdered ==
    ASSUME NEW s \in Seq(Slots), Ordered(s), NEW k \in 1 .. Len(s)
    PROVE  Ordered(ptr_array_remove_at(s, k))
  <1> DEFINE t == ptr_array_remove_at(s, k)
             Old(m) == IF m < k THEN m ELSE m + 1
  <1>1. /\ t \in Seq(Slots)
        /\ Len(t) = Len(s) - 1
        /\ \A m \in 1 .. Len(s) - 1 : /\ m < k => t[m] = s[m]
                                      /\ m >= k => t[m] = s[m + 1]
    BY Zenon, RemoveFacts
  <1> HIDE DEF t
  <1>2. \A m \in 1 .. Len(t) : t[m] = s[Old(m)] /\ Old(m) \in 1 .. Len(s)
    BY <1>1
  <1>3. \A m, n \in 1 .. Len(t) : m < n => Old(m) < Old(n)
    BY <1>1
  <1> HIDE DEF Old
  <1>4. Ordered(t)
    BY Zenon, <1>2, <1>3 DEF Ordered
  <1> QED
    BY <1>4 DEF t
-----------------------------------------------------------------------------
(* Lists in the order of the addresses.                                      *)

LEMMA FeasibleIsOrdered ==
    ASSUME NEW list
    PROVE  FeasibleList(list) <=> list \in Seq(Routes) /\ Ordered(list)
  <1>1. ASSUME list \in Seq(Routes)
        PROVE  \A m \in 1 .. Len(list) : list[m] # NULL
    BY <1>1, NULLAssumption
  <1>2. ASSUME list \in Seq(Routes)
        PROVE  DOMAIN list = 1 .. Len(list)
    BY <1>2
  <1> QED
    BY Zenon, <1>1, <1>2 DEF FeasibleList, Ordered

LEMMA RoutesAreSlots ==
    ASSUME NEW list \in Seq(Routes)
    PROVE  list \in Seq(Slots)
  BY DEF Slots

LEMMA FilledSlots ==
    ASSUME NEW list \in Seq(Slots), \A m \in 1 .. Len(list) : list[m] # NULL
    PROVE  list \in Seq(Routes)
  BY DEF Slots

LEMMA SlotsDiffer ==
    ASSUME NEW list \in Seq(Slots), Ordered(list),
           NEW m \in 1 .. Len(list), NEW n \in 1 .. Len(list), m # n, list[m] # NULL
    PROVE  list[m] # list[n]
  <1> SUFFICES ASSUME list[m] = list[n]
               PROVE  FALSE
    OBVIOUS
  <1>1. list[m] \in Routes
    BY DEF Slots
  <1>2. list[m].addr \in Int
    BY <1>1, WidthAssumption DEF Routes
  <1>3. m < n \/ n < m
    OBVIOUS
  <1>4. list[m].addr < list[n].addr \/ list[n].addr < list[m].addr
    BY Zenon, <1>3 DEF Ordered
  <1> QED
    BY <1>2, <1>4

(* A list of more than one route offers a choice, and no other list does.    *)
LEMMA ChoiceInList ==
    ASSUME NEW list, FeasibleList(list)
    PROVE  (\A r, q \in Range(list) : r = q) <=> Len(list) <= 1
  <1>1. list \in Seq(Routes) /\ Ordered(list) /\ list \in Seq(Slots)
    BY Zenon, FeasibleIsOrdered, RoutesAreSlots
  <1>2. /\ \A m \in 1 .. Len(list) : list[m] \in Range(list)
        /\ \A x \in Range(list) : \E m \in 1 .. Len(list) : x = list[m]
        /\ Range(list) \subseteq Routes
    BY Zenon, <1>1, RangeOf
  <1>3. ASSUME Len(list) > 1
        PROVE  \E r, q \in Range(list) : r # q
    <2>1. 1 \in 1 .. Len(list) /\ 2 \in 1 .. Len(list)
      BY <1>1, <1>3
    <2>2. list[1] \in Range(list) /\ list[2] \in Range(list)
      BY Zenon, <1>2, <2>1
    <2>3. list[1] # NULL
      BY Zenon, <1>2, <2>2, NULLAssumption
    <2>4. list[1] # list[2]
      BY <1>1, <2>1, <2>3, SlotsDiffer
    <2> QED
      BY Zenon, <2>2, <2>4
  <1>4. ASSUME Len(list) <= 1, NEW r \in Range(list), NEW q \in Range(list)
        PROVE  r = q
    <2>1. PICK m \in 1 .. Len(list) : r = list[m]
      BY Zenon, <1>2
    <2>2. PICK n \in 1 .. Len(list) : q = list[n]
      BY Zenon, <1>2
    <2> QED
      BY <1>1, <1>4, <2>1, <2>2
  <1>5. Len(list) \in Nat
    BY <1>1
  <1>6. Len(list) > 1 \/ Len(list) <= 1
    BY <1>5
  <1>7. ~ (Len(list) > 1 /\ Len(list) <= 1)
    BY <1>5
  <1> QED
    BY Zenon, <1>3, <1>4, <1>6, <1>7

-----------------------------------------------------------------------------
(* Replacing one route by NULL.                                              *)

LEMMA NullFacts ==
    ASSUME NEW list \in Seq(Slots), Ordered(list), NEW k \in 1 .. Len(list), list[k] # NULL
    PROVE  /\ [list EXCEPT ![k] = NULL] \in Seq(Slots)
           /\ Ordered([list EXCEPT ![k] = NULL])
           /\ Left([list EXCEPT ![k] = NULL]) = Left(list) \ {list[k]}
  <1> DEFINE t == [list EXCEPT ![k] = NULL]
  <1>1. t \in Seq(Slots)
    BY DEF Slots
  <1>2. Len(t) = Len(list) /\ t[k] = NULL /\ \A m \in 1 .. Len(list) : m # k => t[m] = list[m]
    OBVIOUS
  <1> HIDE DEF t
  <1>3. Ordered(t)
    <2> SUFFICES ASSUME NEW m \in 1 .. Len(t), NEW n \in 1 .. Len(t), m < n,
                        t[m] # NULL, t[n] # NULL
                 PROVE  t[m].addr < t[n].addr
      BY DEF Ordered
    <2>1. m # k /\ n # k
      BY Zenon, <1>2
    <2>2. t[m] = list[m] /\ t[n] = list[n]
      BY Zenon, <1>2, <2>1
    <2> QED
      BY Zenon, <1>2, <2>2 DEF Ordered
  <1>4. /\ \A m \in 1 .. Len(list) : list[m] \in Range(list) /\ t[m] \in Range(t)
        /\ \A x \in Range(list) : \E m \in 1 .. Len(list) : x = list[m]
        /\ \A x \in Range(t) : \E m \in 1 .. Len(list) : x = t[m]
    <2>1. /\ \A m \in 1 .. Len(t) : t[m] \in Range(t)
          /\ \A x \in Range(t) : \E m \in 1 .. Len(t) : x = t[m]
      BY Zenon, <1>1, RangeOf
    <2>2. /\ \A m \in 1 .. Len(list) : list[m] \in Range(list)
          /\ \A x \in Range(list) : \E m \in 1 .. Len(list) : x = list[m]
      BY Zenon, RangeOf
    <2> QED
      BY Zenon, <2>1, <2>2, <1>2
  <1>5. ASSUME NEW x \in Left(t)
        PROVE  x \in Left(list) \ {list[k]}
    <2>1. PICK m \in 1 .. Len(list) : x = t[m] /\ x # NULL
      BY Zenon, <1>4 DEF Left
    <2>2. m # k /\ x = list[m]
      BY Zenon, <1>2, <2>1
    <2>3. list[m] # list[k]
      BY <2>1, <2>2, SlotsDiffer
    <2> QED
      BY Zenon, <1>4, <2>1, <2>2, <2>3 DEF Left
  <1>6. ASSUME NEW x \in Left(list), x # list[k]
        PROVE  x \in Left(t)
    <2>1. PICK m \in 1 .. Len(list) : x = list[m] /\ x # NULL
      BY Zenon, <1>4 DEF Left
    <2>2. m # k
      BY Zenon, <2>1, <1>6
    <2>3. x = t[m]
      BY Zenon, <1>2, <2>1, <2>2
    <2> QED
      BY Zenon, <1>4, <2>1, <2>3 DEF Left
  <1>7. Left(t) = Left(list) \ {list[k]}
    BY Zenon, <1>5, <1>6
  <1> QED
    BY Zenon, <1>1, <1>3, <1>7 DEF t

(* A route that one of the same AS beats does not decide about the others:   *)
(* that one beats whatever it beats.                                         *)
LEMMA LoserIsNotMissed ==
    ASSUME MedType = "deterministic", NEW L \in SUBSET Routes, NEW p \in L, NEW q \in L,
           p.last_as = q.last_as, p.med < q.med
    PROVE  dp_rule_lowest_med(L \ {q}) = dp_rule_lowest_med(L)
  <1>1. \A r \in L : r.med \in Int
    BY WidthAssumption DEF Routes
  <1>2. p # q
    BY <1>1
  <1>3. ASSUME NEW r \in dp_rule_lowest_med(L)
        PROVE  r \in dp_rule_lowest_med(L \ {q})
    <2>1. r \in L /\ \A s \in L : r.last_as = s.last_as => r.med <= s.med
      BY <1>3 DEF dp_rule_lowest_med, Comparable
    <2>2. r # q
      BY <1>1, <2>1
    <2> QED
      BY <2>1, <2>2 DEF dp_rule_lowest_med, Comparable
  <1>4. ASSUME NEW r \in dp_rule_lowest_med(L \ {q})
        PROVE  r \in dp_rule_lowest_med(L)
    <2>1. r \in L /\ \A s \in L \ {q} : r.last_as = s.last_as => r.med <= s.med
      BY <1>4 DEF dp_rule_lowest_med, Comparable
    <2>2. r.last_as = q.last_as => r.med <= p.med
      BY <1>2, <2>1
    <2>3. r.last_as = q.last_as => r.med <= q.med
      BY <1>1, <2>1, <2>2
    <2> QED
      BY <2>1, <2>3 DEF dp_rule_lowest_med, Comparable
  <1> QED
    BY Zenon, <1>3, <1>4

(* Routes none of which beats another one of its AS are all kept.            *)
LEMMA EqualAreKept ==
    ASSUME MedType = "deterministic", NEW list \in Seq(Slots),
           \A m, n \in 1 .. Len(list) : m < n => EqualAt(list, m, n)
    PROVE  dp_rule_lowest_med(Left(list)) = Left(list)
  <1>1. \A x \in Left(list) : x # NULL /\ x \in Routes /\ \E m \in 1 .. Len(list) : x = list[m]
    <2>1. /\ \A x \in Range(list) : \E m \in 1 .. Len(list) : x = list[m]
          /\ Range(list) \subseteq Slots
      BY Zenon, RangeOf
    <2> QED
      BY Zenon, <2>1 DEF Left, Slots
  <1>2. \A x \in Left(list) : x.med \in Int
    BY <1>1, WidthAssumption DEF Routes
  <1>3. ASSUME NEW x \in Left(list), NEW y \in Left(list), x.last_as = y.last_as
        PROVE  x.med = y.med
    <2>1. PICK m \in 1 .. Len(list) : x = list[m]
      BY Zenon, <1>1
    <2>2. PICK n \in 1 .. Len(list) : y = list[n]
      BY Zenon, <1>1
    <2>3. m < n \/ n < m \/ m = n
      OBVIOUS
    <2>4. x # NULL /\ y # NULL
      BY Zenon, <1>1
    <2> QED
      BY Zenon, <1>3, <2>1, <2>2, <2>3, <2>4 DEF EqualAt
  <1>4. \A x, y \in Left(list) : Comparable(x, y) => x.med <= y.med
    BY <1>2, <1>3 DEF Comparable
  <1> QED
    BY Zenon, <1>4 DEF dp_rule_lowest_med
-----------------------------------------------------------------------------
(* Every step of the loops keeps the invariant.                              *)

LEMMA InitHolds == Init => RunInv
  <1> SUFFICES ASSUME Init
               PROVE  RunInv
    OBVIOUS
  <1>1. FeasibleList(given)
    BY ListsAssumption DEF Init
  <1>2. given \in Seq(Slots) /\ Ordered(given)
    BY Zenon, <1>1, FeasibleIsOrdered, RoutesAreSlots
  <1>3. TypeInv
    BY <1>1, <1>2 DEF Init, TypeInv, LastRule
  <1>4. BetweenRules
    BY <1>1, RestOfRun DEF Init, BetweenRules
  <1> QED
    BY <1>3, <1>4 DEF Init, RunInv

LEMMA EnterRuleHolds ==
    ASSUME RunInv, EnterRule
    PROVE  RunInv'
  <1>1. /\ pc = "loop" /\ index < LastRule /\ Len(routes) > 1
        /\ pc' = (IF Nested THEN "compare" ELSE "scan")
        /\ i' = 1 /\ j' = 2 /\ bound' = Start(rule) /\ before' = routes
        /\ given' = given /\ routes' = routes /\ index' = index
    BY DEF EnterRule
  <1>2. TypeInv /\ BetweenRules
    BY Zenon, <1>1 DEF RunInv
  <1>3. FeasibleList(routes) /\ routes \in Seq(Routes) /\ Ordered(routes)
    BY Zenon, <1>2, FeasibleIsOrdered DEF BetweenRules
  <1>4. rule' = rule /\ (Nested' <=> Nested)
    BY <1>1 DEF rule, Nested
  <1>5. rule \in 1 .. 9
    BY <1>1, <1>2 DEF TypeInv, rule, LastRule
  <1>6. routes[1] \in Routes
    BY <1>1, <1>3
  <1>7. Start(rule) \in Int
    BY Zenon, <1>5, <1>6, ValueTypes
  <1>8. TypeInv'
    BY <1>1, <1>2, <1>3, <1>7 DEF TypeInv
  <1>9. InRule'
    BY <1>1, <1>2, <1>3 DEF InRule, BetweenRules
  <1>10. CASE Nested
    <2>1. NULL \notin Range(routes)
      BY <1>3, RangeOf, NULLAssumption
    <2>2. Left(routes') = Range(before')
      BY <1>1, <2>1 DEF Left
    <2>3. CompareAt(routes', i', j')
      BY <1>1, <1>3 DEF CompareAt
    <2>4. Comparing'
      BY <1>1, <1>4, <1>10, <2>2, <2>3 DEF Comparing
    <2> QED
      BY Zenon, <1>1, <1>8, <1>9, <1>10, <2>4 DEF RunInv
  <1>11. CASE ~ Nested
    <2>1. ScanAt(rule', routes', i', bound')
      BY <1>1, <1>4 DEF ScanAt
    <2>2. Scanning'
      BY Zenon, <1>1, <1>4, <1>11, <2>1 DEF Scanning
    <2> QED
      BY Zenon, <1>1, <1>8, <1>9, <1>11, <2>2 DEF RunInv
  <1> QED
    BY <1>10, <1>11

LEMMA ScanHolds ==
    ASSUME RunInv, Scan
    PROVE  RunInv'
  <1> DEFINE v == Value(rule, routes[i])
  <1>1. /\ pc = "scan" /\ pc' = "scan" /\ i' = i + 1
        /\ bound' = (IF v < bound THEN v ELSE bound)
        /\ given' = given /\ routes' = routes /\ index' = index /\ j' = j /\ before' = before
    BY DEF Scan
  <1>2. TypeInv /\ InRule /\ Scanning
    BY Zenon, <1>1 DEF RunInv
  <1>3. rule' = rule /\ (Nested' <=> Nested)
    BY <1>1 DEF rule, Nested
  <1>4. rule \in 1 .. 9
    BY <1>2 DEF TypeInv, InRule, rule, LastRule
  <1>5. routes \in Seq(Routes) /\ ~ Nested /\ routes = before /\ ScanAt(rule, routes, i, bound)
    BY Zenon, <1>2 DEF Scanning, InRule
  <1>6. ~ (i > Len(routes))
    BY DEF Scan, Scanned
  <1>7. i \in 1 .. Len(routes) /\ bound \in Int
    BY <1>2, <1>5, <1>6 DEF TypeInv
  <1>8. \A m \in 1 .. Len(routes) : Value(rule, routes[m]) \in Int
    <2>1. \A m \in 1 .. Len(routes) : routes[m] \in Routes
      BY <1>5
    <2> QED
      BY Zenon, <1>4, <2>1, ValueTypes
  <1>9. v \in Int
    BY Zenon, <1>7, <1>8
  <1>10. bound' \in Int /\ bound' <= bound /\ bound' <= v /\ (bound' = bound \/ bound' = v)
    <2> HIDE DEF v
    <2> QED
      BY <1>1, <1>7, <1>9
  <1>11. ScanAt(rule', routes', i', bound')
    <2>1. ASSUME NEW m \in 1 .. Len(routes), m < i + 1
          PROVE  bound' <= Value(rule, routes[m])
      <3>1. CASE m = i
        BY <1>10, <3>1
      <3>2. CASE m < i
        <4>1. bound <= Value(rule, routes[m])
          BY Zenon, <1>5, <3>2 DEF ScanAt
        <4>2. Value(rule, routes[m]) \in Int
          BY Zenon, <1>8
        <4> QED
          BY <4>1, <4>2, <1>7, <1>10
      <3> QED
        BY <2>1, <1>7, <3>1, <3>2
    <2>2. bound' = Start(rule) \/ \E m \in 1 .. Len(routes) : bound' = Value(rule, routes[m])
      BY Zenon, <1>5, <1>7, <1>10 DEF ScanAt
    <2> QED
      BY Zenon, <1>1, <1>3, <2>1, <2>2 DEF ScanAt
  <1>12. TypeInv'
    BY <1>1, <1>2, <1>7, <1>10 DEF TypeInv
  <1>13. InRule'
    BY Zenon, <1>1, <1>2, <1>3 DEF InRule
  <1>14. Scanning'
    BY Zenon, <1>1, <1>3, <1>5, <1>11 DEF Scanning
  <1> QED
    BY Zenon, <1>1, <1>12, <1>13, <1>14 DEF RunInv

LEMMA EndScanHolds ==
    ASSUME RunInv, EndScan
    PROVE  RunInv'
  <1>1. /\ pc = "scan" /\ pc' = "discard" /\ i' = 1 /\ Scanned
        /\ given' = given /\ routes' = routes /\ index' = index /\ j' = j
        /\ bound' = bound /\ before' = before
    BY DEF EndScan
  <1>2. TypeInv /\ InRule /\ Scanning
    BY Zenon, <1>1 DEF RunInv
  <1>3. rule' = rule /\ (Nested' <=> Nested)
    BY <1>1 DEF rule, Nested
  <1>4. rule \in 1 .. 9
    BY <1>2 DEF TypeInv, InRule, rule, LastRule
  <1>5. routes \in Seq(Routes) /\ ~ Nested /\ routes = before /\ ScanAt(rule, routes, i, bound)
    BY Zenon, <1>2 DEF Scanning, InRule
  <1>6. bound \in Int /\ i \in Nat /\ Len(routes) > 0
    BY <1>2, <1>5 DEF TypeInv, InRule
  <1>7. \A m \in 1 .. Len(routes) : bound <= Value(rule, routes[m])
    <2>1. CASE i > Len(routes)
      <3>1. \A m \in 1 .. Len(routes) : m < i
        BY <1>5, <1>6, <2>1
      <3> QED
        BY Zenon, <1>5, <3>1 DEF ScanAt
    <2>2. CASE rule = EBGP /\ bound = 0
      <3>1. \A m \in 1 .. Len(routes) : routes[m] \in Routes
        BY <1>5
      <3>2. \A m \in 1 .. Len(routes) : Value(EBGP, routes[m]) >= 0 /\ Value(EBGP, routes[m]) \in Int
        BY Zenon, <1>4, <2>2, <3>1, EbgpValue, ValueTypes
      <3> QED
        BY <2>2, <3>2
    <2> QED
      BY Zenon, <1>1, <2>1, <2>2 DEF Scanned
  <1>8. rule # MED \/ MedType = "always-compare"
    BY <1>5, MedTypeAssumption DEF Nested
  <1>9. {r \in Range(routes) : ~ (Value(rule, r) > bound)} = DP_RULES(rule, Range(routes))
    <2>1. bound = Start(rule) \/ \E m \in 1 .. Len(routes) : bound = Value(rule, routes[m])
      BY Zenon, <1>5 DEF ScanAt
    <2> QED
      BY <1>4, <1>5, <1>6, <1>7, <1>8, <2>1, ScanIsFilter
  <1>10. {r \in Range(routes') : ~ Excluded(r)'} = DP_RULES(rule', Range(before'))
    BY <1>1, <1>3, <1>5, <1>9 DEF Excluded
  <1>11. \A m \in 1 .. Len(routes') : m < i' => ~ Excluded(routes[m])'
    BY <1>1, <1>5
  <1>12. Discarding'
    BY <1>1, <1>10, <1>11 DEF Discarding
  <1>13. TypeInv'
    BY <1>1, <1>2 DEF TypeInv
  <1>14. InRule'
    BY Zenon, <1>1, <1>2, <1>3 DEF InRule
  <1> QED
    BY Zenon, <1>1, <1>12, <1>13, <1>14 DEF RunInv
LEMMA DiscardHolds ==
    ASSUME RunInv, Discard
    PROVE  RunInv'
  <1>1. /\ pc = "discard" /\ pc' = "discard" /\ i <= Len(routes)
        /\ given' = given /\ index' = index /\ j' = j
        /\ bound' = bound /\ before' = before
    BY DEF Discard
  <1>2. TypeInv /\ InRule /\ Discarding
    BY Zenon, <1>1 DEF RunInv
  <1>3. rule' = rule /\ (Nested' <=> Nested)
    BY <1>1 DEF rule, Nested
  <1>4. routes \in Seq(Slots) /\ Ordered(routes) /\ i \in 1 .. Len(routes)
    BY <1>1, <1>2 DEF TypeInv
  <1>5. \A r : Excluded(r)' <=> Excluded(r)
    BY <1>1, <1>3 DEF Excluded
  <1>6. CASE ~ Excluded(routes[i]) /\ routes' = routes /\ i' = i + 1
    <2>1. \A m \in 1 .. Len(routes) : m < i + 1 => m < i \/ m = i
      BY <1>4
    <2>2. \A m \in 1 .. Len(routes) : m < i + 1 => ~ Excluded(routes[m])
      BY Zenon, <1>2, <1>6, <2>1 DEF Discarding
    <2>3. Discarding'
      BY <1>1, <1>2, <1>3, <1>5, <1>6, <2>2 DEF Discarding
    <2>4. TypeInv'
      BY <1>1, <1>2, <1>6 DEF TypeInv
    <2>5. InRule'
      BY Zenon, <1>1, <1>2, <1>3, <1>6 DEF InRule
    <2> QED
      BY Zenon, <1>1, <2>3, <2>4, <2>5 DEF RunInv
  <1>7. CASE Excluded(routes[i]) /\ routes' = ptr_array_remove_at(routes, i) /\ i' = i
    <2>1. /\ routes' \in Seq(Slots)
          /\ Len(routes') = Len(routes) - 1
          /\ \A m \in 1 .. Len(routes) - 1 : m < i => routes'[m] = routes[m]
      BY Zenon, <1>4, <1>7, RemoveFacts
    <2>2. /\ Range(routes') \subseteq Range(routes)
          /\ \A x \in Range(routes) : x = routes[i] \/ x \in Range(routes')
      BY Zenon, <1>4, <1>7, RemoveRange
    <2>3. Ordered(routes')
      BY Zenon, <1>4, <1>7, RemoveOrdered
    <2>4. {r \in Range(routes') : ~ Excluded(r)} = {r \in Range(routes) : ~ Excluded(r)}
      BY Zenon, <1>7, <2>2
    <2>5. \A m \in 1 .. Len(routes') : m < i => ~ Excluded(routes'[m])
      <3>1. \A m \in 1 .. Len(routes') : m \in 1 .. Len(routes) /\ m \in 1 .. Len(routes) - 1
        BY <2>1, <1>4
      <3> QED
        BY Zenon, <1>2, <2>1, <3>1 DEF Discarding
    <2>6. Discarding'
      <3>1. {r \in Range(routes') : ~ Excluded(r)'} = {r \in Range(routes') : ~ Excluded(r)}
        BY Zenon, <1>5
      <3>2. {r \in Range(routes') : ~ Excluded(r)} = DP_RULES(rule, Range(before))
        BY Zenon, <1>2, <2>4 DEF Discarding
      <3>3. {r \in Range(routes') : ~ Excluded(r)'} = DP_RULES(rule', Range(before'))
        BY Zenon, <1>1, <1>3, <3>1, <3>2
      <3>4. \A m \in 1 .. Len(routes') : m < i' => ~ Excluded(routes[m])'
        BY <1>1, <1>3, <1>7, <2>5 DEF Excluded
      <3> QED
        BY <3>3, <3>4 DEF Discarding
    <2>7. ~ Nested => routes' \in Seq(Routes)
      BY Zenon, <1>2, <1>4, <1>7, RemoveFacts DEF InRule
    <2>8. TypeInv'
      BY <1>1, <1>2, <1>7, <2>1, <2>3 DEF TypeInv
    <2>9. InRule'
      BY Zenon, <1>1, <1>2, <1>3, <2>7 DEF InRule
    <2> QED
      BY Zenon, <1>1, <2>6, <2>8, <2>9 DEF RunInv
  <1> QED
    BY Zenon, <1>6, <1>7 DEF Discard

LEMMA EndRuleHolds ==
    ASSUME RunInv, EndRule
    PROVE  RunInv'
  <1>1. /\ pc = "discard" /\ pc' = "loop" /\ i > Len(routes) /\ index' = index + 1
        /\ given' = given /\ routes' = routes /\ i' = i /\ j' = j
        /\ bound' = bound /\ before' = before
    BY DEF EndRule
  <1>2. TypeInv /\ InRule /\ Discarding
    BY Zenon, <1>1 DEF RunInv
  <1>3. routes \in Seq(Slots) /\ Ordered(routes) /\ index \in 0 .. 8 /\ i \in Nat
    BY <1>2 DEF TypeInv, InRule, LastRule
  <1>4. \A m \in 1 .. Len(routes) : ~ Excluded(routes[m])
    <2>1. \A m \in 1 .. Len(routes) : m < i
      BY <1>1, <1>3
    <2> QED
      BY Zenon, <1>2, <2>1 DEF Discarding
  <1>5. routes \in Seq(Routes)
    <2>1. CASE Nested
      <3>1. \A m \in 1 .. Len(routes) : routes[m] # NULL
        BY <1>4, <2>1 DEF Excluded
      <3> QED
        BY Zenon, <1>3, <3>1, FilledSlots
    <2>2. CASE ~ Nested
      BY Zenon, <1>2, <2>2 DEF InRule
    <2> QED
      BY <2>1, <2>2
  <1>6. FeasibleList(routes)
    BY Zenon, <1>3, <1>5, FeasibleIsOrdered
  <1>7. Range(routes) = DP_RULES(rule, Range(before))
    <2>1. \A x \in Range(routes) : ~ Excluded(x)
      <3>1. \A x \in Range(routes) : \E m \in 1 .. Len(routes) : x = routes[m]
        BY Zenon, <1>3, RangeOf
      <3> QED
        BY Zenon, <1>4, <3>1
    <2>2. Range(routes) = {r \in Range(routes) : ~ Excluded(r)}
      BY Zenon, <2>1
    <2> QED
      BY Zenon, <1>2, <2>2 DEF Discarding
  <1>8. Turn(Range(before), DP_RULES(rule, Range(before))) = Range(routes)
    <2>1. FeasibleList(before) /\ Len(before) > 1
      BY Zenon, <1>2 DEF TypeInv, InRule
    <2>2. Len(before) \in Nat
      BY <2>1 DEF FeasibleList
    <2>3. ~ (Len(before) <= 1)
      BY <2>1, <2>2
    <2>4. ~ \A r, q \in Range(before) : r = q
      BY Zenon, <2>1, <2>3, ChoiceInList
    <2> QED
      BY Zenon, <1>7, <2>4 DEF Turn
  <1>9. Rest(index + 1, Range(routes)) = decision_process_run(Range(given))
    <2>1. Rest(index, Range(before)) = decision_process_run(Range(given))
      BY Zenon, <1>2 DEF InRule
    <2>2. Rest(index, Range(before))
            = Rest(index + 1, Turn(Range(before), DP_RULES(index + 1, Range(before))))
      BY Zenon, <1>3, RestStep
    <2> QED
      BY Zenon, <1>8, <2>1, <2>2 DEF rule
  <1>10. BetweenRules'
    BY Zenon, <1>1, <1>6, <1>7, <1>9 DEF BetweenRules, rule
  <1>11. TypeInv'
    BY <1>1, <1>2, <1>3 DEF TypeInv, LastRule
  <1> QED
    BY Zenon, <1>1, <1>10, <1>11 DEF RunInv

LEMMA CompareHolds ==
    ASSUME RunInv, Compare
    PROVE  RunInv'
  <1>1. /\ pc = "compare" /\ pc' = "compare" /\ i <= Len(routes)
        /\ given' = given /\ index' = index /\ bound' = bound /\ before' = before
    BY DEF Compare
  <1>2. TypeInv /\ InRule /\ Comparing
    BY Zenon, <1>1 DEF RunInv
  <1>3. rule' = rule /\ (Nested' <=> Nested)
    BY <1>1 DEF rule, Nested
  <1>4. /\ routes \in Seq(Slots) /\ Ordered(routes)
        /\ i \in 1 .. Len(routes) /\ j \in Nat /\ i < j
    BY <1>1, <1>2 DEF TypeInv, Comparing
  <1>5. /\ Nested /\ MedType = "deterministic" /\ CompareAt(routes, i, j)
        /\ dp_rule_lowest_med(Left(routes)) = dp_rule_lowest_med(Range(before))
    BY Zenon, <1>2 DEF Comparing, Nested
  <1> SUFFICES /\ routes' \in Seq(Slots) /\ Ordered(routes')
               /\ i' \in Nat \ {0} /\ j' \in Nat /\ i' < j'
               /\ dp_rule_lowest_med(Left(routes')) = dp_rule_lowest_med(Left(routes))
               /\ CompareAt(routes', i', j')
    <2> SUFFICES ASSUME /\ routes' \in Seq(Slots) /\ Ordered(routes')
                        /\ i' \in Nat \ {0} /\ j' \in Nat /\ i' < j'
                        /\ dp_rule_lowest_med(Left(routes')) = dp_rule_lowest_med(Left(routes))
                        /\ CompareAt(routes', i', j')
                 PROVE  RunInv'
      BY Zenon
    <2>1. TypeInv'
      BY <1>1, <1>2 DEF TypeInv
    <2>2. InRule'
      BY Zenon, <1>1, <1>2, <1>3, <1>5 DEF InRule
    <2>3. Comparing'
      BY Zenon, <1>1, <1>3, <1>5 DEF Comparing
    <2> QED
      BY Zenon, <1>1, <2>1, <2>2, <2>3 DEF RunInv
  <1>6. CASE InnerDone /\ routes' = routes /\ NextOuter
    <2>1. i' = i + 1 /\ j' = i + 2
      BY <1>6 DEF NextOuter
    <2>2. ASSUME NEW m \in 1 .. Len(routes), NEW n \in 1 .. Len(routes), m < n,
                 m < i + 1 \/ (m = i + 1 /\ n < i + 2)
          PROVE  EqualAt(routes, m, n)
      <3>1. m < i \/ m = i
        BY <1>4, <2>2
      <3>2. CASE m < i
        BY Zenon, <1>5, <2>2, <3>2 DEF CompareAt
      <3>3. CASE m = i /\ j > Len(routes)
        <4>1. n < j
          BY <1>4, <3>3
        <4> QED
          BY Zenon, <1>5, <2>2, <3>3, <4>1 DEF CompareAt
      <3>4. CASE m = i /\ routes[i] = NULL
        BY Zenon, <3>4 DEF EqualAt
      <3> QED
        BY Zenon, <1>6, <3>1, <3>2, <3>3, <3>4 DEF InnerDone
    <2>3. CompareAt(routes', i', j')
      BY Zenon, <1>6, <2>1, <2>2 DEF CompareAt
    <2> QED
      BY <1>4, <1>6, <2>1, <2>3
  <1> DEFINE p == routes[i]
             q == routes[j]
  <1>7. ASSUME ~ InnerDone
        PROVE  p # NULL /\ p \in Routes /\ j \in 1 .. Len(routes)
    <2>1. p # NULL /\ ~ (j > Len(routes))
      BY Zenon, <1>7 DEF InnerDone
    <2> QED
      BY <1>4, <2>1 DEF Slots
  <1>8. CASE /\ ~ InnerDone
             /\ Compared(p, q) => p.med = q.med
             /\ routes' = routes /\ NextInner
    <2>1. i' = i /\ j' = j + 1
      BY <1>8 DEF NextInner
    <2>2. ASSUME NEW m \in 1 .. Len(routes), NEW n \in 1 .. Len(routes), m < n,
                 m < i \/ (m = i /\ n < j + 1)
          PROVE  EqualAt(routes, m, n)
      <3>1. (m < i \/ (m = i /\ n < j)) \/ (m = i /\ n = j)
        BY <1>4, <2>2
      <3>2. CASE m < i \/ (m = i /\ n < j)
        BY Zenon, <1>5, <2>2, <3>2 DEF CompareAt
      <3>3. CASE m = i /\ n = j
        BY Zenon, <1>8, <3>3 DEF EqualAt, Compared
      <3> QED
        BY Zenon, <3>1, <3>2, <3>3
    <2>3. CompareAt(routes', i', j')
      BY Zenon, <1>8, <2>1, <2>2 DEF CompareAt
    <2> QED
      BY <1>4, <1>8, <2>1, <2>3
  <1>9. \A m \in 1 .. Len(routes) : routes[m] # NULL => routes[m] \in Left(routes)
    BY Zenon, <1>4, RangeOf DEF Left
  <1>10. Left(routes) \subseteq Routes
    <2>1. Range(routes) \subseteq Slots
      BY Zenon, <1>4, RangeOf
    <2> QED
      BY Zenon, <2>1 DEF Left, Slots
  <1>11. CASE /\ ~ InnerDone
              /\ Compared(p, q) /\ p.med < q.med
              /\ routes' = [routes EXCEPT ![j] = NULL] /\ NextInner
    <2>1. i' = i /\ j' = j + 1
      BY <1>11 DEF NextInner
    <2>2. q # NULL /\ p.last_as = q.last_as
      BY <1>11 DEF Compared
    <2>3. j \in 1 .. Len(routes) /\ p # NULL
      BY Zenon, <1>7, <1>11
    <2>4. /\ routes' \in Seq(Slots) /\ Ordered(routes')
          /\ Left(routes') = Left(routes) \ {q}
      BY <1>4, <1>11, <2>2, <2>3, NullFacts
    <2>5. p \in Left(routes) /\ q \in Left(routes)
      BY Zenon, <1>4, <1>9, <2>2, <2>3
    <2>6. dp_rule_lowest_med(Left(routes')) = dp_rule_lowest_med(Left(routes))
      BY <1>5, <1>10, <1>11, <2>2, <2>4, <2>5, LoserIsNotMissed
    <2>7. /\ Len(routes') = Len(routes) /\ routes'[j] = NULL
          /\ \A m \in 1 .. Len(routes) : m # j => routes'[m] = routes[m]
      BY <1>4, <1>11, <2>3
    <2>8. ASSUME NEW m \in 1 .. Len(routes), NEW n \in 1 .. Len(routes), m < n,
                 m < i \/ (m = i /\ n < j + 1)
          PROVE  EqualAt(routes', m, n)
      <3>1. CASE m = j \/ n = j
        BY Zenon, <2>7, <3>1 DEF EqualAt
      <3>2. CASE m # j /\ n # j
        <4>1. m < i \/ (m = i /\ n < j)
          BY <1>4, <2>8, <3>2
        <4>2. EqualAt(routes, m, n)
          BY Zenon, <1>5, <2>8, <4>1 DEF CompareAt
        <4>3. routes'[m] = routes[m] /\ routes'[n] = routes[n]
          BY Zenon, <2>7, <3>2
        <4> QED
          BY Zenon, <4>2, <4>3 DEF EqualAt
      <3> QED
        BY Zenon, <3>1, <3>2
    <2>9. CompareAt(routes', i', j')
      BY Zenon, <2>1, <2>7, <2>8 DEF CompareAt
    <2> QED
      BY <1>4, <2>1, <2>4, <2>6, <2>9
  <1>12. CASE /\ ~ InnerDone
              /\ Compared(p, q) /\ p.med > q.med
              /\ routes' = [routes EXCEPT ![i] = NULL] /\ NextOuter
    <2>1. i' = i + 1 /\ j' = i + 2
      BY <1>12 DEF NextOuter
    <2>2. q # NULL /\ p.last_as = q.last_as
      BY <1>12 DEF Compared
    <2>3. j \in 1 .. Len(routes) /\ p # NULL
      BY Zenon, <1>7, <1>12
    <2>4. /\ routes' \in Seq(Slots) /\ Ordered(routes')
          /\ Left(routes') = Left(routes) \ {p}
      BY <1>4, <1>12, <2>2, <2>3, NullFacts
    <2>5. p \in Left(routes) /\ q \in Left(routes)
      BY Zenon, <1>4, <1>9, <2>2, <2>3
    <2>6. q.med < p.med
      <3>1. p.med \in Int /\ q.med \in Int
        BY <1>10, <2>5, WidthAssumption DEF Routes
      <3> QED
        BY <1>12, <3>1
    <2>7. dp_rule_lowest_med(Left(routes')) = dp_rule_lowest_med(Left(routes))
      BY <1>5, <1>10, <2>2, <2>4, <2>5, <2>6, LoserIsNotMissed
    <2>8. /\ Len(routes') = Len(routes) /\ routes'[i] = NULL
          /\ \A m \in 1 .. Len(routes) : m # i => routes'[m] = routes[m]
      BY <1>4, <1>12
    <2>9. ASSUME NEW m \in 1 .. Len(routes), NEW n \in 1 .. Len(routes), m < n,
                 m < i + 1 \/ (m = i + 1 /\ n < i + 2)
          PROVE  EqualAt(routes', m, n)
      <3>1. CASE m = i \/ n = i
        BY Zenon, <2>8, <3>1 DEF EqualAt
      <3>2. CASE m # i /\ n # i
        <4>1. m < i
          BY <1>4, <2>9, <3>2
        <4>2. EqualAt(routes, m, n)
          BY Zenon, <1>5, <2>9, <4>1 DEF CompareAt
        <4>3. routes'[m] = routes[m] /\ routes'[n] = routes[n]
          BY Zenon, <2>8, <3>2
        <4> QED
          BY Zenon, <4>2, <4>3 DEF EqualAt
      <3> QED
        BY Zenon, <3>1, <3>2
    <2>10. CompareAt(routes', i', j')
      BY Zenon, <2>1, <2>8, <2>9 DEF CompareAt
    <2> QED
      BY <1>4, <2>1, <2>4, <2>7, <2>10
  <1> QED
    BY Zenon, <1>6, <1>8, <1>11, <1>12 DEF Compare

LEMMA EndCompareHolds ==
    ASSUME RunInv, EndCompare
    PROVE  RunInv'
  <1>1. /\ pc = "compare" /\ pc' = "discard" /\ i > Len(routes) /\ i' = 1
        /\ given' = given /\ routes' = routes /\ index' = index /\ j' = j
        /\ bound' = bound /\ before' = before
    BY DEF EndCompare
  <1>2. TypeInv /\ InRule /\ Comparing
    BY Zenon, <1>1 DEF RunInv
  <1>3. rule' = rule /\ (Nested' <=> Nested)
    BY <1>1 DEF rule, Nested
  <1>4. routes \in Seq(Slots) /\ i \in Nat
    BY <1>2 DEF TypeInv
  <1>5. /\ Nested /\ MedType = "deterministic" /\ rule = MED /\ CompareAt(routes, i, j)
        /\ dp_rule_lowest_med(Left(routes)) = dp_rule_lowest_med(Range(before))
    BY Zenon, <1>2 DEF Comparing, Nested
  <1>6. \A m, n \in 1 .. Len(routes) : m < n => EqualAt(routes, m, n)
    <2>1. \A m \in 1 .. Len(routes) : m < i
      BY <1>1, <1>4
    <2> QED
      BY Zenon, <1>5, <2>1 DEF CompareAt
  <1>7. Left(routes) = dp_rule_lowest_med(Range(before))
    BY Zenon, <1>4, <1>5, <1>6, EqualAreKept
  <1>8. DP_RULES(rule, Range(before)) = dp_rule_lowest_med(Range(before))
    BY <1>5 DEF DP_RULES, MED
  <1>9. {r \in Range(routes) : ~ Excluded(r)} = Left(routes)
    BY <1>5 DEF Excluded, Left
  <1>10. {r \in Range(routes) : ~ Excluded(r)} = DP_RULES(rule, Range(before))
    BY Zenon, <1>7, <1>8, <1>9
  <1>11. \A r : Excluded(r)' <=> Excluded(r)
    BY <1>1, <1>3 DEF Excluded
  <1>12. {r \in Range(routes') : ~ Excluded(r)'} = DP_RULES(rule', Range(before'))
    BY Zenon, <1>1, <1>3, <1>10, <1>11
  <1>13. \A m \in 1 .. Len(routes') : m < i' => ~ Excluded(routes[m])'
    BY <1>1, <1>4
  <1>14. Discarding'
    BY <1>12, <1>13 DEF Discarding
  <1>15. TypeInv'
    BY <1>1, <1>2 DEF TypeInv
  <1>16. InRule'
    BY Zenon, <1>1, <1>2, <1>3 DEF InRule
  <1> QED
    BY Zenon, <1>1, <1>14, <1>15, <1>16 DEF RunInv

(* The inductive invariant of a run of the decision process: it holds at   *)
(* every step of the loops of dp_rules.c.                                  *)
THEOREM RunInvHolds == Spec => []RunInv
  <1>1. RunInv /\ [Next]_vars => RunInv'
    <2> SUFFICES ASSUME RunInv, [Next]_vars
                 PROVE  RunInv'
      OBVIOUS
    <2>1. CASE EnterRule
      BY Zenon, <2>1, EnterRuleHolds
    <2>2. CASE Scan
      BY Zenon, <2>2, ScanHolds
    <2>3. CASE EndScan
      BY Zenon, <2>3, EndScanHolds
    <2>4. CASE Discard
      BY Zenon, <2>4, DiscardHolds
    <2>5. CASE EndRule
      BY Zenon, <2>5, EndRuleHolds
    <2>6. CASE Compare
      BY Zenon, <2>6, CompareHolds
    <2>7. CASE EndCompare
      BY Zenon, <2>7, EndCompareHolds
    <2>8. CASE UNCHANGED vars
      BY <2>8 DEF vars, RunInv, TypeInv, BetweenRules, InRule, Scanning, Discarding, Comparing,
                  rule, Nested, Excluded
    <2> QED
      BY Zenon, <2>1, <2>2, <2>3, <2>4, <2>5, <2>6, <2>7, <2>8 DEF Next
  <1> QED
    BY <1>1, InitHolds, PTL DEF Spec

-----------------------------------------------------------------------------
(* The loops of a rule, which remove routes from the list they walk over,    *)
(* leave what the rule's filter keeps, in the order it was in, for lists of  *)
(* any length.                                                               *)
THEOREM LoopsAreFilters == Spec => []RulesAreFilters
  <1>1. RunInv => RulesAreFilters
    BY Zenon DEF RunInv, BetweenRules, RulesAreFilters
  <1> QED
    BY <1>1, RunInvHolds, PTL

(* _bgp_router_decision_process_run ends with exactly one route, the one     *)
(* that the order of preference elects, whatever the routes: it neither      *)
(* calls a NULL rule nor reaches its abort().                                *)
THEOREM RunSelectsElected == Spec => []SelectsElected
  <1>1. ASSUME RunInv
        PROVE  SelectsElected
    <2> SUFFICES ASSUME Finished
                 PROVE  /\ Len(routes) = 1
                        /\ Range(routes) = Elected(Range(given))
                        /\ Range(routes) = decision_process_run(Range(given))
      BY Zenon DEF SelectsElected
    <2>1. pc = "loop" /\ (index = 9 \/ Len(routes) <= 1)
      BY DEF Finished, LastRule
    <2>2. TypeInv /\ BetweenRules
      BY Zenon, <1>1, <2>1 DEF RunInv
    <2>3. /\ FeasibleList(routes) /\ index \in 0 .. 9
          /\ Rest(index, Range(routes)) = decision_process_run(Range(given))
      BY <2>2 DEF TypeInv, BetweenRules, LastRule
    <2>4. Rest(index, Range(routes)) = Range(routes)
      <3>1. CASE index = 9
        BY Zenon, <3>1, RestOfRun
      <3>2. CASE Len(routes) <= 1
        <4>1. \A r, q \in Range(routes) : r = q
          BY Zenon, <3>2, <2>3, ChoiceInList
        <4> QED
          BY Zenon, <2>3, <4>1, RestOfOne
      <3> QED
        BY Zenon, <2>1, <3>1, <3>2
    <2>5. given \in Lists /\ given # <<>> /\ FeasibleList(given)
      BY Zenon, <2>2, ListsAssumption DEF TypeInv
    <2>6. given \in Seq(Routes) /\ given \in Seq(Slots) /\ Ordered(given)
      BY Zenon, <2>5, FeasibleIsOrdered, RoutesAreSlots
    <2>7. /\ Range(given) \subseteq Routes
          /\ \A m \in 1 .. Len(given) : given[m] \in Range(given)
          /\ \A x \in Range(given) : \E m \in 1 .. Len(given) : x = given[m]
      BY Zenon, <2>6, RangeOf
    <2>8. Range(given) \in SUBSET Candidates(Nat, MaxUint32) /\ Range(given) # {}
      <3>1. 1 \in 1 .. Len(given)
        BY <2>5, <2>6
      <3> QED
        BY Zenon, <3>1, <2>7, RoutesAreCandidates
    <2>9. ASSUME NEW r \in Range(given), NEW q \in Range(given), r.addr = q.addr
          PROVE  r = q
      <3>1. PICK m \in 1 .. Len(given) : r = given[m]
        BY Zenon, <2>7
      <3>2. PICK n \in 1 .. Len(given) : q = given[n]
        BY Zenon, <2>7
      <3>3. r.addr \in Int /\ q.addr \in Int /\ r # NULL /\ q # NULL
        <4>1. r \in Routes /\ q \in Routes
          BY Zenon, <2>7
        <4>2. r # NULL /\ q # NULL
          BY Zenon, <4>1, NULLAssumption
        <4>3. r.addr \in Int /\ q.addr \in Int
          BY <4>1, WidthAssumption DEF Routes
        <4> QED
          BY <4>2, <4>3
      <3>4. m < n => r.addr < q.addr
        BY Zenon, <2>6, <3>1, <3>2, <3>3 DEF Ordered
      <3>5. n < m => q.addr < r.addr
        BY Zenon, <2>6, <3>1, <3>2, <3>3 DEF Ordered
      <3>6. m = n
        BY <2>9, <3>3, <3>4, <3>5
      <3> QED
        BY Zenon, <3>1, <3>2, <3>6
    <2>10. decision_process_run(Range(given)) = Elected(Range(given))
      BY Zenon, <2>8, <2>9, WidthAssumption, RunElects
    <2>11. PICK r \in Range(given) : decision_process_run(Range(given)) = {r}
      BY Zenon, <2>8, <2>9, WidthAssumption, RunSelectsOne
    <2>12. Range(routes) = {r}
      BY Zenon, <2>3, <2>4, <2>11
    <2>13. Len(routes) = 1
      <3>1. routes \in Seq(Routes)
        BY Zenon, <2>3 DEF FeasibleList
      <3>2. Len(routes) <= 1
        <4>1. \A a, b \in Range(routes) : a = b
          BY Zenon, <2>12
        <4> QED
          BY Zenon, <2>3, <4>1, ChoiceInList
      <3>3. \E m \in 1 .. Len(routes) : r = routes[m]
        <4>1. r \in Range(routes)
          BY Zenon, <2>12
        <4> QED
          BY Zenon, <3>1, <4>1, RangeOf
      <3> QED
        BY <3>1, <3>2, <3>3
    <2> QED
      BY Zenon, <2>3, <2>4, <2>10, <2>13
  <1> QED
    BY <1>1, RunInvHolds, PTL

-----------------------------------------------------------------------------
(* The loops end: what is left to do.  A removal shortens the list under the *)
(* index that stays, and the nested loops go on behind the outer index.      *)
Ahead == << LastRule - index,
            CASE pc = "loop" -> 3 [] pc \in {"scan", "compare"} -> 2 [] pc = "discard" -> 1,
            IF pc = "loop" THEN 0 ELSE Len(routes) + 1 - i,
            IF pc = "compare" THEN Len(routes) + 2 - j ELSE 0 >>

(* Less in the lexicographic order.                                          *)
Less(a, b) == \/ a[1] < b[1]
              \/ a[1] = b[1] /\ a[2] < b[2]
              \/ a[1] = b[1] /\ a[2] = b[2] /\ a[3] < b[3]
              \/ a[1] = b[1] /\ a[2] = b[2] /\ a[3] = b[3] /\ a[4] < b[4]

(* The indexes stay within the list or just behind it.                       *)
IndexInv ==
    /\ pc # "loop" => i <= Len(routes) + 1
    /\ pc = "compare" => j <= Len(routes) + 2

LEMMA IndexStep ==
    ASSUME RunInv, RunInv', IndexInv, [Next]_vars
    PROVE  IndexInv' /\ (UNCHANGED vars \/ Less(Ahead', Ahead))
  <1>1. /\ routes \in Seq(Slots) /\ i \in Nat \ {0} /\ j \in Nat /\ index \in 0 .. 9
        /\ pc \in {"loop", "scan", "compare", "discard"}
    BY DEF RunInv, TypeInv, LastRule
  <1>2. Len(routes) \in Nat
    BY <1>1
  <1>3. CASE EnterRule
    BY <1>1, <1>2, <1>3 DEF EnterRule, IndexInv, Less, Ahead, LastRule
  <1>4. CASE Scan
    BY <1>1, <1>2, <1>4 DEF Scan, Scanned, IndexInv, Less, Ahead, LastRule
  <1>5. CASE EndScan
    BY <1>1, <1>2, <1>5 DEF EndScan, IndexInv, Less, Ahead, LastRule
  <1>6. CASE Discard
    <2>1. pc = "discard" /\ pc' = "discard" /\ index' = index /\ i <= Len(routes)
      BY <1>6 DEF Discard
    <2>2. CASE routes' = routes /\ i' = i + 1
      BY <1>1, <1>2, <2>1, <2>2 DEF IndexInv, Less, Ahead, LastRule
    <2>3. CASE routes' = ptr_array_remove_at(routes, i) /\ i' = i
      <3>1. i \in 1 .. Len(routes)
        BY <1>1, <1>2, <2>1
      <3>2. Len(routes') = Len(routes) - 1
        BY Zenon, <1>1, <2>3, <3>1, RemoveFacts
      <3> QED
        BY <1>1, <1>2, <2>1, <2>3, <3>2 DEF IndexInv, Less, Ahead, LastRule
    <2> QED
      BY Zenon, <1>6, <2>2, <2>3 DEF Discard
  <1>7. CASE EndRule
    BY <1>1, <1>2, <1>7 DEF EndRule, IndexInv, Less, Ahead, LastRule
  <1>8. CASE Compare
    <2>1. /\ pc = "compare" /\ pc' = "compare" /\ index' = index /\ i <= Len(routes)
          /\ j <= Len(routes) + 2
      BY <1>8 DEF Compare, IndexInv
    <2>2. Len(routes') = Len(routes)
      <3>1. \/ routes' = routes
            \/ routes' = [routes EXCEPT ![i] = NULL]
            \/ routes' = [routes EXCEPT ![j] = NULL]
        BY Zenon, <1>8 DEF Compare
      <3> QED
        BY <1>1, <3>1
    <2>3. CASE NextOuter
      BY <1>1, <1>2, <2>1, <2>2, <2>3 DEF NextOuter, IndexInv, Less, Ahead, LastRule
    <2>4. CASE ~ InnerDone /\ NextInner
      <3>1. j <= Len(routes)
        BY <1>1, <1>2, <2>4 DEF InnerDone
      <3> QED
        BY <1>1, <1>2, <2>1, <2>2, <2>4, <3>1
           DEF NextInner, IndexInv, Less, Ahead, LastRule
    <2> QED
      BY Zenon, <1>8, <2>3, <2>4 DEF Compare
  <1>9. CASE EndCompare
    BY <1>1, <1>2, <1>9 DEF EndCompare, IndexInv, Less, Ahead, LastRule
  <1>10. CASE UNCHANGED vars
    BY <1>10 DEF vars, IndexInv
  <1> QED
    BY Zenon, <1>3, <1>4, <1>5, <1>6, <1>7, <1>8, <1>9, <1>10 DEF Next

LEMMA AheadType ==
    ASSUME RunInv, IndexInv
    PROVE  Ahead \in Nat \X Nat \X Nat \X Nat
  <1>1. /\ routes \in Seq(Slots) /\ i \in Nat \ {0} /\ j \in Nat /\ index \in 0 .. 9
        /\ pc \in {"loop", "scan", "compare", "discard"}
    BY DEF RunInv, TypeInv, LastRule
  <1>2. Len(routes) \in Nat
    BY <1>1
  <1> DEFINE a == LastRule - index
             b == CASE pc = "loop" -> 3 [] pc \in {"scan", "compare"} -> 2 [] pc = "discard" -> 1
             c == IF pc = "loop" THEN 0 ELSE Len(routes) + 1 - i
             d == IF pc = "compare" THEN Len(routes) + 2 - j ELSE 0
  <1>3. a \in Nat
    BY <1>1 DEF LastRule
  <1>4. b \in Nat
    BY <1>1
  <1>5. c \in Nat
    BY <1>1, <1>2 DEF IndexInv
  <1>6. d \in Nat
    BY <1>1, <1>2 DEF IndexInv
  <1>7. Ahead = <<a, b, c, d>>
    BY Zenon DEF Ahead
  <1> HIDE DEF a, b, c, d
  <1> QED
    BY <1>3, <1>4, <1>5, <1>6, <1>7

(* Every pass of a loop leaves less to do, in a well-founded order: the      *)
(* nested loops, and the loops that remove routes without advancing, end for *)
(* every list.                                                               *)
THEOREM LoopsEnd == Spec => /\ [](Ahead \in Nat \X Nat \X Nat \X Nat)
                            /\ [][Less(Ahead', Ahead)]_vars
  <1>1. Init => IndexInv
    BY DEF Init, IndexInv
  <1>2. RunInv /\ RunInv' /\ IndexInv /\ [Next]_vars => IndexInv' /\ [Less(Ahead', Ahead)]_vars
    BY Zenon, IndexStep
  <1>3. RunInv /\ IndexInv => Ahead \in Nat \X Nat \X Nat \X Nat
    BY Zenon, AheadType
  <1> QED
    BY <1>1, <1>2, <1>3, RunInvHolds, PTL DEF Spec
=============================================================================
