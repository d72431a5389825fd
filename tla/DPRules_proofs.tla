--------------------------- MODULE DPRules_proofs ---------------------------
(* The decision process selects exactly one route, the one that the order of *)
(* preference elects.                                                        *)
EXTENDS DPRules, WellFoundedInduction, TLAPS

(* What the rules read of a candidate.  The lengths of the AS-path and of    *)
(* the cluster list fit the 8-bit minima of their rules; LOCAL-PREF is       *)
(* bounded by its width.                                                     *)
Candidates(P, max) ==
    [peer : P, local_pref : 0 .. max, length : 0 .. MaxUint8, origin : 0 .. 2,
     med : Nat, last_as : Int, ebgp : BOOLEAN, igp_cost : Nat, id : Nat,
     clusters : 0 .. MaxUint8, addr : Nat]

LEMMA Uint8Fits ==
    ASSUME NEW n \in 0 .. MaxUint8
    PROVE  Uint8(n) = n
  BY MaxUint8Assumption DEF Uint8

(* A non-empty set of naturals has a least element: what the first loop of   *)
(* every rule computes.                                                      *)
LEMMA LeastNat ==
    ASSUME NEW T, T \subseteq Nat, T # {}
    PROVE  \E x \in T : \A y \in T : x <= y
  <1>1. PICK x \in T : \A y \in T : ~ (<<y, x>> \in OpToRel(<, Nat))
    BY Zenon, NatLessThanWellFounded, WFMin
  <1>2. \A y \in T : ~ (y < x)
    BY Zenon, <1>1 DEF OpToRel
  <1> QED
    BY <1>2

(* A rule that keeps the candidates with the least value of a natural        *)
(* attribute keeps at least one.                                             *)
LEMMA LeastKept ==
    ASSUME NEW S, S # {}, NEW f \in [S -> Nat]
    PROVE  {r \in S : \A q \in S : f[r] <= f[q]} # {}
  <1> DEFINE T == {f[r] : r \in S}
  <1>1. PICK x \in T : \A y \in T : x <= y
    <2>1. T \subseteq Nat /\ T # {}
      OBVIOUS
    <2> HIDE DEF T
    <2> QED
      BY Zenon, <2>1, LeastNat
  <1>2. PICK r \in S : x = f[r]
    OBVIOUS
  <1>3. \A q \in S : f[r] <= f[q]
    BY <1>1, <1>2
  <1> QED
    BY <1>3

(* No rule removes every candidate.                                          *)
LEMMA HighestPrefKeepsOne ==
    ASSUME NEW P, NEW max \in Nat, NEW S \in SUBSET Candidates(P, max), S # {}
    PROVE  dp_rule_highest_pref(S) # {}
  <1> DEFINE f == [r \in S |-> max - r.local_pref]
  <1>1. f \in [S -> Nat]
    BY DEF Candidates
  <1>2. {r \in S : \A q \in S : f[r] <= f[q]} # {}
    <2> HIDE DEF f
    <2> QED  BY <1>1, LeastKept
  <1>3. PICK r \in S : \A q \in S : f[r] <= f[q]
    BY Zenon, <1>2
  <1>4. \A q \in S : r.local_pref >= q.local_pref
    BY <1>3 DEF Candidates
  <1> QED
    BY <1>4 DEF dp_rule_highest_pref

LEMMA ShortestPathKeepsOne ==
    ASSUME NEW P, NEW max \in Nat, NEW S \in SUBSET Candidates(P, max), S # {}
    PROVE  dp_rule_shortest_path(S) # {}
  <1> DEFINE f == [r \in S |-> r.length]
  <1>1. f \in [S -> Nat] /\ \A r \in S : r.length <= MaxUint8
    BY MaxUint8Assumption DEF Candidates
  <1>2. {r \in S : \A q \in S : f[r] <= f[q]} # {}
    <2> HIDE DEF f
    <2> QED  BY <1>1, LeastKept
  <1> QED
    BY Zenon, <1>1, <1>2 DEF dp_rule_shortest_path

LEMMA LowestOriginKeepsOne ==
    ASSUME NEW P, NEW max \in Nat, NEW S \in SUBSET Candidates(P, max), S # {}
    PROVE  dp_rule_lowest_origin(S) # {}
  <1> DEFINE f == [r \in S |-> r.origin]
  <1>1. f \in [S -> Nat]
    BY DEF Candidates
  <1>2. {r \in S : \A q \in S : f[r] <= f[q]} # {}
    <2> HIDE DEF f
    <2> QED  BY <1>1, LeastKept
  <1> QED
    BY Zenon, <1>2 DEF dp_rule_lowest_origin

LEMMA LowestMedKeepsOne ==
    ASSUME NEW P, NEW max \in Nat, NEW S \in SUBSET Candidates(P, max), S # {}
    PROVE  dp_rule_lowest_med(S) # {}
  <1> DEFINE f == [r \in S |-> r.med]
  <1>1. f \in [S -> Nat]
    BY DEF Candidates
  <1>2. {r \in S : \A q \in S : f[r] <= f[q]} # {}
    <2> HIDE DEF f
    <2> QED  BY <1>1, LeastKept
  <1> QED
    BY Zenon, <1>2 DEF dp_rule_lowest_med

LEMMA NearestNextHopKeepsOne ==
    ASSUME NEW P, NEW max \in Nat, NEW S \in SUBSET Candidates(P, max), S # {}
    PROVE  dp_rule_nearest_next_hop(S) # {}
  <1> DEFINE f == [r \in S |-> r.igp_cost]
  <1>1. f \in [S -> Nat]
    BY DEF Candidates
  <1>2. {r \in S : \A q \in S : f[r] <= f[q]} # {}
    <2> HIDE DEF f
    <2> QED  BY <1>1, LeastKept
  <1> QED
    BY Zenon, <1>2 DEF dp_rule_nearest_next_hop

LEMMA LowestRouterIdKeepsOne ==
    ASSUME NEW P, NEW max \in Nat, NEW S \in SUBSET Candidates(P, max), S # {}
    PROVE  dp_rule_lowest_router_id(S) # {}
  <1> DEFINE f == [r \in S |-> r.id]
  <1>1. f \in [S -> Nat]
    BY DEF Candidates
  <1>2. {r \in S : \A q \in S : f[r] <= f[q]} # {}
    <2> HIDE DEF f
    <2> QED  BY <1>1, LeastKept
  <1> QED
    BY Zenon, <1>2 DEF dp_rule_lowest_router_id

LEMMA ShortestClusterListKeepsOne ==
    ASSUME NEW P, NEW max \in Nat, NEW S \in SUBSET Candidates(P, max), S # {}
    PROVE  dp_rule_shortest_cluster_list(S) # {}
  <1> DEFINE f == [r \in S |-> r.clusters]
  <1>1. f \in [S -> Nat] /\ \A r \in S : r.clusters \in 0 .. MaxUint8
    BY MaxUint8Assumption DEF Candidates
  <1>2. {r \in S : \A q \in S : f[r] <= f[q]} # {}
    <2> HIDE DEF f
    <2> QED  BY <1>1, LeastKept
  <1>3. \A q \in S : Uint8(q.clusters) = f[q]
    BY Zenon, <1>1, Uint8Fits
  <1> QED
    BY Zenon, <1>2, <1>3 DEF dp_rule_shortest_cluster_list

LEMMA LowestNeighborAddressKeepsOne ==
    ASSUME NEW P, NEW max \in Nat, NEW S \in SUBSET Candidates(P, max), S # {}
    PROVE  dp_rule_lowest_neighbor_address(S) # {}
  <1> DEFINE f == [r \in S |-> r.addr]
  <1>1. f \in [S -> Nat]
    BY DEF Candidates
  <1>2. {r \in S : \A q \in S : f[r] <= f[q]} # {}
    <2> HIDE DEF f
    <2> QED  BY <1>1, LeastKept
  <1> QED
    BY Zenon, <1>2 DEF dp_rule_lowest_neighbor_address

LEMMA EbgpOverIbgpKeepsOne ==
    ASSUME NEW S, S # {}
    PROVE  dp_rule_ebgp_over_ibgp(S) # {}
  BY DEF dp_rule_ebgp_over_ibgp

(* A turn of the loop keeps at least one of the candidates.                  *)
LEMMA TurnKeepsOne ==
    ASSUME NEW S, S # {}, NEW T \in SUBSET S, T # {}
    PROVE  Turn(S, T) # {} /\ Turn(S, T) \subseteq S
  BY DEF Turn

(* Routes of different neighbours never tie in the last rule.                *)
LEMMA LastTurnDecides ==
    ASSUME NEW P, NEW max \in Nat, NEW S \in SUBSET Candidates(P, max),
           \A r, q \in S : r.addr = q.addr => r = q
    PROVE  \A r, q \in Turn(S, dp_rule_lowest_neighbor_address(S)) : r = q
  <1>1. CASE \A a, b \in S : a = b
    BY <1>1 DEF Turn
  <1>2. CASE ~ \A a, b \in S : a = b
    <2>1. Turn(S, dp_rule_lowest_neighbor_address(S)) = dp_rule_lowest_neighbor_address(S)
      BY <1>2 DEF Turn
    <2>2. \A r, q \in dp_rule_lowest_neighbor_address(S) :
             r \in S /\ q \in S /\ r.addr <= q.addr /\ q.addr <= r.addr
      BY DEF dp_rule_lowest_neighbor_address
    <2>3. \A r \in S : r.addr \in Nat
      BY DEF Candidates
    <2>4. \A r, q \in dp_rule_lowest_neighbor_address(S) : r.addr = q.addr
      BY <2>2, <2>3
    <2> QED
      BY <2>1, <2>2, <2>4
  <1> QED
    BY <1>1, <1>2

(* The loop of _bgp_router_decision_process_run, given the routes of         *)
(* different neighbours, ends with exactly one of them: its abort() is never *)
(* reached, and a prefix with a feasible route always has a best route.      *)
THEOREM RunSelectsOne ==
    ASSUME NEW P, NEW max \in Nat, NEW S \in SUBSET Candidates(P, max), S # {},
           \A r, q \in S : r.addr = q.addr => r = q
    PROVE  \E r \in S : decision_process_run(S) = {r}
  <1> DEFINE s0 == S
             s1 == Turn(s0, dp_rule_highest_pref(s0))
             s2 == Turn(s1, dp_rule_shortest_path(s1))
             s3 == Turn(s2, dp_rule_lowest_origin(s2))
             s4 == Turn(s3, dp_rule_lowest_med(s3))
             s5 == Turn(s4, dp_rule_ebgp_over_ibgp(s4))
             s6 == Turn(s5, dp_rule_nearest_next_hop(s5))
             s7 == Turn(s6, dp_rule_lowest_router_id(s6))
             s8 == Turn(s7, dp_rule_shortest_cluster_list(s7))
             s9 == Turn(s8, dp_rule_lowest_neighbor_address(s8))
  <1>0. decision_process_run(S) = s9
    BY Zenon DEF decision_process_run
  <1> HIDE DEF s1, s2, s3, s4, s5, s6, s7, s8, s9
  <1>1. s1 # {} /\ s1 \subseteq S
    <2>1. dp_rule_highest_pref(s0) # {}
      BY HighestPrefKeepsOne
    <2>2. dp_rule_highest_pref(s0) \subseteq s0
      BY DEF dp_rule_highest_pref
    <2> QED
      BY <2>1, <2>2, TurnKeepsOne DEF s1
  <1>2. s2 # {} /\ s2 \subseteq S
    <2>1. dp_rule_shortest_path(s1) # {}
      BY <1>1, ShortestPathKeepsOne
    <2>2. dp_rule_shortest_path(s1) \subseteq s1
      BY DEF dp_rule_shortest_path
    <2> QED
      BY <1>1, <2>1, <2>2, TurnKeepsOne DEF s2
  <1>3. s3 # {} /\ s3 \subseteq S
    <2>1. dp_rule_lowest_origin(s2) # {}
      BY <1>2, LowestOriginKeepsOne
    <2>2. dp_rule_lowest_origin(s2) \subseteq s2
      BY DEF dp_rule_lowest_origin
    <2> QED
      BY <1>2, <2>1, <2>2, TurnKeepsOne DEF s3
  <1>4. s4 # {} /\ s4 \subseteq S
    <2>1. dp_rule_lowest_med(s3) # {}
      BY <1>3, LowestMedKeepsOne
    <2>2. dp_rule_lowest_med(s3) \subseteq s3
      BY DEF dp_rule_lowest_med
    <2> QED
      BY <1>3, <2>1, <2>2, TurnKeepsOne DEF s4
  <1>5. s5 # {} /\ s5 \subseteq S
    <2>1. dp_rule_ebgp_over_ibgp(s4) # {}
      BY <1>4, EbgpOverIbgpKeepsOne
    <2>2. dp_rule_ebgp_over_ibgp(s4) \subseteq s4
      BY DEF dp_rule_ebgp_over_ibgp
    <2> QED
      BY <1>4, <2>1, <2>2, TurnKeepsOne DEF s5
  <1>6. s6 # {} /\ s6 \subseteq S
    <2>1. dp_rule_nearest_next_hop(s5) # {}
      BY <1>5, NearestNextHopKeepsOne
    <2>2. dp_rule_nearest_next_hop(s5) \subseteq s5
      BY DEF dp_rule_nearest_next_hop
    <2> QED
      BY <1>5, <2>1, <2>2, TurnKeepsOne DEF s6
  <1>7. s7 # {} /\ s7 \subseteq S
    <2>1. dp_rule_lowest_router_id(s6) # {}
      BY <1>6, LowestRouterIdKeepsOne
    <2>2. dp_rule_lowest_router_id(s6) \subseteq s6
      BY DEF dp_rule_lowest_router_id
    <2> QED
      BY <1>6, <2>1, <2>2, TurnKeepsOne DEF s7
  <1>8. s8 # {} /\ s8 \subseteq S
    <2>1. dp_rule_shortest_cluster_list(s7) # {}
      BY <1>7, ShortestClusterListKeepsOne
    <2>2. dp_rule_shortest_cluster_list(s7) \subseteq s7
      BY DEF dp_rule_shortest_cluster_list
    <2> QED
      BY <1>7, <2>1, <2>2, TurnKeepsOne DEF s8
  <1>9. s9 # {} /\ s9 \subseteq S
    <2>1. dp_rule_lowest_neighbor_address(s8) # {}
      BY <1>8, LowestNeighborAddressKeepsOne
    <2>2. dp_rule_lowest_neighbor_address(s8) \subseteq s8
      BY DEF dp_rule_lowest_neighbor_address
    <2> QED
      BY <1>8, <2>1, <2>2, TurnKeepsOne DEF s9
  <1>10. \A r, q \in s9 : r = q
    BY <1>8, LastTurnDecides DEF s9
  <1> QED
    BY <1>0, <1>9, <1>10

-----------------------------------------------------------------------------
(* The loop against the order of preference.  A rank is a function from the  *)
(* positions of the rules to what they compare, the least being preferred.   *)

(* a is before b in the lexicographic order of the first k positions.        *)
Before(k, a, b) == \E j \in 1 .. k : a[j] < b[j] /\ \A i \in 1 .. j - 1 : a[i] = b[i]

(* The members of S that no other one is before, f giving the ranks.         *)
Least(k, S, f) == {r \in S : \A q \in S : ~ Before(k, f[q], f[r])}

(* What the rule at position k keeps.                                        *)
Kept(k, S, f) == {r \in S : \A q \in S : f[r][k] <= f[q][k]}

LEMMA BeforeNext ==
    ASSUME NEW k \in 0 .. 8, NEW a \in [1 .. 9 -> Int], NEW b \in [1 .. 9 -> Int]
    PROVE  Before(k + 1, a, b) <=> \/ Before(k, a, b)
                                   \/ /\ a[k + 1] < b[k + 1]
                                      /\ \A i \in 1 .. k : a[i] = b[i]
  <1>1. ASSUME Before(k + 1, a, b)
        PROVE  \/ Before(k, a, b)
               \/ a[k + 1] < b[k + 1] /\ \A i \in 1 .. k : a[i] = b[i]
    <2>1. PICK j \in 1 .. k + 1 : a[j] < b[j] /\ \A i \in 1 .. j - 1 : a[i] = b[i]
      BY <1>1 DEF Before
    <2>2. CASE j = k + 1
      <3>1. \A i \in 1 .. k : i \in 1 .. j - 1
        BY <2>2
      <3> QED
        BY <2>1, <2>2, <3>1
    <2>3. CASE j # k + 1
      <3>1. j \in 1 .. k
        BY <2>3
      <3> QED
        BY <2>1, <3>1 DEF Before
    <2> QED
      BY <2>2, <2>3
  <1>2. ASSUME Before(k, a, b)
        PROVE  Before(k + 1, a, b)
    <2>1. PICK j \in 1 .. k : a[j] < b[j] /\ \A i \in 1 .. j - 1 : a[i] = b[i]
      BY <1>2 DEF Before
    <2>2. j \in 1 .. k + 1
      OBVIOUS
    <2> QED
      BY <2>1, <2>2 DEF Before
  <1>3. ASSUME a[k + 1] < b[k + 1], \A i \in 1 .. k : a[i] = b[i]
        PROVE  Before(k + 1, a, b)
    <2>1. k + 1 \in 1 .. k + 1 /\ \A i \in 1 .. (k + 1) - 1 : a[i] = b[i]
      BY <1>3
    <2> QED
      BY <1>3, <2>1 DEF Before
  <1> QED
    BY <1>1, <1>2, <1>3

(* Two routes that nothing is before do not differ so far.                   *)
LEMMA LeastAgree ==
    ASSUME NEW S, NEW f \in [S -> [1 .. 9 -> Int]], NEW k \in 0 .. 9,
           NEW r \in Least(k, S, f), NEW q \in Least(k, S, f)
    PROVE  \A i \in 1 .. k : f[r][i] = f[q][i]
  <1> DEFINE D == {i \in 1 .. k : f[r][i] # f[q][i]}
  <1> SUFFICES ASSUME D # {}
               PROVE  FALSE
    OBVIOUS
  <1>1. D \subseteq Nat
    OBVIOUS
  <1>2. PICK d \in D : \A y \in D : d <= y
    <2> HIDE DEF D
    <2> QED
      BY Zenon, <1>1, LeastNat
  <1>3. d \in 1 .. k /\ f[r][d] # f[q][d]
    OBVIOUS
  <1>4. \A i \in 1 .. d - 1 : f[r][i] = f[q][i]
    <2> SUFFICES ASSUME NEW i \in 1 .. d - 1, f[r][i] # f[q][i]
                 PROVE  FALSE
      OBVIOUS
    <2>1. i \in D /\ i < d
      BY <1>3
    <2> QED
      BY <1>2, <1>3, <2>1
  <1> HIDE DEF D
  <1>5. /\ r \in S /\ q \in S
        /\ f[r] \in [1 .. 9 -> Int] /\ f[q] \in [1 .. 9 -> Int] /\ d \in 1 .. 9
    BY <1>3 DEF Least
  <1>6. f[r][d] \in Int /\ f[q][d] \in Int
    BY <1>5
  <1>7. CASE f[r][d] < f[q][d]
    <2>1. Before(k, f[r], f[q])
      BY <1>3, <1>4, <1>7 DEF Before
    <2> QED
      BY <1>5, <2>1 DEF Least
  <1>8. CASE f[q][d] < f[r][d]
    <2>1. Before(k, f[q], f[r])
      BY <1>3, <1>4, <1>8 DEF Before
    <2> QED
      BY <1>5, <2>1 DEF Least
  <1> QED
    BY <1>3, <1>6, <1>7, <1>8

(* A route that agrees so far with one that nothing is before.               *)
LEMMA AgreeLeast ==
    ASSUME NEW S, NEW f, NEW k \in 0 .. 9, NEW r \in Least(k, S, f), NEW q \in S,
           \A i \in 1 .. k : f[q][i] = f[r][i]
    PROVE  q \in Least(k, S, f)
  <1> SUFFICES ASSUME NEW p \in S, Before(k, f[p], f[q])
               PROVE  FALSE
    BY DEF Least
  <1>1. PICK j \in 1 .. k : f[p][j] < f[q][j] /\ \A i \in 1 .. j - 1 : f[p][i] = f[q][i]
    BY DEF Before
  <1>2. \A i \in 1 .. j - 1 : i \in 1 .. k
    OBVIOUS
  <1>3. f[p][j] < f[r][j] /\ \A i \in 1 .. j - 1 : f[p][i] = f[r][i]
    BY <1>1, <1>2
  <1>4. Before(k, f[p], f[r])
    BY <1>3 DEF Before
  <1> QED
    BY <1>4 DEF Least

(* One turn of the loop compares one more position.                          *)
LEMMA TurnRefines ==
    ASSUME NEW S, NEW f \in [S -> [1 .. 9 -> Int]], NEW k \in 0 .. 8
    PROVE  LET L == Least(k, S, f)
           IN  Turn(L, Kept(k + 1, L, f)) = Least(k + 1, S, f)
  <1> DEFINE L == Least(k, S, f)
  <1>1. L \subseteq S
    BY DEF Least
  <1>2. \A r \in S : f[r] \in [1 .. 9 -> Int] /\ f[r][k + 1] \in Int
    OBVIOUS
  <1>3. Turn(L, Kept(k + 1, L, f)) = Kept(k + 1, L, f)
    <2>1. CASE \A r, q \in L : r = q
      <3>1. \A r \in L : f[r][k + 1] <= f[r][k + 1]
        BY <1>1, <1>2
      <3>2. Kept(k + 1, L, f) = L
        BY <2>1, <3>1 DEF Kept
      <3> QED
        BY <2>1, <3>2 DEF Turn
    <2>2. CASE ~ \A r, q \in L : r = q
      BY <2>2 DEF Turn
    <2> QED
      BY <2>1, <2>2
  <1>4. ASSUME NEW r \in Kept(k + 1, L, f)
        PROVE  r \in Least(k + 1, S, f)
    <2>1. r \in L /\ r \in S /\ \A q \in L : f[r][k + 1] <= f[q][k + 1]
      BY <1>1 DEF Kept
    <2> SUFFICES ASSUME NEW q \in S, Before(k + 1, f[q], f[r])
                 PROVE  FALSE
      BY <2>1 DEF Least
    <2>2. ~ Before(k, f[q], f[r])
      BY <2>1 DEF Least
    <2>3. f[q][k + 1] < f[r][k + 1] /\ \A i \in 1 .. k : f[q][i] = f[r][i]
      BY <1>2, <2>1, <2>2, BeforeNext
    <2>4. q \in L
      BY <2>1, <2>3, AgreeLeast
    <2> QED
      BY <1>2, <2>1, <2>3, <2>4
  <1>5. ASSUME NEW r \in Least(k + 1, S, f)
        PROVE  r \in Kept(k + 1, L, f)
    <2>1. r \in S /\ \A q \in S : ~ Before(k + 1, f[q], f[r])
      BY DEF Least
    <2>2. r \in L
      BY <1>2, <2>1, BeforeNext DEF Least
    <2> SUFFICES ASSUME NEW q \in L
                 PROVE  f[r][k + 1] <= f[q][k + 1]
      BY <2>2 DEF Kept
    <2>3. \A i \in 1 .. k : f[q][i] = f[r][i]
      BY <2>2, LeastAgree
    <2>4. ~ (f[q][k + 1] < f[r][k + 1])
      BY <1>1, <1>2, <2>1, <2>3, BeforeNext
    <2> QED
      BY <1>1, <1>2, <2>1, <2>4
  <1> QED
    BY <1>3, <1>4, <1>5

(* The ranks of candidates.                                                  *)
LEMMA RankType ==
    ASSUME NEW P, NEW max \in Nat, NEW r \in Candidates(P, max), NEW m \in Nat
    PROVE  /\ RankOf(r, m) \in [1 .. 9 -> Int]
           /\ RankOf(r, m)[1] = - r.local_pref
           /\ RankOf(r, m)[2] = r.length
           /\ RankOf(r, m)[3] = r.origin
           /\ RankOf(r, m)[4] = m
           /\ RankOf(r, m)[5] = IF r.ebgp THEN 0 ELSE 1
           /\ RankOf(r, m)[6] = r.igp_cost
           /\ RankOf(r, m)[7] = r.id
           /\ RankOf(r, m)[8] = r.clusters
           /\ RankOf(r, m)[9] = r.addr
  <1>1. /\ - r.local_pref \in Int /\ r.length \in Int /\ r.origin \in Int
        /\ (IF r.ebgp THEN 0 ELSE 1) \in Int /\ r.igp_cost \in Int /\ r.id \in Int
        /\ r.clusters \in Int /\ r.addr \in Int
    BY MaxUint8Assumption DEF Candidates
  <1> QED
    BY <1>1 DEF RankOf

(* f gives the ranks of the candidates of S.                                 *)
Ranks(f, S) ==
    /\ f \in [S -> [1 .. 9 -> Int]]
    /\ \A r \in S : /\ f[r][1] = - r.local_pref /\ f[r][2] = r.length
                    /\ f[r][3] = r.origin
                    /\ f[r][5] = IF r.ebgp THEN 0 ELSE 1
                    /\ f[r][6] = r.igp_cost /\ f[r][7] = r.id
                    /\ f[r][8] = r.clusters /\ f[r][9] = r.addr
                    /\ r.local_pref \in Int /\ r.length <= MaxUint8 /\ r.ebgp \in BOOLEAN
                    /\ Uint8(r.clusters) = r.clusters

(* What the rules other than that of the MED keep, in terms of the ranks.    *)
KeepLeast(T, f) ==
    /\ dp_rule_highest_pref(T) = Kept(1, T, f)
    /\ dp_rule_shortest_path(T) = Kept(2, T, f)
    /\ dp_rule_lowest_origin(T) = Kept(3, T, f)
    /\ dp_rule_ebgp_over_ibgp(T) = Kept(5, T, f)
    /\ dp_rule_nearest_next_hop(T) = Kept(6, T, f)
    /\ dp_rule_lowest_router_id(T) = Kept(7, T, f)
    /\ dp_rule_shortest_cluster_list(T) = Kept(8, T, f)
    /\ dp_rule_lowest_neighbor_address(T) = Kept(9, T, f)

LEMMA RulesKeepLeast ==
    ASSUME NEW S, NEW f, Ranks(f, S), NEW T, T \subseteq S
    PROVE  KeepLeast(T, f)
  <1>1. \A r \in T : /\ f[r][1] = - r.local_pref /\ f[r][2] = r.length
                     /\ f[r][3] = r.origin
                     /\ f[r][5] = IF r.ebgp THEN 0 ELSE 1
                     /\ f[r][6] = r.igp_cost /\ f[r][7] = r.id
                     /\ f[r][8] = r.clusters /\ f[r][9] = r.addr
    BY DEF Ranks
  <1>2. \A r \in T : /\ r.local_pref \in Int /\ r.length <= MaxUint8 /\ r.ebgp \in BOOLEAN
    BY DEF Ranks
  <1>0. \A r \in T : Uint8(r.clusters) = f[r][8]
    BY <1>1 DEF Ranks
  <1>3. dp_rule_highest_pref(T) = Kept(1, T, f)
    <2>1. \A r, q \in T : r.local_pref >= q.local_pref <=> f[r][1] <= f[q][1]
      BY <1>1, <1>2
    <2> QED
      BY <2>1 DEF dp_rule_highest_pref, Kept
  <1>4. dp_rule_shortest_path(T) = Kept(2, T, f)
    BY <1>1, <1>2 DEF dp_rule_shortest_path, Kept
  <1>5. dp_rule_ebgp_over_ibgp(T) = Kept(5, T, f)
    <2>1. \A r, q \in T : (q.ebgp => r.ebgp) <=> f[r][5] <= f[q][5]
      <3> SUFFICES ASSUME NEW r \in T, NEW q \in T
                   PROVE  (q.ebgp => r.ebgp) <=> f[r][5] <= f[q][5]
        OBVIOUS
      <3>1. /\ f[r][5] = IF r.ebgp THEN 0 ELSE 1
            /\ f[q][5] = IF q.ebgp THEN 0 ELSE 1
        BY <1>1
      <3> QED
        BY <3>1
    <2> QED
      BY <2>1 DEF dp_rule_ebgp_over_ibgp, Kept
  <1>6. dp_rule_lowest_origin(T) = Kept(3, T, f)
    BY <1>1 DEF dp_rule_lowest_origin, Kept
  <1>7. dp_rule_nearest_next_hop(T) = Kept(6, T, f)
    BY <1>1 DEF dp_rule_nearest_next_hop, Kept
  <1>8. dp_rule_lowest_router_id(T) = Kept(7, T, f)
    BY <1>1 DEF dp_rule_lowest_router_id, Kept
  <1>9. dp_rule_shortest_cluster_list(T) = Kept(8, T, f)
    BY <1>0, <1>1 DEF dp_rule_shortest_cluster_list, Kept
  <1>10. dp_rule_lowest_neighbor_address(T) = Kept(9, T, f)
    BY <1>1 DEF dp_rule_lowest_neighbor_address, Kept
  <1> QED
    BY Zenon, <1>3, <1>4, <1>5, <1>6, <1>7, <1>8, <1>9, <1>10 DEF KeepLeast

(* The first three turns, and the last five ones.                            *)
First3(S) ==
    LET s1 == Turn(S, dp_rule_highest_pref(S))
        s2 == Turn(s1, dp_rule_shortest_path(s1))
    IN  Turn(s2, dp_rule_lowest_origin(s2))

Last5(s4) ==
    LET s5 == Turn(s4, dp_rule_ebgp_over_ibgp(s4))
        s6 == Turn(s5, dp_rule_nearest_next_hop(s5))
        s7 == Turn(s6, dp_rule_lowest_router_id(s6))
        s8 == Turn(s7, dp_rule_shortest_cluster_list(s7))
    IN  Turn(s8, dp_rule_lowest_neighbor_address(s8))

LEMMA First3Least ==
    ASSUME NEW S, NEW f, Ranks(f, S)
    PROVE  First3(S) = Least(3, S, f)
  <1> DEFINE s1 == Turn(S, dp_rule_highest_pref(S))
             s2 == Turn(s1, dp_rule_shortest_path(s1))
             s3 == Turn(s2, dp_rule_lowest_origin(s2))
  <1>0. First3(S) = s3
    BY DEF First3
  <1>1. S = Least(0, S, f)
    BY DEF Least, Before
  <1>2. \A k \in 0 .. 8 : Least(k, S, f) \subseteq S
    BY DEF Least
  <1>3. f \in [S -> [1 .. 9 -> Int]]
    BY DEF Ranks
  <1>4. s1 = Least(1, S, f)
    <2>0. KeepLeast(S, f)
      BY RulesKeepLeast
    <2>1. dp_rule_highest_pref(S) = Kept(1, S, f)
      BY Zenon, <2>0 DEF KeepLeast
    <2>2. Turn(Least(0, S, f), Kept(0 + 1, Least(0, S, f), f)) = Least(0 + 1, S, f)
      BY <1>3, TurnRefines
    <2> QED
      BY <1>1, <2>1, <2>2
  <1>5. s2 = Least(2, S, f)
    <2> HIDE DEF s1
    <2>0. KeepLeast(s1, f)
      BY <1>2, <1>4, RulesKeepLeast
    <2>1. dp_rule_shortest_path(s1) = Kept(2, s1, f)
      BY Zenon, <2>0 DEF KeepLeast
    <2>2. Turn(Least(1, S, f), Kept(1 + 1, Least(1, S, f), f)) = Least(1 + 1, S, f)
      BY <1>3, TurnRefines
    <2> QED
      BY <1>4, <2>1, <2>2
  <1>6. s3 = Least(3, S, f)
    <2> HIDE DEF s2
    <2>0. KeepLeast(s2, f)
      BY <1>2, <1>5, RulesKeepLeast
    <2>1. dp_rule_lowest_origin(s2) = Kept(3, s2, f)
      BY Zenon, <2>0 DEF KeepLeast
    <2>2. Turn(Least(2, S, f), Kept(2 + 1, Least(2, S, f), f)) = Least(2 + 1, S, f)
      BY <1>3, TurnRefines
    <2> QED
      BY <1>5, <2>1, <2>2
  <1> QED
    BY <1>0, <1>6

LEMMA Last5Least ==
    ASSUME NEW S, NEW f, Ranks(f, S)
    PROVE  Last5(Least(4, S, f)) = Least(9, S, f)
  <1> DEFINE s4 == Least(4, S, f)
             s5 == Turn(s4, dp_rule_ebgp_over_ibgp(s4))
             s6 == Turn(s5, dp_rule_nearest_next_hop(s5))
             s7 == Turn(s6, dp_rule_lowest_router_id(s6))
             s8 == Turn(s7, dp_rule_shortest_cluster_list(s7))
             s9 == Turn(s8, dp_rule_lowest_neighbor_address(s8))
  <1>0. Last5(s4) = s9
    BY Zenon DEF Last5
  <1>2. \A k \in 0 .. 8 : Least(k, S, f) \subseteq S
    BY DEF Least
  <1>3. f \in [S -> [1 .. 9 -> Int]]
    BY DEF Ranks
  <1>4. s4 = Least(4, S, f)
    OBVIOUS
  <1> HIDE DEF s4
  <1>5. s5 = Least(5, S, f)
    <2> HIDE DEF s4
    <2>0. KeepLeast(s4, f)
      BY <1>2, <1>4, RulesKeepLeast
    <2>1. dp_rule_ebgp_over_ibgp(s4) = Kept(5, s4, f)
      BY Zenon, <2>0 DEF KeepLeast
    <2>2. Turn(Least(4, S, f), Kept(4 + 1, Least(4, S, f), f)) = Least(4 + 1, S, f)
      BY <1>3, TurnRefines
    <2> QED
      BY <1>4, <2>1, <2>2
  <1>6. s6 = Least(6, S, f)
    <2> HIDE DEF s5
    <2>0. KeepLeast(s5, f)
      BY <1>2, <1>5, RulesKeepLeast
    <2>1. dp_rule_nearest_next_hop(s5) = Kept(6, s5, f)
      BY Zenon, <2>0 DEF KeepLeast
    <2>2. Turn(Least(5, S, f), Kept(5 + 1, Least(5, S, f), f)) = Least(5 + 1, S, f)
      BY <1>3, TurnRefines
    <2> QED
      BY <1>5, <2>1, <2>2
  <1>7. s7 = Least(7, S, f)
    <2> HIDE DEF s6
    <2>0. KeepLeast(s6, f)
      BY <1>2, <1>6, RulesKeepLeast
    <2>1. dp_rule_lowest_router_id(s6) = Kept(7, s6, f)
      BY Zenon, <2>0 DEF KeepLeast
    <2>2. Turn(Least(6, S, f), Kept(6 + 1, Least(6, S, f), f)) = Least(6 + 1, S, f)
      BY <1>3, TurnRefines
    <2> QED
      BY <1>6, <2>1, <2>2
  <1>8. s8 = Least(8, S, f)
    <2> HIDE DEF s7
    <2>0. KeepLeast(s7, f)
      BY <1>2, <1>7, RulesKeepLeast
    <2>1. dp_rule_shortest_cluster_list(s7) = Kept(8, s7, f)
      BY Zenon, <2>0 DEF KeepLeast
    <2>2. Turn(Least(7, S, f), Kept(7 + 1, Least(7, S, f), f)) = Least(7 + 1, S, f)
      BY <1>3, TurnRefines
    <2> QED
      BY <1>7, <2>1, <2>2
  <1>9. s9 = Least(9, S, f)
    <2> HIDE DEF s8
    <2>0. KeepLeast(s8, f)
      BY <1>2, <1>8, RulesKeepLeast
    <2>1. dp_rule_lowest_neighbor_address(s8) = Kept(9, s8, f)
      BY Zenon, <2>0 DEF KeepLeast
    <2>2. Turn(Least(8, S, f), Kept(8 + 1, Least(8, S, f), f)) = Least(8 + 1, S, f)
      BY <1>3, TurnRefines
    <2> QED
      BY <1>8, <2>1, <2>2
  <1> QED
    BY <1>0, <1>4, <1>9

LEMMA RunSplits ==
    ASSUME NEW S
    PROVE  decision_process_run(S) =
               Last5(Turn(First3(S), dp_rule_lowest_med(First3(S))))
  BY Zenon DEF decision_process_run, First3, Last5

LEMMA RanksAreRanks ==
    ASSUME NEW P, NEW max \in Nat, NEW S \in SUBSET Candidates(P, max)
    PROVE  /\ Ranks([r \in S |-> RankOf(r, r.med)], S)
           /\ Ranks([r \in S |-> RankOf(r, 0)], S)
           /\ \A r \in S : RankOf(r, r.med)[4] = r.med /\ RankOf(r, 0)[4] = 0
  <1> DEFINE f == [r \in S |-> RankOf(r, r.med)]
             g == [r \in S |-> RankOf(r, 0)]
  <1>1. \A r \in S : r \in Candidates(P, max) /\ r.med \in Nat /\ 0 \in Nat
    BY DEF Candidates
  <1>2. ASSUME NEW r \in S
        PROVE  /\ f[r] = RankOf(r, r.med) /\ g[r] = RankOf(r, 0)
               /\ r \in Candidates(P, max) /\ r.med \in Nat /\ 0 \in Nat
    BY <1>1
  <1>3. Ranks(f, S)
    <2>1. \A r \in S : f[r] \in [1 .. 9 -> Int]
      BY <1>2, RankType
    <2>2. f \in [S -> [1 .. 9 -> Int]]
      BY <2>1
    <2>3. ASSUME NEW r \in S
          PROVE  /\ f[r][1] = - r.local_pref /\ f[r][2] = r.length
                 /\ f[r][3] = r.origin
                 /\ f[r][5] = IF r.ebgp THEN 0 ELSE 1
                 /\ f[r][6] = r.igp_cost /\ f[r][7] = r.id
                 /\ f[r][8] = r.clusters /\ f[r][9] = r.addr
      BY <1>2, RankType
    <2>4. \A r \in S : r.local_pref \in Int /\ r.length <= MaxUint8 /\ r.ebgp \in BOOLEAN
      BY MaxUint8Assumption DEF Candidates
    <2>5. \A r \in S : r.clusters \in 0 .. MaxUint8
      BY DEF Candidates
    <2>6. \A r \in S : Uint8(r.clusters) = r.clusters
      BY Zenon, <2>5, Uint8Fits
    <2> HIDE DEF f
    <2> QED
      BY <2>2, <2>3, <2>4, <2>6 DEF Ranks
  <1>4. Ranks(g, S)
    <2>1. \A r \in S : g[r] \in [1 .. 9 -> Int]
      BY <1>2, RankType
    <2>2. g \in [S -> [1 .. 9 -> Int]]
      BY <2>1
    <2>3. ASSUME NEW r \in S
          PROVE  /\ g[r][1] = - r.local_pref /\ g[r][2] = r.length
                 /\ g[r][3] = r.origin
                 /\ g[r][5] = IF r.ebgp THEN 0 ELSE 1
                 /\ g[r][6] = r.igp_cost /\ g[r][7] = r.id
                 /\ g[r][8] = r.clusters /\ g[r][9] = r.addr
      BY <1>2, RankType
    <2>4. \A r \in S : r.local_pref \in Int /\ r.length <= MaxUint8 /\ r.ebgp \in BOOLEAN
      BY MaxUint8Assumption DEF Candidates
    <2>5. \A r \in S : r.clusters \in 0 .. MaxUint8
      BY DEF Candidates
    <2>6. \A r \in S : Uint8(r.clusters) = r.clusters
      BY Zenon, <2>5, Uint8Fits
    <2> HIDE DEF g
    <2> QED
      BY <2>2, <2>3, <2>4, <2>6 DEF Ranks
  <1>5. \A r \in S : RankOf(r, r.med)[4] = r.med /\ RankOf(r, 0)[4] = 0
    BY <1>1, RankType
  <1> QED
    BY <1>3, <1>4, <1>5

LEMMA PreferredIsLeast ==
    ASSUME NEW S
    PROVE  /\ Preferred(S) = Least(9, S, [r \in S |-> RankOf(r, r.med)])
           /\ PreferredNoMed(S) = Least(9, S, [r \in S |-> RankOf(r, 0)])
  <1> DEFINE f == [r \in S |-> RankOf(r, r.med)]
             g == [r \in S |-> RankOf(r, 0)]
  <1>1. \A r \in S : f[r] = RankOf(r, r.med) /\ g[r] = RankOf(r, 0)
    OBVIOUS
  <1> HIDE DEF f, g
  <1>2. \A a, b : Precedes(a, b) <=> Before(9, a, b)
    BY DEF Precedes, Before
  <1>3. Preferred(S) = Least(9, S, f)
    BY <1>1, <1>2 DEF Preferred, Least
  <1>4. PreferredNoMed(S) = Least(9, S, g)
    BY <1>1, <1>2 DEF PreferredNoMed, Least
  <1> QED
    BY <1>3, <1>4 DEF f, g

(* With bgp options med always-compare, the loop is the lexicographic order. *)
LEMMA RunAlwaysCompare ==
    ASSUME NEW P, NEW max \in Nat, NEW S \in SUBSET Candidates(P, max), MedType = "always-compare"
    PROVE  decision_process_run(S) = Preferred(S)
  <1> DEFINE f  == [r \in S |-> RankOf(r, r.med)]
             s3 == First3(S)
  <1>1. Ranks(f, S) /\ \A r \in S : f[r][4] = r.med
    BY Zenon, RanksAreRanks
  <1>2. Preferred(S) = Least(9, S, f)
    BY Zenon, PreferredIsLeast
  <1>3. decision_process_run(S) = Last5(Turn(s3, dp_rule_lowest_med(s3)))
    BY RunSplits
  <1> HIDE DEF f
  <1>4. s3 = Least(3, S, f)
    BY <1>1, First3Least
  <1>5. f \in [S -> [1 .. 9 -> Int]]
    BY <1>1 DEF Ranks
  <1> HIDE DEF s3
  <1>6. dp_rule_lowest_med(s3) = Kept(4, s3, f)
    <2>1. \A r \in s3 : f[r][4] = r.med
      BY <1>1, <1>4 DEF Least
    <2> QED
      BY <2>1 DEF dp_rule_lowest_med, Comparable, Kept
  <1>7. Turn(Least(3, S, f), Kept(3 + 1, Least(3, S, f), f)) = Least(3 + 1, S, f)
    BY <1>5, TurnRefines
  <1>8. Turn(s3, dp_rule_lowest_med(s3)) = Least(4, S, f)
    BY <1>4, <1>6, <1>7
  <1> QED
    BY <1>1, <1>2, <1>3, <1>8, Last5Least

(* With deterministic MEDs, the MED is compared between the routes of one AS *)
(* that are left after three rules, and the other rules go on from there.    *)
LEMMA RunDeterministic ==
    ASSUME NEW P, NEW max \in Nat, NEW S \in SUBSET Candidates(P, max), MedType = "deterministic"
    PROVE  LET g  == [r \in S |-> RankOf(r, 0)]
               s4 == dp_rule_lowest_med(Least(3, S, g))
           IN  decision_process_run(S) = PreferredNoMed(s4)
  <1> DEFINE g  == [r \in S |-> RankOf(r, 0)]
             s3 == First3(S)
             s4 == dp_rule_lowest_med(s3)
             h  == [r \in s4 |-> RankOf(r, 0)]
  <1>1. Ranks(g, S) /\ \A r \in S : g[r][4] = 0
    BY Zenon, RanksAreRanks
  <1>2. decision_process_run(S) = Last5(Turn(s3, s4))
    BY RunSplits
  <1>3. s3 = Least(3, S, g)
    <2> HIDE DEF g
    <2> QED
      BY <1>1, First3Least
  <1>4. s4 \subseteq s3 /\ s3 \subseteq S
    BY <1>3 DEF dp_rule_lowest_med, Least
  <1>5. Turn(s3, s4) = s4
    <2> HIDE DEF s3
    <2>1. CASE \A r, q \in s3 : r = q
      <3>1. \A r \in s3 : r.med <= r.med
        BY <1>4 DEF Candidates
      <3>2. s4 = s3
        BY <2>1, <3>1 DEF dp_rule_lowest_med
      <3> QED
        BY <2>1, <3>2 DEF Turn
    <2>2. CASE ~ \A r, q \in s3 : r = q
      BY <2>2 DEF Turn
    <2> QED
      BY <2>1, <2>2
  <1> HIDE DEF s3, s4
  <1>6. s4 \in SUBSET Candidates(P, max)
    BY <1>4
  <1>7. Ranks(h, s4) /\ \A r \in s4 : h[r][4] = 0
    BY Zenon, <1>6, RanksAreRanks
  <1>8. \A r \in s4 : h[r] = g[r]
    BY <1>4
  <1>9. PreferredNoMed(s4) = Least(9, s4, h)
    BY Zenon, PreferredIsLeast
  <1>10. g \in [S -> [1 .. 9 -> Int]]
    BY <1>1 DEF Ranks
  <1> HIDE DEF g, h
  <1>11. \A r, q \in s4 : \A i \in 1 .. 3 : h[r][i] = h[q][i]
    <2>1. \A r, q \in s3 : \A i \in 1 .. 3 : g[r][i] = g[q][i]
      BY <1>3, <1>10, LeastAgree
    <2> QED
      BY <1>4, <1>8, <2>1
  <1>12. s4 = Least(4, s4, h)
    <2> SUFFICES ASSUME NEW r \in s4, NEW q \in s4, Before(4, h[q], h[r])
                 PROVE  FALSE
      BY DEF Least
    <2>1. PICK j \in 1 .. 4 : h[q][j] < h[r][j]
      BY DEF Before
    <2>2. h[q][j] = h[r][j] /\ h[q][j] \in Int
      <3>1. h[q] \in [1 .. 9 -> Int] /\ j \in 1 .. 9 /\ (j \in 1 .. 3 \/ j = 4)
        BY <1>7 DEF Ranks
      <3> QED
        BY <1>7, <1>11, <3>1
    <2> QED
      BY <2>1, <2>2
  <1>13. Last5(Least(4, s4, h)) = Least(9, s4, h)
    BY <1>6, <1>7, Last5Least
  <1>14. decision_process_run(S) = PreferredNoMed(s4)
    BY <1>2, <1>5, <1>9, <1>12, <1>13
  <1> QED
    BY <1>3, <1>14 DEF g, s4

(* For any set of candidates learned from different neighbours, the loop of  *)
(* _bgp_router_decision_process_run, which drops routes rule by rule and     *)
(* stops when one is left, elects what the comment of the MED rule           *)
(* (src/bgp/dp_rules.c:444) asks for: the best route of the best routes of   *)
(* each neighbouring AS, or with always-compare the best route, in the       *)
(* lexicographic order of the attributes.                                    *)
THEOREM RunElects ==
    ASSUME NEW P, NEW max \in Nat, NEW S \in SUBSET Candidates(P, max), S # {},
           \A r, q \in S : r.addr = q.addr => r = q
    PROVE  decision_process_run(S) = Elected(S)
  <1>1. CASE MedType = "always-compare"
    BY <1>1, RunAlwaysCompare DEF Elected
  <1>2. CASE MedType = "deterministic"
    <2> DEFINE f == [r \in S |-> RankOf(r, r.med)]
               g == [r \in S |-> RankOf(r, 0)]
               s3 == Least(3, S, g)
               s4 == dp_rule_lowest_med(s3)
               E  == UNION {Preferred({q \in S : q.last_as = r.last_as}) : r \in S}
    <2>1. Elected(S) = PreferredNoMed(E)
      BY <1>2 DEF Elected
    <2>2. decision_process_run(S) = PreferredNoMed(s4)
      BY <1>2, RunDeterministic
    <2>3. PICK w \in S : decision_process_run(S) = {w}
      BY RunSelectsOne
    <2>4. \A r \in S : f[r] = RankOf(r, r.med) /\ g[r] = RankOf(r, 0)
      OBVIOUS
    <2>5. Ranks(f, S) /\ Ranks(g, S) /\ \A r \in S : f[r][4] = r.med /\ g[r][4] = 0
      BY <2>4, RanksAreRanks
    <2> HIDE DEF f, g
    <2>6. \A a, b : Precedes(a, b) <=> Before(9, a, b)
      BY DEF Precedes, Before
    <2>7. f \in [S -> [1 .. 9 -> Int]] /\ g \in [S -> [1 .. 9 -> Int]]
      BY <2>5 DEF Ranks
    <2>8. \A r \in S : \A i \in 1 .. 9 : i # 4 => f[r][i] = g[r][i]
      <3> SUFFICES ASSUME NEW r \in S, NEW i \in 1 .. 9, i # 4
                   PROVE  f[r][i] = g[r][i]
        OBVIOUS
      <3>1. \/ i = 1 \/ i = 2 \/ i = 3 \/ i = 5 \/ i = 6 \/ i = 7 \/ i = 8 \/ i = 9
        OBVIOUS
      <3> QED
        BY <2>5, <3>1 DEF Ranks
    <2>9. s3 \subseteq S /\ s4 \subseteq s3
      BY DEF Least, dp_rule_lowest_med
    <2>10. \A r \in S : r.med \in Nat
      BY DEF Candidates
    <2>11. \A r, q : Comparable(r, q) <=> r.last_as = q.last_as
      BY <1>2 DEF Comparable
    (* What is kept by the MED rule.                                         *)
    <2>12. \A r : r \in s4 <=> /\ r \in s3
                              /\ \A q \in s3 : r.last_as = q.last_as => r.med <= q.med
      BY <2>11 DEF dp_rule_lowest_med
    <2>13. \A r, q \in s3 : \A i \in 1 .. 3 : g[r][i] = g[q][i]
      BY <2>7, LeastAgree
    <2> HIDE DEF s4, E
    <2>14. w \in s4 /\ w \in s3 /\ w \in S
      BY <2>2, <2>3, <2>9 DEF PreferredNoMed
    <2>15. \A q \in s4 : ~ Before(9, g[q], g[w])
      BY <2>2, <2>3, <2>4, <2>6, <2>9 DEF PreferredNoMed
    (* A route that would be before the winner in both orders is not kept.   *)
    <2>16. ASSUME NEW q \in S, NEW j \in 1 .. 9, j # 4, g[q][j] < g[w][j],
                  \A i \in 1 .. j - 1 : g[q][i] = g[w][i],
                  q \in s3 => q \in s4
           PROVE  FALSE
      <3>1. CASE j \in 1 .. 3
        <4>1. Before(3, g[q], g[w])
          BY <2>16, <3>1 DEF Before
        <4> QED
          BY <2>14, <4>1 DEF Least
      <3>2. CASE j \notin 1 .. 3
        <4>1. \A i \in 1 .. 3 : i \in 1 .. j - 1
          BY <3>2, <2>16
        <4>2. \A i \in 1 .. 3 : g[q][i] = g[w][i]
          BY <2>16, <4>1
        <4>3. q \in s3
          <5>1. 3 \in 0 .. 9 /\ w \in Least(3, S, g)
            BY <2>14
          <5> QED
            BY <4>2, <5>1, AgreeLeast
        <4>4. Before(9, g[q], g[w])
          BY <2>16 DEF Before
        <4> QED
          BY <2>15, <2>16, <4>3, <4>4
      <3> QED
        BY <3>1, <3>2
    (* The winner is the best route of its AS ...                            *)
    <2>17. w \in E
      <3> DEFINE G == {q \in S : q.last_as = w.last_as}
      <3> SUFFICES ASSUME NEW q \in S, q.last_as = w.last_as, Before(9, f[q], f[w])
                   PROVE  FALSE
        <4>1. w \in G
          BY <2>14
        <4>2. w \in Preferred(G) => w \in E
          BY Zenon, <2>14 DEF E
        <4>3. (\A q \in G : ~ Before(9, f[q], f[w])) => w \in Preferred(G)
          BY <2>4, <2>6, <4>1 DEF Preferred
        <4> QED
          BY <4>2, <4>3
      <3>1. PICK j \in 1 .. 9 : f[q][j] < f[w][j] /\ \A i \in 1 .. j - 1 : f[q][i] = f[w][i]
        BY DEF Before
      <3>2. \A i \in 1 .. j - 1 : g[q][i] = g[w][i]
        <4> SUFFICES ASSUME NEW i \in 1 .. j - 1
                     PROVE  g[q][i] = g[w][i]
          OBVIOUS
        <4>1. i \in 1 .. 9
          OBVIOUS
        <4>2. CASE i = 4
          BY <2>5, <2>14, <4>2
        <4>3. CASE i # 4
          BY <2>8, <2>14, <3>1, <4>1, <4>3
        <4> QED
          BY <4>2, <4>3
      <3>3. CASE j = 4
        <4>1. q.med < w.med
          BY <2>5, <2>14, <3>1, <3>3
        <4>2. \A i \in 1 .. 3 : g[q][i] = g[w][i]
          BY <3>2, <3>3
        <4>3. q \in s3
          <5>1. 3 \in 0 .. 9 /\ w \in Least(3, S, g)
            BY <2>14
          <5> QED
            BY <4>2, <5>1, AgreeLeast
        <4>4. w.med <= q.med
          BY <2>12, <2>14, <4>3
        <4> QED
          BY <2>10, <2>14, <4>1, <4>4
      <3>4. CASE j # 4
        <4>1. g[q][j] < g[w][j]
          BY <2>8, <2>14, <3>1, <3>4
        <4>2. CASE j \in 1 .. 3
          <5>1. Before(3, g[q], g[w])
            BY <3>2, <4>1, <4>2 DEF Before
          <5> QED
            BY <2>14, <5>1 DEF Least
        <4>3. CASE j \notin 1 .. 3
          <5>1. 4 \in 1 .. j - 1
            BY <3>4, <4>3
          <5>2. q.med = w.med
            BY <2>5, <2>14, <3>1, <5>1
          <5>3. q \in s3 => q \in s4
            BY <2>12, <2>14, <5>2
          <5> QED
            BY <2>16, <3>2, <3>4, <4>1, <5>3
        <4> QED
          BY <4>2, <4>3
      <3> QED
        BY <3>3, <3>4
    (* ... and the best one among the best routes of all ASes.               *)
    <2>18. ASSUME NEW q \in E
           PROVE  q \in S /\ (q \in s3 => q \in s4)
      <3>1. PICK r \in S : q \in Preferred({x \in S : x.last_as = r.last_as})
        BY DEF E
      <3>2. /\ q \in S /\ q.last_as = r.last_as
            /\ \A x \in S : x.last_as = r.last_as => ~ Before(9, f[x], f[q])
        BY <2>4, <2>6, <3>1 DEF Preferred
      <3>3. ASSUME q \in s3, NEW x \in s3, x.last_as = q.last_as
            PROVE  q.med <= x.med
        <4> SUFFICES ASSUME x.med < q.med
                     PROVE  FALSE
          BY <2>9, <2>10, <3>2
        <4>1. f[x][4] < f[q][4]
          BY <2>5, <2>9, <3>2
        <4>2. \A i \in 1 .. 4 - 1 : f[x][i] = f[q][i]
          BY <2>8, <2>9, <2>13, <3>3
        <4>3. 4 \in 1 .. 9
          OBVIOUS
        <4>4. Before(9, f[x], f[q])
          BY <4>1, <4>2, <4>3 DEF Before
        <4> QED
          BY <2>9, <3>2, <3>3, <4>4
      <3> QED
        BY <2>12, <3>2, <3>3
    <2>19. \A q \in E : ~ Before(9, g[q], g[w])
      <3> SUFFICES ASSUME NEW q \in E, Before(9, g[q], g[w])
                   PROVE  FALSE
        OBVIOUS
      <3>1. PICK j \in 1 .. 9 : g[q][j] < g[w][j] /\ \A i \in 1 .. j - 1 : g[q][i] = g[w][i]
        BY DEF Before
      <3>2. j # 4
        BY <2>5, <2>14, <2>18, <3>1
      <3> QED
        BY <2>16, <2>18, <3>1, <3>2
    (* No other route is: the address of its neighbour would be the same.    *)
    <2>20. ASSUME NEW q \in E, \A x \in E : ~ Before(9, g[x], g[q])
           PROVE  q = w
      <3> DEFINE h == [r \in E |-> g[r]]
      <3>1. E \subseteq S
        BY <2>18
      <3>2. h \in [E -> [1 .. 9 -> Int]] /\ \A r \in E : h[r] = g[r]
        BY <2>7, <3>1
      <3> HIDE DEF h
      <3>3. q \in Least(9, E, h) /\ w \in Least(9, E, h)
        BY <2>17, <2>19, <2>20, <3>2 DEF Least
      <3>4. h[q][9] = h[w][9]
        <4>1. 9 \in 0 .. 9 /\ 9 \in 1 .. 9
          OBVIOUS
        <4> QED
          BY <3>2, <3>3, <4>1, LeastAgree
      <3>5. q.addr = w.addr
        BY <2>5, <2>14, <2>17, <3>1, <3>2, <3>4 DEF Ranks
      <3> QED
        BY <2>14, <3>1, <3>5
    <2>21. PreferredNoMed(E) = {w}
      <3>1. \A q \in E : q \in S
        BY <2>18
      <3>2. PreferredNoMed(E) = {r \in E : \A x \in E : ~ Before(9, g[x], g[r])}
        BY <2>4, <2>6, <3>1 DEF PreferredNoMed
      <3> QED
        BY <2>17, <2>19, <2>20, <3>2
    <2> QED
      BY <2>1, <2>3, <2>21
  <1> QED
    BY <1>1, <1>2, MedTypeAssumption
=============================================================================
