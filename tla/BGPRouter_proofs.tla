-------------------------- MODULE BGPRouter_proofs --------------------------
(* Invariants of a router's tables, for any neighbours, routes and policies: *)
(* the best route is in the routing table and backed by a peer, the peers    *)
(* have been told of it, and it is the one the decision process would choose *)
(* now.                                                                      *)
EXTENDS BGPRouter, DPRules_proofs

-----------------------------------------------------------------------------
(* The decision process chooses among the feasible routes.                   *)

LEMMA TurnSubset ==
    ASSUME NEW S, NEW T \in SUBSET S
    PROVE  Turn(S, T) \subseteq S
  BY DEF Turn

LEMMA RunSubset ==
    ASSUME NEW S
    PROVE  decision_process_run(S) \subseteq S
  <1> DEFINE s1 == Turn(S, dp_rule_highest_pref(S))
             s2 == Turn(s1, dp_rule_shortest_path(s1))
             s3 == Turn(s2, dp_rule_lowest_origin(s2))
             s4 == Turn(s3, dp_rule_lowest_med(s3))
             s5 == Turn(s4, dp_rule_ebgp_over_ibgp(s4))
             s6 == Turn(s5, dp_rule_nearest_next_hop(s5))
             s7 == Turn(s6, dp_rule_lowest_router_id(s6))
             s8 == Turn(s7, dp_rule_shortest_cluster_list(s7))
             s9 == Turn(s8, dp_rule_lowest_neighbor_address(s8))
  <1>0. decision_process_run(S) = s9
    BY Zenon DEF decision_process_run
  <1> HIDE DEF s1, s2, s3, s4, s5, s6, s7, s8, s9
  <1>1. s1 \subseteq S
    <2>1. dp_rule_highest_pref(S) \subseteq S  BY DEF dp_rule_highest_pref
    <2> QED  BY <2>1, TurnSubset DEF s1
  <1>2. s2 \subseteq s1
    <2>1. dp_rule_shortest_path(s1) \subseteq s1  BY DEF dp_rule_shortest_path
    <2> QED  BY <2>1, TurnSubset DEF s2
  <1>3. s3 \subseteq s2
    <2>1. dp_rule_lowest_origin(s2) \subseteq s2  BY DEF dp_rule_lowest_origin
    <2> QED  BY <2>1, TurnSubset DEF s3
  <1>4. s4 \subseteq s3
    <2>1. dp_rule_lowest_med(s3) \subseteq s3  BY DEF dp_rule_lowest_med
    <2> QED  BY <2>1, TurnSubset DEF s4
  <1>5. s5 \subseteq s4
    <2>1. dp_rule_ebgp_over_ibgp(s4) \subseteq s4  BY DEF dp_rule_ebgp_over_ibgp
    <2> QED  BY <2>1, TurnSubset DEF s5
  <1>6. s6 \subseteq s5
    <2>1. dp_rule_nearest_next_hop(s5) \subseteq s5  BY DEF dp_rule_nearest_next_hop
    <2> QED  BY <2>1, TurnSubset DEF s6
  <1>7. s7 \subseteq s6
    <2>1. dp_rule_lowest_router_id(s6) \subseteq s6  BY DEF dp_rule_lowest_router_id
    <2> QED  BY <2>1, TurnSubset DEF s7
  <1>8. s8 \subseteq s7
    <2>1. dp_rule_shortest_cluster_list(s7) \subseteq s7  BY DEF dp_rule_shortest_cluster_list
    <2> QED  BY <2>1, TurnSubset DEF s8
  <1>9. s9 \subseteq s8
    <2>1. dp_rule_lowest_neighbor_address(s8) \subseteq s8  BY DEF dp_rule_lowest_neighbor_address
    <2> QED  BY <2>1, TurnSubset DEF s9
  <1> QED
    BY <1>0, <1>1, <1>2, <1>3, <1>4, <1>5, <1>6, <1>7, <1>8, <1>9

LEMMA WinnerFeasible ==
    ASSUME NEW in, NEW S, NEW id, Selected(in, S, id) # {}
    PROVE  (CHOOSE c \in Selected(in, S, id) : TRUE).peer \in Feasible(in, S)
  <1> DEFINE c0 == CHOOSE c \in Selected(in, S, id) : TRUE
  <1>1. c0 \in Selected(in, S, id)
    OBVIOUS
  <1>2. c0 \in {Candidate(p, in[p], id) : p \in Feasible(in, S)}
    BY Zenon, <1>1, RunSubset DEF Selected
  <1>3. PICK p \in Feasible(in, S) : c0 = Candidate(p, in[p], id)
    BY <1>2
  <1>4. Candidate(p, in[p], id).peer = p
    BY DEF Candidate
  <1> QED
    BY Zenon, <1>3, <1>4

-----------------------------------------------------------------------------
(* Types of what the policies and the dissemination produce.                 *)

LEMMA ExportedOK ==
    ASSUME NEW r \in Routes, NEW src \in Peers \cup {Local}, NEW dst \in Peers,
           NEW id \in [Peers -> Nat]
    PROVE  Exported(r, src, dst, id) \in Routes
  <1> USE PeersAssumption
  <1>1. CASE ~ Internal(dst)
    <2> DEFINE path == <<MyAsn>> \o r.path
               hop  == IF NextHop[dst] # ANY THEN NextHop[dst] ELSE MyId
               x    == Exported(r, src, dst, id)
    <2>1. path \in Seq(Nat) /\ <<>> \in Seq(Nat)
      BY DEF Routes
    <2>2. hop \in Hops
      BY DEF ANY
    <2>3. MED_MISSING \in Nat /\ ABSENT \in Int
      BY SMT DEF MED_MISSING, ABSENT
    <2>4. x = [r EXCEPT !.originator = ABSENT, !.clusters = <<>>, !.med = MED_MISSING,
                        !.next_hop = hop, !.path = path]
      BY <1>1 DEF Exported
    <2> HIDE DEF path, hop, x
    <2>5. x = [next_hop |-> hop, local_pref |-> r.local_pref, path |-> path,
               origin |-> r.origin, med |-> MED_MISSING, comms |-> r.comms,
               originator |-> ABSENT, clusters |-> <<>>]
      BY Zenon, <2>4 DEF Routes
    <2>6. x \in Routes
      BY <2>1, <2>2, <2>3, <2>5 DEF Routes
    <2> QED
      BY <2>6 DEF x
  <1>2. CASE Internal(dst) /\ Reflected(src, dst)
    <2>1. Append(r.clusters, MyCluster) \in Seq(Nat)
      BY DEF Routes
    <2>2. (IF r.originator = ABSENT THEN id[src] ELSE r.originator) \in Int
      BY <1>2 DEF Reflected, Routes
    <2> QED
      BY Zenon, <1>2, <2>1, <2>2 DEF Exported, Routes
  <1>3. CASE Internal(dst) /\ ~ Reflected(src, dst) /\ src = Local
    <2>1. (IF Reflector THEN MyId ELSE r.originator) \in Int
      BY DEF Routes
    <2> QED
      BY Zenon, <1>3, <2>1 DEF Exported, Routes
  <1>4. CASE Internal(dst) /\ ~ Reflected(src, dst) /\ src # Local
    <2>1. (IF src \in NextHopSelf THEN MyId
           ELSE IF NextHop[dst] # ANY THEN NextHop[dst] ELSE r.next_hop) \in Hops
      BY DEF ANY, Routes
    <2> QED
      BY Zenon, <1>4, <2>1 DEF Exported, Routes
  <1> QED
    BY <1>1, <1>2, <1>3, <1>4

LEMMA AnnouncementOK ==
    ASSUME NEW entry \in Entries \cup {None}, NEW p \in Peers, NEW id \in [Peers -> Nat]
    PROVE  Announcement(entry, p, id) \in Routes \cup {None}
  <1>1. CASE entry = None
    BY <1>1 DEF Announcement
  <1>2. CASE entry # None
    <2>1. entry.route \in Routes /\ entry.peer \in Peers \cup {Local}
      BY <1>2 DEF Entries
    <2>2. Exported(entry.route, entry.peer, p, id) \in Routes
      BY Zenon, <2>1, ExportedOK
    <2> QED
      BY <1>2, <2>2 DEF Announcement, advertise_to_peer
  <1> QED
    BY <1>1, <1>2

Views == [Peers -> Routes \cup {None}]

LEMMA DisseminateOK ==
    ASSUME NEW entry \in Entries \cup {None}, NEW S, NEW id \in [Peers -> Nat],
           NEW out \in Views, NEW view \in Views, disseminate(entry, S, id, out, view)
    PROVE  rib_out' \in Views /\ told' \in Views
  <1>1. ASSUME NEW p \in Peers
        PROVE  /\ Announcement(entry, p, id) \in Routes \cup {None}
               /\ Announcement(entry, p, id) # None => entry.route \in Routes
    BY AnnouncementOK DEF Announcement, Entries
  <1>2. rib_out' \in Views
    BY <1>1 DEF disseminate, Views
  <1>3. told' \in Views
    BY <1>1 DEF disseminate, Views
  <1> QED
    BY <1>2, <1>3

-----------------------------------------------------------------------------
(* Type correctness and the routing table.                                   *)

(* What one run of the decision process establishes, whoever calls it.       *)
LEMMA DecisionOK ==
    ASSUME TypeOK,
           NEW in \in Views, NEW flags \in SUBSET Peers, NEW S \in SUBSET Peers,
           NEW id \in [Peers -> Nat], NEW out \in Views, NEW view \in Views,
           decision_process(in, flags, S, id, out, view)
    PROVE  /\ rib_in' \in Views /\ best' \subseteq Peers /\ loc_rib' \in Entries \cup {None}
           /\ rib_out' \in Views /\ told' \in Views /\ rt' \in Hops \cup {None}
           /\ unscanned' \in BOOLEAN
           /\ RtFollowsLocRib => RtFollowsLocRib'
  <1> DEFINE chosen == Selected(in, S, id)
             winner == (CHOOSE c \in chosen : TRUE).peer
             entry  == [route |-> in[winner], peer |-> winner]
             others == flags \ Feasible(in, S)
             same   == Learned /\ loc_rib.route = entry.route
             off    == IF loc_rib = None THEN others ELSE others \ {loc_rib.peer}
  <1>1. chosen # {} => /\ winner \in Peers /\ in[winner] \in Routes
                       /\ entry \in Entries /\ in[winner].next_hop \in Hops
    <2> SUFFICES ASSUME chosen # {}
                 PROVE  /\ winner \in Peers /\ in[winner] \in Routes
                        /\ entry \in Entries /\ in[winner].next_hop \in Hops
      BY Zenon
    <2>1. winner \in Feasible(in, S)
      BY Zenon, WinnerFeasible
    <2> HIDE DEF winner
    <2>2. winner \in Peers /\ in[winner] \in Routes
      BY <2>1 DEF Feasible, Views
    <2> QED
      BY Zenon, <2>2 DEF Entries, Routes
  <1>2. rib_in' = in /\ unscanned' = FALSE
    BY Zenon DEF decision_process
  <1>3. \/ /\ Originated
           /\ best' = flags /\ rib_out' = out /\ told' = view
           /\ UNCHANGED <<loc_rib, rt>>
        \/ /\ loc_rib = None /\ chosen = {}
           /\ best' = others /\ rib_out' = out /\ told' = view
           /\ UNCHANGED <<loc_rib, rt>>
        \/ /\ Learned /\ chosen = {}
           /\ best' = off /\ loc_rib' = None /\ rt' = None
           /\ disseminate(None, S, id, out, view)
        \/ /\ chosen # {} /\ same
           /\ best' = others \cup {winner} /\ rt' = entry.route.next_hop
           /\ rib_out' = out /\ told' = view
           /\ UNCHANGED loc_rib
        \/ /\ ~ Originated /\ chosen # {} /\ ~ same
           /\ best' = off \cup {winner} /\ loc_rib' = entry /\ rt' = entry.route.next_hop
           /\ disseminate(entry, S, id, out, view)
    BY Zenon DEF decision_process, no_best_route, unchanged_best_route, update_best_route, BestFlagOff
  <1>4. others \subseteq Peers /\ off \subseteq Peers
    OBVIOUS
  <1>5. entry.route = in[winner] /\ entry.peer = winner
    OBVIOUS
  <1> HIDE DEF chosen, winner, entry, others, off
  <1>6. CASE rib_out' = out /\ told' = view /\ UNCHANGED <<loc_rib, rt>>
             /\ (best' = flags \/ best' = others)
    BY Zenon, <1>2, <1>4, <1>6 DEF TypeOK, RtFollowsLocRib, Learned
  <1>7. CASE /\ Learned /\ chosen = {}
             /\ best' = off /\ loc_rib' = None /\ rt' = None
             /\ disseminate(None, S, id, out, view)
    <2>1. rib_out' \in Views /\ told' \in Views
      BY <1>7, DisseminateOK
    <2> QED
      BY Zenon, <1>2, <1>4, <1>7, <2>1 DEF RtFollowsLocRib, Learned
  <1>8. CASE /\ chosen # {} /\ same
             /\ best' = others \cup {winner} /\ rt' = entry.route.next_hop
             /\ rib_out' = out /\ told' = view
             /\ UNCHANGED loc_rib
    BY Zenon, <1>1, <1>2, <1>4, <1>5, <1>8 DEF TypeOK, RtFollowsLocRib, Learned
  <1>9. CASE /\ ~ Originated /\ chosen # {} /\ ~ same
             /\ best' = off \cup {winner} /\ loc_rib' = entry /\ rt' = entry.route.next_hop
             /\ disseminate(entry, S, id, out, view)
    <2>1. rib_out' \in Views /\ told' \in Views
      BY <1>1, <1>9, DisseminateOK
    <2>2. rt' \in Hops
      BY <1>1, <1>5, <1>9
    <2>3. RtFollowsLocRib'
      BY <1>9 DEF RtFollowsLocRib
    <2> QED
      BY Zenon, <1>1, <1>2, <1>4, <1>9, <2>1, <2>2, <2>3
  <1> QED
    BY Zenon, <1>3, <1>6, <1>7, <1>8, <1>9

LEMMA ImportedOK ==
    ASSUME NEW p \in Peers, NEW r \in Routes
    PROVE  Imported(p, r) \in Routes
  BY Zenon DEF Imported, Routes, DefaultPref

LEMMA LocalRouteOK == LocalRoute \in Routes
  <1>1. <<>> \in Seq(Nat)
    OBVIOUS
  <1> QED
    BY <1>1, PeersAssumption DEF LocalRoute, Routes, DefaultPref, ABSENT

(* Every step keeps the types and the agreement of the routing table.        *)
RtInv == TypeOK /\ RtFollowsLocRib

LEMMA RtInvInit == Init => RtInv
  <1> SUFFICES ASSUME Init
               PROVE  RtInv
    OBVIOUS
  <1>1. igp \in [Hops -> Costs \cup {None}]
    BY DEF Init
  <1>2. /\ router_id \in [Peers -> Nat] /\ rib_in \in Views /\ rib_out \in Views
        /\ heard \in Views /\ told \in Views
    BY DEF Init, Views, ANY
  <1>3. /\ up \subseteq Peers /\ been \subseteq Peers /\ best \subseteq Peers
        /\ loc_rib = None /\ rt = None /\ local_nets \in BOOLEAN /\ unscanned \in BOOLEAN
    BY Zenon DEF Init
  <1> QED
    BY <1>1, <1>2, <1>3 DEF RtInv, TypeOK, Views, RtFollowsLocRib, Learned

LEMMA RtInvNext == RtInv /\ [Next]_vars => RtInv'
  <1> SUFFICES ASSUME RtInv, [Next]_vars
               PROVE  RtInv'
    OBVIOUS
  <1> USE DEF RtInv
  <1>0. ANY \in Nat /\ RouterId \in [Peers -> Nat] /\ None \in Routes \cup {None}
    BY PeersAssumption DEF ANY
  <1>1. ASSUME NEW p \in Peers, NEW offer \in Offers[p], process_update(p, offer)
        PROVE  RtInv'
    <2> DEFINE route    == Imported(p, offer)
               eligible == bgp_peer_route_eligible(p, route)
               in       == [rib_in EXCEPT ![p] = IF eligible THEN route ELSE None]
    <2>1. route \in Routes
      BY ImportedOK, RouterAssumption
    <2>2. /\ heard' = [heard EXCEPT ![p] = IF eligible THEN route ELSE None]
          /\ \/ decision_process(in, best \ {p}, up, router_id, rib_out, told)
             \/ NoDecision(in, best \ {p}, rib_out, told)
          /\ UNCHANGED <<up, been, router_id, local_nets, igp>>
      BY Zenon, <1>1 DEF process_update
    <2> HIDE DEF route, eligible
    <2>3. in \in Views /\ heard' \in Views
      BY <2>1, <2>2 DEF TypeOK, Views
    <2> HIDE DEF in
    <2>4. CASE decision_process(in, best \ {p}, up, router_id, rib_out, told)
      <3>1. best \ {p} \in SUBSET Peers /\ up \in SUBSET Peers /\ router_id \in [Peers -> Nat]
            /\ rib_out \in Views /\ told \in Views
        BY Zenon DEF TypeOK, Views
      <3> QED
        BY Zenon, <2>2, <2>3, <2>4, <3>1, DecisionOK DEF TypeOK, Views
    <2>5. CASE NoDecision(in, best \ {p}, rib_out, told)
      BY <2>2, <2>3, <2>5 DEF NoDecision, TypeOK, Views, RtFollowsLocRib, Learned
    <2> QED
      BY Zenon, <2>2, <2>4, <2>5
  <1>2. ASSUME NEW p \in Peers, process_withdraw(p)
        PROVE  RtInv'
    <2> DEFINE in == [rib_in EXCEPT ![p] = None]
    <2>1. /\ heard' = [heard EXCEPT ![p] = None]
          /\ decision_process(in, best \ {p}, up, router_id, rib_out, told)
          /\ UNCHANGED <<up, been, router_id, local_nets, igp>>
      BY <1>2 DEF process_withdraw
    <2>2. in \in Views /\ heard' \in Views
      BY <2>1 DEF TypeOK, Views
    <2> HIDE DEF in
    <2>3. best \ {p} \in SUBSET Peers /\ up \in SUBSET Peers /\ router_id \in [Peers -> Nat]
          /\ rib_out \in Views /\ told \in Views
      BY DEF TypeOK, Views
    <2> QED
      BY Zenon, <2>1, <2>2, <2>3, DecisionOK DEF TypeOK, Views
  <1>3. ASSUME NEW p \in Peers, NEW answer \in BOOLEAN, session_established(p, answer)
        PROVE  RtInv'
    <2>1. router_id' \in [Peers -> Nat]
      BY <1>0, <1>3 DEF session_established, TypeOK
    <2>2. rib_out' \in Views /\ told' \in Views
      <3>1. CASE loc_rib = None
        BY <1>3, <3>1 DEF session_established, TypeOK, Views
      <3>2. CASE loc_rib # None
        <4>1. disseminate(loc_rib, {p}, router_id', rib_out, told)
          BY <1>3, <3>2 DEF session_established
        <4>2. loc_rib \in Entries \cup {None} /\ rib_out \in Views /\ told \in Views
          BY DEF TypeOK, Views
        <4> QED
          BY <2>1, <4>1, <4>2, DisseminateOK
      <3> QED
        BY <3>1, <3>2
    <2>3. /\ up' = up \cup {p} /\ been' = been \cup {p}
          /\ UNCHANGED <<rib_in, best, loc_rib, rt, local_nets, igp, unscanned, heard>>
      BY <1>3 DEF session_established
    <2> QED
      BY <2>1, <2>2, <2>3 DEF TypeOK, Views, RtFollowsLocRib, Learned
  <1>4. ASSUME NEW p \in Peers, session_closed(p)
        PROVE  RtInv'
    <2> DEFINE id   == [router_id EXCEPT ![p] = ANY]
               out  == [rib_out EXCEPT ![p] = None]
               view == [told EXCEPT ![p] = None]
    <2>1. /\ up' = up \ {p} /\ router_id' = id /\ heard' = [heard EXCEPT ![p] = None]
          /\ \/ decision_process(rib_in, best, up', id, out, view)
             \/ NoDecision(rib_in, best, out, view)
          /\ UNCHANGED <<been, local_nets, igp>>
      BY <1>4 DEF session_closed
    <2>2. id \in [Peers -> Nat] /\ out \in Views /\ view \in Views /\ heard' \in Views
      BY <1>0, <2>1 DEF TypeOK, Views
    <2> HIDE DEF id, out, view
    <2>3. CASE decision_process(rib_in, best, up', id, out, view)
      <3>1. best \in SUBSET Peers /\ up' \in SUBSET Peers /\ rib_in \in Views
        BY <2>1 DEF TypeOK, Views
      <3> QED
        BY Zenon, <2>1, <2>2, <2>3, <3>1, DecisionOK DEF TypeOK, Views
    <2>4. CASE NoDecision(rib_in, best, out, view)
      BY Zenon, <2>1, <2>2, <2>4 DEF NoDecision, TypeOK, Views, RtFollowsLocRib, Learned
    <2> QED
      BY <2>1, <2>3, <2>4
  <1>5. ASSUME NEW p \in Peers, peer_readv_prefix(p)
        PROVE  RtInv'
    <2>1. rib_out' \in Views /\ told' \in Views
      <3>1. disseminate(loc_rib, {p}, router_id, rib_out, told)
        BY <1>5 DEF peer_readv_prefix
      <3>2. /\ loc_rib \in Entries \cup {None} /\ rib_out \in Views /\ told \in Views
            /\ router_id \in [Peers -> Nat]
        BY DEF TypeOK, Views
      <3> QED
        BY <3>1, <3>2, DisseminateOK
    <2> QED
      BY <1>5, <2>1 DEF peer_readv_prefix, TypeOK, Views, RtFollowsLocRib, Learned
  <1>6. ASSUME add_network
        PROVE  RtInv'
    <2>1. loc_rib' = [route |-> LocalRoute, peer |-> Local]
      BY <1>6 DEF add_network
    <2>2. loc_rib' \in Entries /\ loc_rib'.peer = Local
      BY <2>1, LocalRouteOK DEF Entries
    <2>3. rib_out' \in Views /\ told' \in Views
      <3>1. disseminate(loc_rib', up, router_id, rib_out, told)
        BY <1>6 DEF add_network
      <3>2. router_id \in [Peers -> Nat] /\ rib_out \in Views /\ told \in Views
        BY DEF TypeOK, Views
      <3> QED
        BY <2>2, <3>1, <3>2, DisseminateOK
    <2> QED
      BY Zenon, <1>6, <2>2, <2>3 DEF add_network, TypeOK, Views, RtFollowsLocRib, Learned
  <1>7. ASSUME del_network
        PROVE  RtInv'
    <2>1. rib_out' \in Views /\ told' \in Views
      <3>1. disseminate(None, up, router_id, rib_out, told)
        BY <1>7 DEF del_network
      <3>2. router_id \in [Peers -> Nat] /\ rib_out \in Views /\ told \in Views
        BY DEF TypeOK, Views
      <3> QED
        BY <3>1, <3>2, DisseminateOK
    <2> QED
      BY Zenon, <1>7, <2>1 DEF del_network, TypeOK, Views, RtFollowsLocRib, Learned
  <1>8. ASSUME NEW loc \in BOOLEAN, clear_rib(loc)
        PROVE  RtInv'
    BY <1>8 DEF clear_rib, TypeOK, RtFollowsLocRib, Learned
  <1>9. ASSUME scan_rib
        PROVE  RtInv'
    <2>1. /\ rib_in \in Views /\ best \in SUBSET Peers /\ up \in SUBSET Peers
          /\ router_id \in [Peers -> Nat] /\ rib_out \in Views /\ told \in Views
      BY DEF TypeOK, Views
    <2>2. /\ decision_process(rib_in, best, up, router_id, rib_out, told)
          /\ UNCHANGED <<up, been, router_id, local_nets, igp, heard>>
      BY <1>9 DEF scan_rib
    <2> QED
      BY Zenon, <2>1, <2>2, DecisionOK DEF TypeOK, Views
  <1>10. ASSUME NEW h \in Hops, NEW c \in Costs \cup {None}, igp_change(h, c)
         PROVE  RtInv'
    BY <1>10 DEF igp_change, ribs, TypeOK, RtFollowsLocRib, Learned
  <1>11. CASE UNCHANGED vars
    BY <1>11 DEF vars, ribs, TypeOK, RtFollowsLocRib, Learned
  <1> QED
    BY Zenon, <1>1, <1>2, <1>3, <1>4, <1>5, <1>6, <1>7, <1>8, <1>9, <1>10, <1>11
       DEF Next, PeerStep, RouterStep, IgpStep

(* Every variable of the router keeps its type, whatever the neighbours      *)
(* announce, the policies, and the commands of the user.                     *)
THEOREM TypeCorrect == Spec => []TypeOK
  <1>1. RtInv => TypeOK
    BY DEF RtInv
  <1> QED
    BY <1>1, RtInvInit, RtInvNext, PTL DEF Spec

(* The routing table always has the next-hop of the learned route of the     *)
(* Loc-RIB, so the removal in bgp_router_rt_del_route finds its entry.       *)
THEOREM RoutingTableAgrees == Spec => []RtFollowsLocRib
  <1>1. RtInv => RtFollowsLocRib
    BY DEF RtInv
  <1> QED
    BY <1>1, RtInvInit, RtInvNext, PTL DEF Spec

-----------------------------------------------------------------------------
(* The Loc-RIB is backed by an Adj-RIB-In, as long as no command empties the *)
(* Adj-RIBs and no two neighbours announce routes that are equal once        *)
(* imported (route_equals ignores the peer, so that the Loc-RIB would keep   *)
(* the route of the neighbour that lost it: run same_route).                 *)
DistinctOffers ==
    \A p, q \in Peers : \A r \in Offers[p], s \in Offers[q] :
        Imported(p, r) = Imported(q, s) => p = q

(* The strengthening: an Adj-RIB-In only has routes of its own neighbour.    *)
FromOffers(in) ==
    \A p \in Peers : in[p] # None => \E r \in Offers[p] : in[p] = Imported(p, r)

BackedInv == RtInv /\ FromOffers(rib_in) /\ LocRibBacked

LEMMA DecisionBacks ==
    ASSUME DistinctOffers, BackedInv,
           NEW in \in Views, FromOffers(in), NEW flags, NEW S \in SUBSET Peers,
           NEW id, NEW out, NEW view, decision_process(in, flags, S, id, out, view), up' = S
    PROVE  FromOffers(rib_in') /\ LocRibBacked'
  <1> DEFINE chosen == Selected(in, S, id)
             winner == (CHOOSE c \in chosen : TRUE).peer
             entry  == [route |-> in[winner], peer |-> winner]
             others == flags \ Feasible(in, S)
             same   == Learned /\ loc_rib.route = entry.route
             off    == IF loc_rib = None THEN others ELSE others \ {loc_rib.peer}
  <1>1. chosen # {} => winner \in S /\ in[winner] # None
    <2> SUFFICES ASSUME chosen # {}
                 PROVE  winner \in S /\ in[winner] # None
      OBVIOUS
    <2>1. winner \in Feasible(in, S)
      BY Zenon, WinnerFeasible
    <2> HIDE DEF winner
    <2> QED
      BY Zenon, <2>1 DEF Feasible
  <1>2. rib_in' = in
    BY Zenon DEF decision_process
  <1>3. \/ Originated /\ UNCHANGED loc_rib
        \/ loc_rib = None /\ UNCHANGED loc_rib
        \/ loc_rib' = None
        \/ chosen # {} /\ same /\ best' = others \cup {winner} /\ UNCHANGED loc_rib
        \/ chosen # {} /\ best' = off \cup {winner} /\ loc_rib' = entry
    BY Zenon DEF decision_process, no_best_route, unchanged_best_route, update_best_route, BestFlagOff
  <1>4. entry.route = in[winner] /\ entry.peer = winner
    OBVIOUS
  <1> HIDE DEF chosen, winner, entry, others, off
  <1>5. CASE ~ Learned'
    BY <1>2, <1>5 DEF LocRibBacked
  <1>6. CASE chosen # {} /\ same /\ best' = others \cup {winner} /\ UNCHANGED loc_rib
    <2>1. Learned /\ loc_rib.peer \in up /\ rib_in[loc_rib.peer] = in[winner]
      BY Zenon, <1>4, <1>6 DEF BackedInv, LocRibBacked
    <2>2. winner \in Peers /\ loc_rib.peer \in Peers
      BY Zenon, <1>1, <1>6, <2>1 DEF BackedInv, RtInv, TypeOK
    <2>3. PICK r \in Offers[winner] : in[winner] = Imported(winner, r)
      BY <1>1, <1>6, <2>2 DEF FromOffers
    <2>4. PICK s \in Offers[loc_rib.peer] : rib_in[loc_rib.peer] = Imported(loc_rib.peer, s)
      BY Zenon, <1>1, <1>6, <2>1, <2>2 DEF FromOffers, BackedInv
    <2>5. winner = loc_rib.peer
      BY Zenon, <2>1, <2>2, <2>3, <2>4 DEF DistinctOffers
    <2> QED
      BY Zenon, <1>1, <1>2, <1>4, <1>6, <2>5 DEF LocRibBacked
  <1>7. CASE chosen # {} /\ best' = off \cup {winner} /\ loc_rib' = entry
    BY Zenon, <1>1, <1>2, <1>4, <1>7 DEF LocRibBacked
  <1> QED
    BY <1>3, <1>5, <1>6, <1>7 DEF Originated, Learned

LEMMA BackedInit == Init => BackedInv
  <1> SUFFICES ASSUME Init
               PROVE  BackedInv
    OBVIOUS
  <1> QED
    BY RtInvInit DEF Init, BackedInv, FromOffers, LocRibBacked, Learned

LEMMA BackedNext ==
    ASSUME DistinctOffers, "clear_rib" \notin Operations
    PROVE  BackedInv /\ [Next]_vars => BackedInv'
  <1> SUFFICES ASSUME BackedInv, [Next]_vars
               PROVE  FromOffers(rib_in') /\ LocRibBacked'
    BY RtInvNext DEF BackedInv
  <1>0. /\ rib_in \in Views /\ up \in SUBSET Peers /\ LocRibBacked /\ FromOffers(rib_in)
        /\ Learned => loc_rib.route # None
    BY NoneAssumption DEF BackedInv, RtInv, TypeOK, Views, Learned, Entries
  <1>1. ASSUME NEW p \in Peers, NEW offer \in Offers[p], process_update(p, offer)
        PROVE  FromOffers(rib_in') /\ LocRibBacked'
    <2> DEFINE route    == Imported(p, offer)
               eligible == bgp_peer_route_eligible(p, route)
               in       == [rib_in EXCEPT ![p] = IF eligible THEN route ELSE None]
    <2>1. /\ IF eligible \/ p \in best
             THEN decision_process(in, best \ {p}, up, router_id, rib_out, told)
             ELSE NoDecision(in, best \ {p}, rib_out, told)
          /\ UNCHANGED up
      BY Zenon, <1>1 DEF process_update
    <2>2. route \in Routes
      BY ImportedOK, RouterAssumption
    <2>3. /\ in \in Views /\ FromOffers(in)
          /\ \A q \in Peers \ {p} : in[q] = rib_in[q]
      <3> HIDE DEF eligible
      <3>1. in \in Views
        <4> HIDE DEF route
        <4> QED  BY <1>0, <2>2 DEF Views
      <3>2. in[p] # None => in[p] = Imported(p, offer)
        BY <1>0 DEF Views
      <3>3. \A q \in Peers \ {p} : in[q] = rib_in[q]
        BY <1>0 DEF Views
      <3> HIDE DEF in
      <3> QED
        BY Zenon, <1>0, <3>1, <3>2, <3>3 DEF FromOffers
    <2> HIDE DEF in, route, eligible
    <2>4. CASE eligible \/ p \in best
      BY Zenon, <1>0, <2>1, <2>3, <2>4, DecisionBacks
    <2>5. CASE ~ (eligible \/ p \in best)
      <3>1. NoDecision(in, best \ {p}, rib_out, told) /\ UNCHANGED up
        BY Zenon, <2>1, <2>5
      <3>2. rib_in' = in /\ best' = best \ {p} /\ UNCHANGED <<loc_rib, up>>
        BY Zenon, <3>1 DEF NoDecision
      <3>3. p \notin best
        BY <2>5
      <3> QED
        BY <1>0, <2>3, <3>2, <3>3 DEF LocRibBacked, Learned
    <2> QED
      BY <2>4, <2>5
  <1>2. ASSUME NEW p \in Peers, process_withdraw(p)
        PROVE  FromOffers(rib_in') /\ LocRibBacked'
    <2> DEFINE in == [rib_in EXCEPT ![p] = None]
    <2>1. decision_process(in, best \ {p}, up, router_id, rib_out, told) /\ UNCHANGED up
      BY <1>2 DEF process_withdraw
    <2>2. in \in Views /\ FromOffers(in)
      BY <1>0 DEF Views, FromOffers
    <2> HIDE DEF in
    <2> QED
      BY <1>0, <2>1, <2>2, DecisionBacks
  <1>3. ASSUME NEW p \in Peers, NEW answer \in BOOLEAN, session_established(p, answer)
        PROVE  FromOffers(rib_in') /\ LocRibBacked'
    <2>1. up' = up \cup {p} /\ UNCHANGED <<rib_in, best, loc_rib>>
      BY <1>3 DEF session_established
    <2> QED
      BY <1>0, <2>1 DEF LocRibBacked, Learned
  <1>4. ASSUME NEW p \in Peers, session_closed(p)
        PROVE  FromOffers(rib_in') /\ LocRibBacked'
    <2> DEFINE id   == [router_id EXCEPT ![p] = ANY]
               out  == [rib_out EXCEPT ![p] = None]
               view == [told EXCEPT ![p] = None]
    <2>1. /\ up' = up \ {p}
          /\ IF rib_in[p] # None /\ p \in best
             THEN decision_process(rib_in, best, up', id, out, view)
             ELSE NoDecision(rib_in, best, out, view)
      BY Zenon, <1>4 DEF session_closed
    <2> HIDE DEF id, out, view
    <2>2. CASE rib_in[p] # None /\ p \in best
      <3>1. decision_process(rib_in, best, up', id, out, view) /\ up' \in SUBSET Peers
        BY <1>0, <2>1, <2>2
      <3> QED
        BY <1>0, <3>1, DecisionBacks
    <2>3. CASE ~ (rib_in[p] # None /\ p \in best)
      <3>1. rib_in' = rib_in /\ best' = best /\ UNCHANGED loc_rib
        BY <2>1, <2>3 DEF NoDecision
      <3>2. Learned => loc_rib.peer # p
        BY <1>0, <2>3 DEF LocRibBacked
      <3> QED
        BY Zenon, <1>0, <2>1, <3>1, <3>2 DEF LocRibBacked, Learned
    <2> QED
      BY <2>2, <2>3
  <1>5. ASSUME NEW p \in Peers, peer_readv_prefix(p)
        PROVE  FromOffers(rib_in') /\ LocRibBacked'
    BY <1>0, <1>5 DEF peer_readv_prefix, LocRibBacked, Learned
  <1>6. ASSUME add_network
        PROVE  FromOffers(rib_in') /\ LocRibBacked'
    <2>1. rib_in' = rib_in /\ loc_rib'.peer = Local
      BY <1>6 DEF add_network
    <2> QED
      BY <1>0, <2>1 DEF LocRibBacked, Learned
  <1>7. ASSUME del_network
        PROVE  FromOffers(rib_in') /\ LocRibBacked'
    BY <1>0, <1>7 DEF del_network, LocRibBacked, Learned
  <1>8. ASSUME scan_rib
        PROVE  FromOffers(rib_in') /\ LocRibBacked'
    <2>1. decision_process(rib_in, best, up, router_id, rib_out, told) /\ UNCHANGED up
      BY <1>8 DEF scan_rib
    <2> QED
      BY <1>0, <2>1, DecisionBacks
  <1>9. ASSUME NEW h \in Hops, NEW c \in Costs \cup {None}, igp_change(h, c)
        PROVE  FromOffers(rib_in') /\ LocRibBacked'
    BY <1>0, <1>9 DEF igp_change, ribs, LocRibBacked, Learned
  <1>10. CASE UNCHANGED vars
    BY <1>0, <1>10 DEF vars, ribs, LocRibBacked, Learned
  <1>11. ASSUME NEW loc \in BOOLEAN, clear_rib(loc)
         PROVE  FALSE
    BY <1>11 DEF clear_rib
  <1> QED
    BY Zenon, <1>1, <1>2, <1>3, <1>4, <1>5, <1>6, <1>7, <1>8, <1>9, <1>10, <1>11
       DEF Next, PeerStep, RouterStep, IgpStep

(* The learned route of the Loc-RIB is in the Adj-RIB-In of an ESTABLISHED   *)
(* peer and flagged BEST there, through any interleaving of updates, session *)
(* losses, networks and rescans, so that the loss of that session is noticed *)
(* (_bgp_peer_disable_adjribin only runs the decision process for a route    *)
(* with the flag).                                                           *)
THEOREM BestRouteIsBacked ==
    ASSUME DistinctOffers, "clear_rib" \notin Operations
    PROVE  Spec => []LocRibBacked
  <1>1. BackedInv /\ [Next]_vars => BackedInv'
    BY BackedNext
  <1>2. BackedInv => LocRibBacked
    BY DEF BackedInv
  <1> QED
    BY <1>1, <1>2, BackedInit, PTL DEF Spec

-----------------------------------------------------------------------------
(* What the established peers were told.                                     *)

Told(S, entry, id, out, view) ==
    \A p \in S : /\ view[p] = Announcement(entry, p, id)
                 /\ out[p] # None <=> view[p] # None

(* The Adj-RIB-Outs know whether there is something to withdraw.             *)
Agree(S, out, view) == \A p \in S : out[p] # None <=> view[p] # None

(* Nothing is sent to the neighbours outside of S.                           *)
Untouched(S, out, view) ==
    \A p \in Peers \ S : rib_out'[p] = out[p] /\ told'[p] = view[p]

(* A session that is not established has an empty Adj-RIB-Out, and the       *)
(* neighbour has been told nothing on it.                                    *)
Silent == \A p \in Peers \ up : told[p] = None /\ rib_out[p] = None

ToldInv == BackedInv /\ PeersToldBest /\ Silent

(* An announcement depends on the router-ids of its destination and of the   *)
(* neighbour the route was learned from, and on no other.                    *)
LEMMA AnnouncementReads ==
    ASSUME NEW entry \in Entries \cup {None}, NEW p, NEW id, NEW new, id[p] = new[p],
           entry # None /\ entry.peer # Local => id[entry.peer] = new[entry.peer]
    PROVE  Announcement(entry, p, id) = Announcement(entry, p, new)
  <1>1. CASE entry = None
    BY Zenon, <1>1 DEF Announcement
  <1>2. CASE entry # None
    <2> DEFINE r   == entry.route
               src == entry.peer
    <2>1. src # Local => id[src] = new[src]
      BY Zenon, <1>2
    <2> HIDE DEF r, src
    <2>2. NotOriginator(src, p, id) <=> NotOriginator(src, p, new)
      BY Zenon, <2>1 DEF NotOriginator
    <2>3. ReflectionAllowed(r, src, p, id) <=> ReflectionAllowed(r, src, p, new)
      BY Zenon DEF ReflectionAllowed
    <2>4. Redistributed(r, src, p, id) <=> Redistributed(r, src, p, new)
      BY Zenon, <2>2, <2>3 DEF Redistributed
    <2>5. Reflected(src, p) => id[src] = new[src]
      BY Zenon, <2>1 DEF Reflected
    <2>6. Exported(r, src, p, id) = Exported(r, src, p, new)
      <3>1. CASE Reflected(src, p)
        BY Zenon, <2>5, <3>1 DEF Exported
      <3>2. CASE ~ Reflected(src, p)
        BY Zenon, <3>2 DEF Exported
      <3> QED
        BY <3>1, <3>2
    <2> QED
      BY Zenon, <1>2, <2>4, <2>6 DEF Announcement, advertise_to_peer, r, src
  <1> QED
    BY <1>1, <1>2

(* A dissemination tells the peers of S, and touches no other.               *)
LEMMA DisseminateTells ==
    ASSUME NEW entry \in Entries \cup {None}, NEW S, S \subseteq Peers, NEW id, NEW out, NEW view,
           disseminate(entry, S, id, out, view), Agree(S, out, view)
    PROVE  Told(S, entry, id, rib_out', told') /\ Untouched(S, out, view)
  <1>1. ASSUME NEW p \in S, Announcement(entry, p, id) # None
        PROVE  /\ told'[p] = Announcement(entry, p, id)
               /\ rib_out'[p] # None /\ told'[p] # None
    <2>1. entry # None /\ entry.route \in Routes
      BY Zenon, <1>1 DEF Announcement, Entries
    <2>2. rib_out'[p] = entry.route /\ told'[p] = Announcement(entry, p, id)
      BY <1>1 DEF disseminate
    <2> QED
      BY Zenon, <1>1, <2>1, <2>2, NoneAssumption
  <1>2. ASSUME NEW p \in S, Announcement(entry, p, id) = None
        PROVE  told'[p] = None /\ rib_out'[p] = None
    BY <1>2 DEF disseminate, Agree
  <1>3. Told(S, entry, id, rib_out', told')
    BY Zenon, <1>1, <1>2 DEF Told
  <1>4. Untouched(S, out, view)
    BY DEF disseminate, Untouched
  <1> QED
    BY <1>3, <1>4

(* A run of the decision process tells the peers of the route it chooses;    *)
(* where it keeps the route, they have to know of it already.                *)
LEMMA DecisionTells ==
    ASSUME NEW in \in Views, NEW flags, NEW S, S \subseteq Peers,
           NEW id, NEW out, NEW view, decision_process(in, flags, S, id, out, view),
           Agree(S, out, view), loc_rib' = loc_rib => Told(S, loc_rib, id, out, view)
    PROVE  Told(S, loc_rib', id, rib_out', told') /\ Untouched(S, out, view)
  <1> DEFINE chosen == Selected(in, S, id)
             winner == (CHOOSE c \in chosen : TRUE).peer
             entry  == [route |-> in[winner], peer |-> winner]
  <1>1. \/ rib_out' = out /\ told' = view /\ loc_rib' = loc_rib
        \/ loc_rib' = None /\ disseminate(None, S, id, out, view)
        \/ chosen # {} /\ loc_rib' = entry /\ disseminate(entry, S, id, out, view)
    BY Zenon DEF decision_process, no_best_route, unchanged_best_route, update_best_route
  <1>2. CASE rib_out' = out /\ told' = view /\ loc_rib' = loc_rib
    BY Zenon, <1>2 DEF Untouched
  <1>3. CASE loc_rib' = None /\ disseminate(None, S, id, out, view)
    BY Zenon, <1>3, DisseminateTells
  <1>4. CASE chosen # {} /\ loc_rib' = entry /\ disseminate(entry, S, id, out, view)
    <2>1. winner \in Feasible(in, S)
      BY Zenon, <1>4, WinnerFeasible
    <2> HIDE DEF winner
    <2>2. winner \in Peers /\ in[winner] \in Routes
      BY <2>1 DEF Feasible, Views
    <2>3. entry \in Entries \cup {None}
      BY <2>2 DEF Entries
    <2> HIDE DEF entry
    <2> QED
      BY Zenon, <1>4, <2>3, DisseminateTells
  <1> QED
    BY Zenon, <1>1, <1>2, <1>3, <1>4

LEMMA ToldInit == Init => ToldInv
  <1> SUFFICES ASSUME Init
               PROVE  ToldInv
    OBVIOUS
  <1>1. up = {} /\ \A p \in Peers : told[p] = None /\ rib_out[p] = None
    BY DEF Init
  <1> QED
    BY <1>1, BackedInit DEF ToldInv, PeersToldBest, Silent

LEMMA ToldNext ==
    ASSUME DistinctOffers, "clear_rib" \notin Operations
    PROVE  ToldInv /\ [Next]_vars => ToldInv'
  <1> SUFFICES ASSUME ToldInv, [Next]_vars
               PROVE  PeersToldBest' /\ Silent'
    BY BackedNext DEF ToldInv
  <1>0. /\ up \subseteq Peers /\ Silent /\ rib_in \in Views
        /\ Told(up, loc_rib, router_id, rib_out, told)
        /\ loc_rib \in Entries \cup {None}
        /\ LocRibBacked /\ BackedInv
        /\ rib_out \in Views /\ told \in Views /\ router_id \in [Peers -> Nat]
    BY DEF ToldInv, BackedInv, RtInv, TypeOK, Views, PeersToldBest, Told
  <1>00. LocRibBacked'
    BY BackedNext DEF BackedInv, ToldInv
  (* It is enough to find, for the peers that are up next, what they were told. *)
  <1>a. ASSUME Told(up', loc_rib', router_id', rib_out', told'),
               \A p \in Peers \ up' : rib_out'[p] = None /\ told'[p] = None
        PROVE  PeersToldBest' /\ Silent'
    BY Zenon, <1>a DEF PeersToldBest, Silent, Told
  (* The decision process, for the peers and tables as they are.            *)
  <1>b. ASSUME NEW in \in Views, NEW flags,
               decision_process(in, flags, up, router_id, rib_out, told),
               UNCHANGED <<up, router_id>>
        PROVE  PeersToldBest' /\ Silent'
    <2>1. Agree(up, rib_out, told)
      BY Zenon, <1>0 DEF Told, Agree
    <2>2. Told(up, loc_rib', router_id, rib_out', told') /\ Untouched(up, rib_out, told)
      BY Zenon, <1>0, <1>b, <2>1, DecisionTells
    <2>3. \A p \in Peers \ up' : rib_out'[p] = None /\ told'[p] = None
      BY Zenon, <1>0, <1>b, <2>2 DEF Silent, Untouched
    <2>4. Told(up', loc_rib', router_id', rib_out', told')
      BY Zenon, <1>b, <2>2
    <2> QED
      BY Zenon, <1>a, <2>3, <2>4
  <1>1. ASSUME NEW p \in Peers, NEW offer \in Offers[p], process_update(p, offer)
        PROVE  PeersToldBest' /\ Silent'
    <2> DEFINE route    == Imported(p, offer)
               eligible == bgp_peer_route_eligible(p, route)
               in       == [rib_in EXCEPT ![p] = IF eligible THEN route ELSE None]
    <2>1. /\ \/ decision_process(in, best \ {p}, up, router_id, rib_out, told)
             \/ NoDecision(in, best \ {p}, rib_out, told)
          /\ UNCHANGED <<up, router_id>>
      BY Zenon, <1>1 DEF process_update
    <2>2. route \in Routes
      BY ImportedOK, RouterAssumption
    <2> HIDE DEF route, eligible
    <2>3. in \in Views
      BY <1>0, <2>2 DEF Views
    <2> HIDE DEF in
    <2>4. CASE decision_process(in, best \ {p}, up, router_id, rib_out, told)
      BY Zenon, <1>b, <2>1, <2>3, <2>4
    <2>5. CASE NoDecision(in, best \ {p}, rib_out, told)
      <3>1. rib_out' = rib_out /\ told' = told /\ loc_rib' = loc_rib
        BY Zenon, <2>5 DEF NoDecision
      <3> QED
        BY Zenon, <1>0, <1>a, <2>1, <3>1 DEF Silent
    <2> QED
      BY Zenon, <2>1, <2>4, <2>5
  <1>2. ASSUME NEW p \in Peers, process_withdraw(p)
        PROVE  PeersToldBest' /\ Silent'
    <2> DEFINE in == [rib_in EXCEPT ![p] = None]
    <2>1. /\ decision_process(in, best \ {p}, up, router_id, rib_out, told)
          /\ UNCHANGED <<up, router_id>>
      BY Zenon, <1>2 DEF process_withdraw
    <2>2. in \in Views
      BY <1>0 DEF Views
    <2> HIDE DEF in
    <2> QED
      BY Zenon, <1>b, <2>1, <2>2
  <1>3. ASSUME NEW p \in Peers, NEW answer \in BOOLEAN, session_established(p, answer)
        PROVE  PeersToldBest' /\ Silent'
    <2>1. /\ p \notin up /\ up' = up \cup {p} /\ loc_rib' = loc_rib
          /\ \A q \in Peers \ {p} : router_id'[q] = router_id[q]
          /\ \/ loc_rib = None /\ UNCHANGED <<rib_out, told>>
             \/ disseminate(loc_rib, {p}, router_id', rib_out, told)
      BY <1>0, <1>3 DEF session_established
    <2>2. rib_out[p] = None /\ told[p] = None
      BY Zenon, <2>1, <1>0 DEF Silent
    <2>3. Told({p}, loc_rib, router_id', rib_out', told') /\ Untouched({p}, rib_out, told)
      <3>1. CASE loc_rib = None /\ UNCHANGED <<rib_out, told>>
        BY Zenon, <2>2, <3>1 DEF Told, Announcement, Untouched
      <3>2. CASE disseminate(loc_rib, {p}, router_id', rib_out, told)
        <4>1. {p} \subseteq Peers /\ Agree({p}, rib_out, told)
          BY Zenon, <2>2 DEF Agree
        <4> QED
          BY Zenon, <1>0, <3>2, <4>1, DisseminateTells
      <3> QED
        BY Zenon, <2>1, <3>1, <3>2
    <2>4. ASSUME NEW q \in up
          PROVE  /\ told'[q] = Announcement(loc_rib, q, router_id')
                 /\ rib_out'[q] # None <=> told'[q] # None
      <3>1. q \in Peers \ {p}
        BY Zenon, <1>0, <2>1
      <3>2. router_id[q] = router_id'[q]
        BY Zenon, <2>1, <3>1
      <3>3. loc_rib # None /\ loc_rib.peer # Local =>
              router_id[loc_rib.peer] = router_id'[loc_rib.peer]
        <4>1. loc_rib # None /\ loc_rib.peer # Local => loc_rib.peer \in Peers \ {p}
          BY Zenon, <1>0, <2>1 DEF LocRibBacked, Learned
        <4> QED
          BY Zenon, <2>1, <4>1
      <3>4. Announcement(loc_rib, q, router_id) = Announcement(loc_rib, q, router_id')
        BY Zenon, <1>0, <3>2, <3>3, AnnouncementReads
      <3> QED
        BY Zenon, <1>0, <2>3, <3>1, <3>4 DEF Told, Untouched
    <2>5. Told(up', loc_rib', router_id', rib_out', told')
      BY Zenon, <2>1, <2>3, <2>4 DEF Told
    <2>6. \A q \in Peers \ up' : rib_out'[q] = None /\ told'[q] = None
      BY Zenon, <1>0, <2>1, <2>3 DEF Silent, Untouched
    <2> QED
      BY Zenon, <1>a, <2>5, <2>6
  <1>4. ASSUME NEW p \in Peers, session_closed(p)
        PROVE  PeersToldBest' /\ Silent'
    <2> DEFINE id   == [router_id EXCEPT ![p] = ANY]
               out  == [rib_out EXCEPT ![p] = None]
               view == [told EXCEPT ![p] = None]
    <2>1. /\ up' = up \ {p} /\ router_id' = id
          /\ \/ decision_process(rib_in, best, up', id, out, view)
             \/ NoDecision(rib_in, best, out, view)
      BY Zenon, <1>4 DEF session_closed
    <2>2. /\ \A q \in Peers \ {p} : /\ id[q] = router_id[q]
                                    /\ out[q] = rib_out[q] /\ view[q] = told[q]
          /\ out[p] = None /\ view[p] = None
      BY <1>0 DEF Views
    <2> HIDE DEF id, out, view
    <2>3. \A q \in up' : q \in Peers \ {p} /\ q \in up
      BY Zenon, <1>0, <2>1
    <2>4. Agree(up', out, view)
      BY Zenon, <1>0, <2>2, <2>3 DEF Told, Agree
    <2>5. ASSUME loc_rib' = loc_rib
          PROVE  Told(up', loc_rib, id, out, view)
      <3>1. loc_rib # None /\ loc_rib.peer # Local => loc_rib.peer \in up'
        BY Zenon, <1>00, <2>5 DEF LocRibBacked, Learned
      <3>2. loc_rib # None /\ loc_rib.peer # Local =>
              router_id[loc_rib.peer] = id[loc_rib.peer]
        BY Zenon, <2>2, <2>3, <3>1
      <3>3. ASSUME NEW q \in up'
            PROVE  Announcement(loc_rib, q, router_id) = Announcement(loc_rib, q, id)
        <4>1. router_id[q] = id[q]
          BY Zenon, <2>2, <2>3
        <4> QED
          BY Zenon, <1>0, <3>2, <4>1, AnnouncementReads
      <3> QED
        BY Zenon, <1>0, <2>2, <2>3, <3>3 DEF Told
    <2>6. Told(up', loc_rib', id, rib_out', told') /\ Untouched(up', out, view)
      <3>1. CASE decision_process(rib_in, best, up', id, out, view)
        <4>1. up' \subseteq Peers
          BY Zenon, <2>3
        <4> QED
          BY Zenon, <1>0, <2>4, <2>5, <3>1, <4>1, DecisionTells
      <3>2. CASE NoDecision(rib_in, best, out, view)
        BY Zenon, <2>5, <3>2 DEF NoDecision, Untouched
      <3> QED
        BY Zenon, <2>1, <3>1, <3>2
    <2>7. \A q \in Peers \ up' : out[q] = None /\ view[q] = None
      BY Zenon, <1>0, <2>1, <2>2 DEF Silent
    <2> QED
      BY Zenon, <1>a, <2>1, <2>6, <2>7 DEF Untouched
  <1>5. ASSUME NEW p \in Peers, peer_readv_prefix(p)
        PROVE  PeersToldBest' /\ Silent'
    <2>1. /\ p \in up /\ disseminate(loc_rib, {p}, router_id, rib_out, told)
          /\ UNCHANGED <<up, router_id, loc_rib>>
      BY Zenon, <1>5 DEF peer_readv_prefix
    <2>2. {p} \subseteq Peers /\ Agree({p}, rib_out, told)
      BY Zenon, <1>0, <2>1 DEF Told, Agree
    <2>3. Told({p}, loc_rib, router_id, rib_out', told') /\ Untouched({p}, rib_out, told)
      BY Zenon, <1>0, <2>1, <2>2, DisseminateTells
    <2>4. Told(up, loc_rib, router_id, rib_out', told')
      BY Zenon, <1>0, <2>3 DEF Told, Untouched
    <2>5. \A q \in Peers \ up : rib_out'[q] = None /\ told'[q] = None
      BY Zenon, <1>0, <2>1, <2>3 DEF Silent, Untouched
    <2> QED
      BY Zenon, <1>a, <2>1, <2>4, <2>5
  (* The two commands that change the local networks tell every peer.       *)
  <1>c. ASSUME loc_rib' \in Entries \cup {None},
               disseminate(loc_rib', up, router_id, rib_out, told),
               UNCHANGED <<up, router_id>>
        PROVE  PeersToldBest' /\ Silent'
    <2>1. Agree(up, rib_out, told)
      BY Zenon, <1>0 DEF Told, Agree
    <2>2. Told(up, loc_rib', router_id, rib_out', told') /\ Untouched(up, rib_out, told)
      BY Zenon, <1>0, <1>c, <2>1, DisseminateTells
    <2>3. \A p \in Peers \ up' : rib_out'[p] = None /\ told'[p] = None
      BY Zenon, <1>0, <1>c, <2>2 DEF Silent, Untouched
    <2>4. Told(up', loc_rib', router_id', rib_out', told')
      BY Zenon, <1>c, <2>2
    <2> QED
      BY Zenon, <1>a, <2>3, <2>4
  <1>6. ASSUME add_network
        PROVE  PeersToldBest' /\ Silent'
    <2>1. [route |-> LocalRoute, peer |-> Local] \in Entries
      BY LocalRouteOK DEF Entries
    <2>2. loc_rib' \in Entries \cup {None}
      BY Zenon, <1>6, <2>1 DEF add_network
    <2> QED
      BY Zenon, <1>6, <1>c, <2>2 DEF add_network
  <1>7. ASSUME del_network
        PROVE  PeersToldBest' /\ Silent'
    <2>1. loc_rib' = None /\ disseminate(None, up, router_id, rib_out, told)
          /\ UNCHANGED <<up, router_id>>
      BY Zenon, <1>7 DEF del_network
    <2> QED
      BY Zenon, <1>c, <2>1
  <1>8. ASSUME scan_rib
        PROVE  PeersToldBest' /\ Silent'
    BY Zenon, <1>0, <1>b, <1>8 DEF scan_rib
  <1>9. ASSUME NEW h \in Hops, NEW c \in Costs \cup {None}, igp_change(h, c)
        PROVE  PeersToldBest' /\ Silent'
    <2>1. UNCHANGED <<up, router_id, loc_rib, rib_out, told>>
      BY Zenon, <1>9 DEF igp_change, ribs
    <2> QED
      BY Zenon, <1>0, <1>a, <2>1 DEF Silent
  <1>10. CASE UNCHANGED vars
    <2>1. UNCHANGED <<up, router_id, loc_rib, rib_out, told>>
      BY Zenon, <1>10 DEF vars, ribs
    <2> QED
      BY Zenon, <1>0, <1>a, <2>1 DEF Silent
  <1>11. ASSUME NEW loc \in BOOLEAN, clear_rib(loc)
         PROVE  FALSE
    BY Zenon, <1>11 DEF clear_rib
  <1> QED
    BY Zenon, <1>1, <1>2, <1>3, <1>4, <1>5, <1>6, <1>7, <1>8, <1>9, <1>10, <1>11
       DEF Next, PeerStep, RouterStep, IgpStep

(* Every ESTABLISHED peer has been told of the current best route, or of its *)
(* loss, exactly when the redistribution rules of                            *)
(* _bgp_router_advertise_to_peer allow it: with sessions that fail and come  *)
(* back, local networks added and removed, and rescans after IGP changes.    *)
(* What a neighbour was told is never computed from a router-id that has     *)
(* changed since.                                                            *)
THEOREM PeersAreTold ==
    ASSUME DistinctOffers, "clear_rib" \notin Operations
    PROVE  Spec => []PeersToldBest
  <1>1. ToldInv /\ [Next]_vars => ToldInv'
    BY ToldNext
  <1>2. ToldInv => PeersToldBest
    BY DEF ToldInv
  <1> QED
    BY <1>1, <1>2, ToldInit, PTL DEF Spec

-----------------------------------------------------------------------------
(* The best route is the one the decision process would choose now.  Three   *)
(* commands are left out, as the program does not run the decision process   *)
(* where they change its outcome: a session that is established again finds  *)
(* the routes of the one before (run stale_adjrib), a local network that is  *)
(* removed uncovers the learned routes, and bgp clear-rib.  The MEDs of any  *)
(* two routes are compared: with the deterministic rule the loss of a route  *)
(* that is not the best one may change the best one.                         *)

(* The widths of the attributes: LOCAL-PREF is bounded, the minima of the    *)
(* rules for AS-paths and cluster lists have 8 bits, and an originator is a  *)
(* router-id.                                                                *)
OffersFit ==
    /\ \E max \in Nat : \A p \in Peers : \A r \in Offers[p] : r.local_pref <= max
    /\ \A p \in Peers : \A r \in Offers[p] :
           /\ Len(r.path) <= MaxUint8 /\ Len(r.clusters) <= MaxUint8
           /\ r.originator \in Nat \cup {ABSENT}

(* What the decision process chooses, as an entry of the Loc-RIB.            *)
Chosen(in, S, id) ==
    LET chosen == Selected(in, S, id)
        winner == (CHOOSE c \in chosen : TRUE).peer
    IN  IF chosen = {} THEN None ELSE [route |-> in[winner], peer |-> winner]

LocalEntry == [route |-> LocalRoute, peer |-> Local]

(* A neighbour that was never established has announced nothing.             *)
Unheard == up \subseteq been /\ \A p \in Peers \ been : rib_in[p] = None

LocalAgrees == /\ local_nets <=> Originated
               /\ Originated => loc_rib = LocalEntry

BestInv == BackedInv /\ Unheard /\ LocalAgrees /\ LocRibIsBest

LEMMA BestMeans ==
    LocRibIsBest <=>
        (~ unscanned =>
            loc_rib = IF local_nets THEN LocalEntry ELSE Chosen(rib_in, up, router_id))
  BY Zenon DEF LocRibIsBest, Chosen, LocalEntry

LEMMA SelectedNext ==
    ASSUME igp' = igp
    PROVE  Selected(rib_in, up, router_id)' = Selected(rib_in', up', router_id')
  BY Zenon DEF Selected, Feasible, Candidate

LEMMA BestMeansNext ==
    ASSUME igp' = igp
    PROVE  LocRibIsBest' <=>
             (~ unscanned' =>
               loc_rib' = IF local_nets' THEN LocalEntry ELSE Chosen(rib_in', up', router_id'))
  BY Zenon, SelectedNext DEF LocRibIsBest, Chosen, LocalEntry

(* The candidates of a decision are candidates of the rules.                 *)
Contest(in, S, id) == {Candidate(p, in[p], id) : p \in Feasible(in, S)}

LEMMA CandidatesFit ==
    ASSUME OffersFit, TypeOK, NEW in \in Views, FromOffers(in), NEW S \in SUBSET Peers,
           NEW id \in [Peers -> Nat]
    PROVE  /\ \E max \in Nat : Contest(in, S, id) \in SUBSET Candidates(Peers, max)
           /\ \A r, q \in Contest(in, S, id) : r.addr = q.addr => r = q
  <1>1. PICK max \in Nat : \A p \in Peers : \A r \in Offers[p] : r.local_pref <= max
    BY Zenon DEF OffersFit
  <1> DEFINE top == max + DefaultPref
  <1>2. top \in Nat /\ max <= top /\ DefaultPref <= top /\ DefaultPref \in Nat
    BY DEF DefaultPref
  <1>3. ASSUME NEW p \in Feasible(in, S)
        PROVE  /\ p \in Peers /\ in[p] \in Routes /\ in[p].local_pref \in 0 .. top
               /\ Len(in[p].path) \in 0 .. MaxUint8 /\ Len(in[p].clusters) \in 0 .. MaxUint8
               /\ in[p].originator \in Nat \cup {ABSENT}
               /\ igp[in[p].next_hop] \in Nat
    <2>1. p \in Peers /\ in[p] # None /\ in[p] \in Routes /\ igp[in[p].next_hop] # None
      BY DEF Feasible, Views
    <2>2. PICK r \in Offers[p] : in[p] = Imported(p, r)
      BY Zenon, <2>1 DEF FromOffers
    <2>3. /\ r \in Routes /\ Len(r.path) <= MaxUint8 /\ Len(r.clusters) <= MaxUint8
          /\ r.originator \in Nat \cup {ABSENT} /\ r.local_pref <= max
      BY Zenon, <1>1, <2>1, RouterAssumption DEF OffersFit
    <2>4. /\ in[p].path = r.path /\ in[p].originator = r.originator
          /\ in[p].clusters = r.clusters
          /\ in[p].local_pref = r.local_pref \/ in[p].local_pref = DefaultPref
      BY <2>2, <2>3 DEF Imported, Routes
    <2>5. /\ in[p].local_pref \in Nat /\ Len(in[p].path) \in Nat /\ in[p].next_hop \in Hops
          /\ r.local_pref \in Nat /\ Len(in[p].clusters) \in Nat
      <3>1. /\ in[p].path \in Seq(Nat) /\ in[p].clusters \in Seq(Nat)
            /\ in[p].local_pref \in Nat /\ in[p].next_hop \in Hops
        BY <2>1 DEF Routes
      <3>2. r.local_pref \in Nat
        BY <2>3 DEF Routes
      <3>3. \A q \in Seq(Nat) : Len(q) \in Nat
        OBVIOUS
      <3> QED
        BY Zenon, <3>1, <3>2, <3>3
    <2>6. in[p].local_pref \in 0 .. top
      <3> HIDE DEF top
      <3> QED
        BY <1>2, <2>3, <2>4, <2>5
    <2>7. Len(in[p].path) \in 0 .. MaxUint8 /\ Len(in[p].clusters) \in 0 .. MaxUint8
      BY <2>3, <2>4, <2>5, MaxUint8Assumption
    <2>8. igp[in[p].next_hop] \in Nat
      BY Zenon, <2>1, <2>5, RouterAssumption DEF TypeOK
    <2> QED
      BY Zenon, <2>1, <2>3, <2>4, <2>6, <2>7, <2>8
  <1>4. ASSUME NEW p \in Feasible(in, S)
        PROVE  Candidate(p, in[p], id) \in Candidates(Peers, top)
    <2> HIDE DEF top
    <2>1. /\ in[p].origin \in 0 .. 2 /\ in[p].med \in Nat /\ in[p].path \in Seq(Nat)
      BY <1>3 DEF Routes
    <2>2. (IF in[p].path = <<>> THEN -1 ELSE Head(in[p].path)) \in Int
      BY <2>1
    <2>3. Len(in[p].clusters) \in 0 .. MaxUint8
      BY <1>3
    <2>4. (IF in[p].originator # ABSENT THEN in[p].originator ELSE id[p]) \in Nat
      BY <1>3
    <2>5. Addr[p] \in Nat
      BY Zenon, <1>3, RouterAssumption
    <2>6. (~ Internal(p)) \in BOOLEAN
      BY Zenon DEF Internal
    <2> QED
      BY Zenon, <1>3, <2>1, <2>2, <2>3, <2>4, <2>5, <2>6 DEF Candidate, Candidates
  <1>5. Contest(in, S, id) \in SUBSET Candidates(Peers, top)
    BY Zenon, <1>4 DEF Contest
  <1>6. ASSUME NEW r \in Contest(in, S, id), NEW q \in Contest(in, S, id), r.addr = q.addr
        PROVE  r = q
    <2>1. PICK x \in Feasible(in, S) : r = Candidate(x, in[x], id)
      BY Zenon DEF Contest
    <2>2. PICK y \in Feasible(in, S) : q = Candidate(y, in[y], id)
      BY Zenon DEF Contest
    <2>3. r.addr = Addr[x] /\ q.addr = Addr[y]
      BY Zenon, <2>1, <2>2 DEF Candidate
    <2>4. x = y
      BY Zenon, <1>3, <1>6, <2>3, RouterAssumption
    <2> QED
      BY Zenon, <2>1, <2>2, <2>4
  <1> HIDE DEF top
  <1> QED
    BY Zenon, <1>2, <1>5, <1>6

(* The winner of a contest.                                                  *)
Wins(w, in, S, id) ==
    /\ w \in Feasible(in, S)
    /\ Selected(in, S, id) = {Candidate(w, in[w], id)}

LEMMA ContestWon ==
    ASSUME OffersFit, TypeOK, NEW in \in Views, FromOffers(in), NEW S \in SUBSET Peers,
           NEW id \in [Peers -> Nat], Feasible(in, S) # {}
    PROVE  \E w : Wins(w, in, S, id)
  <1>1. Contest(in, S, id) # {}
    BY Zenon DEF Contest
  <1>2. PICK max \in Nat : Contest(in, S, id) \in SUBSET Candidates(Peers, max)
    BY Zenon, CandidatesFit
  <1>3. \A r, q \in Contest(in, S, id) : r.addr = q.addr => r = q
    BY Zenon, CandidatesFit
  <1>4. PICK c \in Contest(in, S, id) : decision_process_run(Contest(in, S, id)) = {c}
    BY Zenon, <1>1, <1>2, <1>3, RunSelectsOne
  <1>5. PICK w \in Feasible(in, S) : c = Candidate(w, in[w], id)
    BY Zenon DEF Contest
  <1> QED
    BY Zenon, <1>4, <1>5 DEF Wins, Selected, Contest

LEMMA WinnerIsChosen ==
    ASSUME NEW w, NEW in, NEW S, NEW id, Wins(w, in, S, id)
    PROVE  Chosen(in, S, id) = [route |-> in[w], peer |-> w]
  <1> DEFINE chosen == Selected(in, S, id)
             c0 == CHOOSE c \in chosen : TRUE
  <1>1. c0 = Candidate(w, in[w], id) /\ chosen # {}
    BY DEF Wins
  <1>2. c0.peer = w
    <2>1. Candidate(w, in[w], id).peer = w
      BY DEF Candidate
    <2> QED
      BY Zenon, <1>1, <2>1
  <1> QED
    BY Zenon, <1>1, <1>2 DEF Chosen

LEMMA NobodyChosen ==
    ASSUME NEW in, NEW S, NEW id, Feasible(in, S) = {}
    PROVE  Chosen(in, S, id) = None
  <1>1. {Candidate(p, in[p], id) : p \in Feasible(in, S)} = {}
    OBVIOUS
  <1>2. Selected(in, S, id) = {}
    BY <1>1, RunSubset DEF Selected
  <1> QED
    BY Zenon, <1>2 DEF Chosen

(* What the decision process is given.                                       *)
Tables(in, S, id) ==
    in \in Views /\ FromOffers(in) /\ S \in SUBSET Peers /\ id \in [Peers -> Nat]

(* The feasible routes of less and T are some of those of in and S, and the  *)
(* chosen one is among them.                                                 *)
Remain(in, S, id, less, T, jd) ==
    \A p \in Feasible(less, T) :
        p \in Feasible(in, S) /\ less[p] = in[p] /\ jd[p] = id[p]

WinnerRemains(in, S, id, less, T) ==
    \A w \in Feasible(in, S) :
        Chosen(in, S, id) = [route |-> in[w], peer |-> w] => w \in Feasible(less, T)

(* Without a route that is not the best one, the choice is the same.         *)
LEMMA LoserLeaves ==
    ASSUME MedType = "always-compare", OffersFit, TypeOK,
           NEW in, NEW S, NEW id, Tables(in, S, id),
           NEW less, NEW T, NEW jd, Tables(less, T, jd),
           Remain(in, S, id, less, T, jd), WinnerRemains(in, S, id, less, T)
    PROVE  Chosen(less, T, jd) = Chosen(in, S, id)
  <1>0. /\ in \in Views /\ FromOffers(in) /\ S \in SUBSET Peers /\ id \in [Peers -> Nat]
        /\ less \in Views /\ FromOffers(less) /\ T \in SUBSET Peers /\ jd \in [Peers -> Nat]
    BY Zenon DEF Tables
  <1>1. CASE Feasible(in, S) = {}
    <2>1. Feasible(less, T) = {}
      BY Zenon, <1>1 DEF Remain
    <2> QED
      BY Zenon, <1>1, <2>1, NobodyChosen
  <1>2. CASE Feasible(in, S) # {}
    <2>1. PICK w : Wins(w, in, S, id)
      BY Zenon, <1>0, <1>2, ContestWon
    <2>2. w \in Feasible(less, T)
      BY Zenon, <2>1, WinnerIsChosen DEF Wins, WinnerRemains
    <2>3. \A p \in Feasible(less, T) : Candidate(p, less[p], jd) = Candidate(p, in[p], id)
      BY Zenon DEF Candidate, Remain
    <2> DEFINE C == Contest(in, S, id)
               D == Contest(less, T, jd)
               c == Candidate(w, in[w], id)
    <2>4. D \subseteq C /\ c \in D
      BY Zenon, <2>2, <2>3 DEF Contest, Remain
    <2>5. decision_process_run(C) = Preferred(C)
      <3>1. PICK max \in Nat : C \in SUBSET Candidates(Peers, max)
        BY Zenon, <1>0, CandidatesFit
      <3> QED
        BY Zenon, <3>1, RunAlwaysCompare
    <2>6. decision_process_run(D) = Preferred(D)
      <3>1. PICK max \in Nat : D \in SUBSET Candidates(Peers, max)
        BY Zenon, <1>0, CandidatesFit
      <3> QED
        BY Zenon, <3>1, RunAlwaysCompare
    <2>7. c \in Preferred(C)
      BY Zenon, <2>1, <2>5 DEF Wins, Selected, Contest
    <2> HIDE DEF C, D, c
    <2>8. c \in Preferred(D)
      BY Zenon, <2>4, <2>7 DEF Preferred
    <2>9. PICK v : Wins(v, less, T, jd)
      BY Zenon, <1>0, <2>2, ContestWon
    <2>10. c \in Selected(less, T, jd)
      BY Zenon, <2>6, <2>8 DEF Selected, Contest, D
    <2>11. c = Candidate(v, less[v], jd)
      BY <2>9, <2>10 DEF Wins
    <2>12. c.peer = w /\ Candidate(v, less[v], jd).peer = v
      BY Zenon DEF c, Candidate
    <2>13. v = w /\ less[w] = in[w]
      <3>1. v = w
        BY Zenon, <2>11, <2>12
      <3>2. less[w] = in[w]
        BY Zenon, <2>2 DEF Remain
      <3> QED
        BY Zenon, <3>1, <3>2
    <2>14. Chosen(in, S, id) = [route |-> in[w], peer |-> w]
      BY Zenon, <2>1, WinnerIsChosen
    <2>15. Chosen(less, T, jd) = [route |-> less[v], peer |-> v]
      BY Zenon, <2>9, WinnerIsChosen
    <2> QED
      BY Zenon, <2>13, <2>14, <2>15
  <1> QED
    BY <1>1, <1>2

-----------------------------------------------------------------------------

(* A run of the decision process leaves what it chooses in the Loc-RIB.      *)
LEMMA DecisionChooses ==
    ASSUME DistinctOffers, BestInv,
           NEW in \in Views, FromOffers(in), NEW flags, NEW S \in SUBSET Peers,
           NEW id, NEW out, NEW view, decision_process(in, flags, S, id, out, view), up' = S
    PROVE  loc_rib' = IF local_nets THEN LocalEntry ELSE Chosen(in, S, id)
  <1> DEFINE chosen == Selected(in, S, id)
             winner == (CHOOSE c \in chosen : TRUE).peer
             entry  == [route |-> in[winner], peer |-> winner]
  <1>1. \/ Originated /\ UNCHANGED loc_rib
        \/ ~ Originated /\ chosen = {} /\ loc_rib' = None
        \/ chosen # {} /\ Learned /\ loc_rib.route = entry.route /\ UNCHANGED loc_rib
        \/ ~ Originated /\ chosen # {} /\ loc_rib' = entry
    BY Zenon DEF decision_process, no_best_route, unchanged_best_route, update_best_route
  <1>2. Chosen(in, S, id) = IF chosen = {} THEN None ELSE entry
    BY Zenon DEF Chosen
  <1>3. local_nets <=> Originated
    BY Zenon DEF BestInv, LocalAgrees
  <1>4. CASE Originated /\ UNCHANGED loc_rib
    BY Zenon, <1>3, <1>4 DEF BestInv, LocalAgrees
  <1>5. CASE ~ Originated /\ chosen = {} /\ loc_rib' = None
    BY Zenon, <1>2, <1>3, <1>5
  <1>6. CASE chosen # {} /\ Learned /\ loc_rib.route = entry.route /\ UNCHANGED loc_rib
    <2>1. winner \in Feasible(in, S)
      BY Zenon, <1>6, WinnerFeasible
    <2>2. entry.route = in[winner]
      BY Zenon
    <2>3. LocRibBacked' /\ rib_in' = in
      BY Zenon, DecisionBacks DEF BestInv, decision_process
    <2> DEFINE p == loc_rib.peer
    <2>4. p \in S /\ in[p] = loc_rib.route
      BY Zenon, <1>6, <2>3 DEF LocRibBacked, Learned
    <2> HIDE DEF winner
    <2>5. winner \in Peers /\ in[winner] # None
      BY Zenon, <2>1 DEF Feasible
    <2>6. PICK r \in Offers[winner] : in[winner] = Imported(winner, r)
      BY Zenon, <2>5 DEF FromOffers
    <2>7. PICK s \in Offers[p] : in[p] = Imported(p, s)
      BY Zenon, <1>6, <2>2, <2>4, <2>5 DEF FromOffers
    <2>8. winner = p
      BY Zenon, <1>6, <2>2, <2>4, <2>5, <2>6, <2>7 DEF DistinctOffers
    <2>9. loc_rib \in Entries
      BY Zenon, <1>6 DEF BestInv, BackedInv, RtInv, TypeOK, Learned
    <2>10. loc_rib = entry
      BY <1>6, <2>2, <2>8, <2>9 DEF Entries
    <2>11. ~ local_nets
      BY Zenon, <1>3, <1>6 DEF Originated, Learned
    <2> QED
      BY Zenon, <1>2, <1>6, <2>10, <2>11
  <1>7. CASE ~ Originated /\ chosen # {} /\ loc_rib' = entry
    BY Zenon, <1>2, <1>3, <1>7
  <1> QED
    BY Zenon, <1>1, <1>4, <1>5, <1>6, <1>7

(* The choice is a neighbour's route, never a local one.                     *)
LEMMA ChosenIsLearned ==
    ASSUME NEW in, NEW S \in SUBSET Peers, NEW id, Chosen(in, S, id) # None
    PROVE  Chosen(in, S, id).peer # Local
  <1> DEFINE winner == (CHOOSE c \in Selected(in, S, id) : TRUE).peer
  <1>1. Selected(in, S, id) # {} /\ Chosen(in, S, id) = [route |-> in[winner], peer |-> winner]
    BY Zenon DEF Chosen
  <1>2. winner \in Peers
    BY Zenon, <1>1, WinnerFeasible DEF Feasible
  <1> HIDE DEF winner
  <1> QED
    BY <1>1, <1>2, PeersAssumption

LEMMA BestInit == Init => BestInv
  <1> SUFFICES ASSUME Init
               PROVE  BestInv
    OBVIOUS
  <1>1. /\ up = {} /\ loc_rib = None /\ local_nets = FALSE
        /\ \A p \in Peers : rib_in[p] = None
    BY DEF Init
  <1>2. Feasible(rib_in, up) = {}
    BY <1>1 DEF Feasible
  <1>3. LocRibIsBest
    BY Zenon, <1>1, <1>2, NobodyChosen, BestMeans
  <1> QED
    BY Zenon, <1>1, <1>3, BackedInit DEF BestInv, Unheard, LocalAgrees, Originated

LEMMA BestNext ==
    ASSUME DistinctOffers, OffersFit, MedType = "always-compare",
           "clear_rib" \notin Operations, "reopen" \notin Operations,
           "del_network" \notin Operations
    PROVE  BestInv /\ [Next]_vars => BestInv'
  <1> SUFFICES ASSUME BestInv, [Next]_vars
               PROVE  Unheard' /\ LocalAgrees' /\ LocRibIsBest'
    BY BackedNext DEF BestInv
  <1>0. /\ up \subseteq Peers /\ up \in SUBSET Peers /\ rib_in \in Views /\ FromOffers(rib_in)
        /\ TypeOK /\ Unheard /\ LocalAgrees /\ LocRibIsBest /\ BackedInv
        /\ router_id \in [Peers -> Nat]
    BY DEF BestInv, BackedInv, RtInv, TypeOK, Views
  <1>00. BackedInv' /\ LocRibBacked
    BY Zenon, BackedNext DEF BestInv, BackedInv
  <1>a. LocalEntry # None /\ LocalEntry.peer = Local
    BY LocalRouteOK, EntriesAssumption DEF LocalEntry, Entries
  (* The decision process, whoever calls it.                                *)
  <1>b. ASSUME NEW in \in Views, FromOffers(in), NEW flags, NEW S \in SUBSET Peers,
               NEW id, NEW out, NEW view, decision_process(in, flags, S, id, out, view),
               up' = S, router_id' = id, UNCHANGED <<local_nets, igp>>
        PROVE  LocalAgrees' /\ LocRibIsBest' /\ rib_in' = in
    <2>1. rib_in' = in
      BY Zenon, <1>b DEF decision_process
    <2>2. loc_rib' = IF local_nets THEN LocalEntry ELSE Chosen(in, S, id)
      BY Zenon, <1>b, DecisionChooses
    <2>3. LocRibIsBest'
      BY Zenon, <1>b, <2>1, <2>2, BestMeansNext
    <2>4. CASE local_nets
      BY Zenon, <1>a, <1>b, <2>1, <2>2, <2>3, <2>4 DEF LocalAgrees, Originated
    <2>5. CASE ~ local_nets
      <3>1. ~ Originated'
        BY Zenon, <2>2, <2>5, ChosenIsLearned DEF Originated
      <3> QED
        BY Zenon, <1>b, <2>1, <2>3, <2>5, <3>1 DEF LocalAgrees
    <2> QED
      BY <2>4, <2>5
  (* A step that skips it: the routes of some neighbours leave, the best    *)
  (* route does not.                                                        *)
  <1>c. ASSUME UNCHANGED <<loc_rib, local_nets, igp, unscanned>>,
               \A p \in Feasible(rib_in', up') :
                   /\ p \in Feasible(rib_in, up)
                   /\ rib_in'[p] = rib_in[p] /\ router_id'[p] = router_id[p]
        PROVE  LocalAgrees' /\ LocRibIsBest'
    <2>1. LocalAgrees'
      BY Zenon, <1>0, <1>c DEF LocalAgrees, Originated
    <2>2. CASE unscanned \/ local_nets
      BY Zenon, <1>0, <1>c, <2>1, <2>2, BestMeans, BestMeansNext
    <2>3. CASE ~ unscanned /\ ~ local_nets
      <3>1. loc_rib = Chosen(rib_in, up, router_id)
        BY Zenon, <1>0, <2>3, BestMeans
      <3>2. /\ rib_in' \in Views /\ FromOffers(rib_in') /\ up' \in SUBSET Peers
            /\ router_id' \in [Peers -> Nat] /\ LocRibBacked'
        BY <1>00 DEF BackedInv, RtInv, TypeOK, Views, FromOffers
      <3>3. ASSUME NEW w \in Feasible(rib_in, up),
                   Chosen(rib_in, up, router_id) = [route |-> rib_in[w], peer |-> w]
            PROVE  w \in Feasible(rib_in', up')
        <4>1. w \in Peers /\ rib_in[w] \in Routes /\ igp[rib_in[w].next_hop] # None
          BY <1>0 DEF Feasible, Views
        <4>2. loc_rib.peer = w /\ loc_rib.route = rib_in[w] /\ loc_rib \in Entries
          BY <3>1, <3>3, <4>1 DEF Entries
        <4>3. Learned'
          BY <1>c, <4>1, <4>2, EntriesAssumption, PeersAssumption DEF Learned
        <4>4. w \in up' /\ rib_in'[w] = rib_in[w]
          BY Zenon, <1>c, <3>2, <4>2, <4>3 DEF LocRibBacked
        <4> QED
          BY Zenon, <4>1, <4>4, NoneAssumption DEF Feasible
      <3>4. Chosen(rib_in', up', router_id') = Chosen(rib_in, up, router_id)
        <4>1. WinnerRemains(rib_in, up, router_id, rib_in', up')
          BY Zenon, <3>3 DEF WinnerRemains
        <4>2. Remain(rib_in, up, router_id, rib_in', up', router_id')
          BY Zenon, <1>c DEF Remain
        <4>3. Tables(rib_in, up, router_id) /\ Tables(rib_in', up', router_id')
          BY Zenon, <1>0, <3>2 DEF Tables
        <4> QED
          BY <1>0, <4>1, <4>2, <4>3, LoserLeaves
      <3>5. LocRibIsBest'
        BY Zenon, <1>c, <2>3, <3>1, <3>4, BestMeansNext
      <3> QED
        BY Zenon, <2>1, <3>5
    <2> QED
      BY <2>2, <2>3
  <1>1. ASSUME NEW p \in Peers, NEW offer \in Offers[p], process_update(p, offer)
        PROVE  Unheard' /\ LocalAgrees' /\ LocRibIsBest'
    <2> DEFINE route    == Imported(p, offer)
               eligible == bgp_peer_route_eligible(p, route)
               in       == [rib_in EXCEPT ![p] = IF eligible THEN route ELSE None]
    <2>1. /\ \/ decision_process(in, best \ {p}, up, router_id, rib_out, told)
             \/ ~ eligible /\ NoDecision(in, best \ {p}, rib_out, told)
          /\ p \in up /\ UNCHANGED <<up, been, router_id, local_nets, igp>>
      BY Zenon, <1>1 DEF process_update
    <2>2. /\ rib_in' = in /\ in \in Views /\ FromOffers(in)
      <3>1. rib_in' = in
        BY Zenon, <2>1 DEF decision_process, NoDecision
      <3> HIDE DEF in
      <3> QED
        BY <1>00, <3>1 DEF BackedInv, RtInv, TypeOK, Views, FromOffers
    <2>3. \A q \in Peers \ {p} : in[q] = rib_in[q]
      BY <1>0 DEF Views
    <2>4. ~ eligible => in[p] = None
      <3> HIDE DEF eligible
      <3> QED
        BY <1>0 DEF Views
    <2> HIDE DEF in, route, eligible
    <2>5. Unheard'
      BY Zenon, <1>0, <2>1, <2>2, <2>3 DEF Unheard
    <2>6. CASE decision_process(in, best \ {p}, up, router_id, rib_out, told)
      <3>1. LocalAgrees' /\ LocRibIsBest'
        BY Zenon, <1>0, <1>b, <2>1, <2>2, <2>6
      <3> QED
        BY Zenon, <2>5, <3>1
    <2>7. CASE ~ eligible /\ NoDecision(in, best \ {p}, rib_out, told)
      <3>1. UNCHANGED <<loc_rib, local_nets, igp, unscanned>>
        BY Zenon, <2>1, <2>7 DEF NoDecision
      <3>2. ASSUME NEW q \in Feasible(rib_in', up')
            PROVE  /\ q \in Feasible(rib_in, up)
                   /\ rib_in'[q] = rib_in[q] /\ router_id'[q] = router_id[q]
        <4>1. q \in up /\ in[q] # None /\ igp[in[q].next_hop] # None
          BY Zenon, <2>1, <2>2 DEF Feasible
        <4>2. q \in Peers \ {p}
          BY Zenon, <1>0, <2>4, <2>7, <4>1
        <4> QED
          BY Zenon, <2>1, <2>2, <2>3, <4>1, <4>2 DEF Feasible
      <3> QED
        BY Zenon, <1>c, <2>5, <3>1, <3>2
    <2> QED
      BY Zenon, <2>1, <2>6, <2>7
  <1>2. ASSUME NEW p \in Peers, process_withdraw(p)
        PROVE  Unheard' /\ LocalAgrees' /\ LocRibIsBest'
    <2> DEFINE in == [rib_in EXCEPT ![p] = None]
    <2>1. /\ decision_process(in, best \ {p}, up, router_id, rib_out, told)
          /\ p \in up /\ UNCHANGED <<up, been, router_id, local_nets, igp>>
      BY Zenon, <1>2 DEF process_withdraw
    <2>2. in \in Views /\ FromOffers(in) /\ \A q \in Peers \ {p} : in[q] = rib_in[q]
      BY <1>0 DEF Views, FromOffers
    <2> HIDE DEF in
    <2>3. LocalAgrees' /\ LocRibIsBest' /\ rib_in' = in
      BY Zenon, <1>0, <1>b, <2>1, <2>2
    <2>4. Unheard'
      BY Zenon, <1>0, <2>1, <2>2, <2>3 DEF Unheard
    <2> QED
      BY Zenon, <2>3, <2>4
  <1>3. ASSUME NEW p \in Peers, NEW answer \in BOOLEAN, session_established(p, answer)
        PROVE  Unheard' /\ LocalAgrees' /\ LocRibIsBest'
    <2>1. /\ p \notin up /\ p \notin been
          /\ up' = up \cup {p} /\ been' = been \cup {p}
          /\ UNCHANGED <<rib_in, loc_rib, local_nets, igp, unscanned>>
          /\ \A q \in Peers \ {p} : router_id'[q] = router_id[q]
      BY <1>0, <1>3 DEF session_established
    <2>2. rib_in[p] = None
      BY Zenon, <1>0, <2>1 DEF Unheard
    <2>3. Unheard'
      BY <1>0, <2>1 DEF Unheard
    <2>4. ASSUME NEW q \in Feasible(rib_in', up')
          PROVE  /\ q \in Feasible(rib_in, up)
                 /\ rib_in'[q] = rib_in[q] /\ router_id'[q] = router_id[q]
      <3>1. /\ q \in up' /\ rib_in[q] # None /\ igp[rib_in[q].next_hop] # None
        BY Zenon, <2>1 DEF Feasible
      <3>2. q \in up /\ q \in Peers \ {p}
        BY Zenon, <1>0, <2>1, <2>2, <3>1
      <3> QED
        BY Zenon, <2>1, <3>1, <3>2 DEF Feasible
    <2> QED
      BY Zenon, <1>c, <2>1, <2>3, <2>4
  <1>4. ASSUME NEW p \in Peers, session_closed(p)
        PROVE  Unheard' /\ LocalAgrees' /\ LocRibIsBest'
    <2> DEFINE id   == [router_id EXCEPT ![p] = ANY]
               out  == [rib_out EXCEPT ![p] = None]
               view == [told EXCEPT ![p] = None]
    <2>1. /\ up' = up \ {p} /\ router_id' = id /\ UNCHANGED <<been, local_nets, igp>>
          /\ \/ decision_process(rib_in, best, up', id, out, view)
             \/ NoDecision(rib_in, best, out, view)
      BY Zenon, <1>4 DEF session_closed
    <2>2. \A q \in Peers \ {p} : id[q] = router_id[q]
      BY <1>0
    <2> HIDE DEF id, out, view
    <2>3. rib_in' = rib_in
      BY Zenon, <2>1 DEF decision_process, NoDecision
    <2>4. Unheard'
      BY Zenon, <1>0, <2>1, <2>3 DEF Unheard
    <2>5. CASE decision_process(rib_in, best, up', id, out, view)
      <3>1. up' \in SUBSET Peers
        BY <1>0, <2>1
      <3>2. LocalAgrees' /\ LocRibIsBest'
        BY Zenon, <1>0, <1>b, <2>1, <2>5, <3>1
      <3> QED
        BY Zenon, <2>4, <3>2
    <2>6. CASE NoDecision(rib_in, best, out, view)
      <3>1. UNCHANGED <<loc_rib, local_nets, igp, unscanned>>
        BY Zenon, <2>1, <2>6 DEF NoDecision
      <3>2. ASSUME NEW q \in Feasible(rib_in', up')
            PROVE  /\ q \in Feasible(rib_in, up)
                   /\ rib_in'[q] = rib_in[q] /\ router_id'[q] = router_id[q]
        <4>1. q \in up' /\ rib_in[q] # None /\ igp[rib_in[q].next_hop] # None
          BY Zenon, <2>3 DEF Feasible
        <4>2. q \in up /\ q \in Peers \ {p}
          BY Zenon, <1>0, <2>1, <4>1
        <4> QED
          BY Zenon, <2>1, <2>2, <2>3, <4>1, <4>2 DEF Feasible
      <3> QED
        BY Zenon, <1>c, <2>4, <3>1, <3>2
    <2> QED
      BY Zenon, <2>1, <2>5, <2>6
  (* Nothing that matters changes.                                          *)
  <1>d. ASSUME UNCHANGED <<up, been, router_id, rib_in, loc_rib, local_nets, igp, unscanned>>
        PROVE  Unheard' /\ LocalAgrees' /\ LocRibIsBest'
    <2>1. LocRibIsBest'
      BY Zenon, <1>0, <1>d, BestMeans, BestMeansNext
    <2> QED
      BY Zenon, <1>0, <1>d, <2>1 DEF Unheard, LocalAgrees, Originated
  <1>5. ASSUME NEW p \in Peers, peer_readv_prefix(p)
        PROVE  Unheard' /\ LocalAgrees' /\ LocRibIsBest'
    BY Zenon, <1>5, <1>d DEF peer_readv_prefix
  <1>6. ASSUME add_network
        PROVE  Unheard' /\ LocalAgrees' /\ LocRibIsBest'
    <2>1. /\ local_nets' = TRUE /\ loc_rib' = LocalEntry
          /\ UNCHANGED <<up, been, rib_in, igp>>
      BY Zenon, <1>6 DEF add_network, LocalEntry
    <2>2. LocRibIsBest'
      BY Zenon, <2>1, BestMeansNext
    <2>3. LocalAgrees'
      BY Zenon, <1>a, <2>1 DEF LocalAgrees, Originated
    <2> QED
      BY Zenon, <1>0, <2>1, <2>2, <2>3 DEF Unheard
  <1>7. ASSUME scan_rib
        PROVE  Unheard' /\ LocalAgrees' /\ LocRibIsBest'
    <2>1. /\ decision_process(rib_in, best, up, router_id, rib_out, told)
          /\ UNCHANGED <<up, been, router_id, local_nets, igp>>
      BY Zenon, <1>7 DEF scan_rib
    <2>2. LocalAgrees' /\ LocRibIsBest' /\ rib_in' = rib_in
      BY Zenon, <1>0, <1>b, <2>1
    <2> QED
      BY Zenon, <1>0, <2>1, <2>2 DEF Unheard
  <1>8. ASSUME NEW h \in Hops, NEW c \in Costs \cup {None}, igp_change(h, c)
        PROVE  Unheard' /\ LocalAgrees' /\ LocRibIsBest'
    <2>1. unscanned' /\ UNCHANGED <<up, been, rib_in, loc_rib, local_nets>>
      BY Zenon, <1>8 DEF igp_change, ribs
    <2>2. LocRibIsBest'
      BY Zenon, <2>1 DEF LocRibIsBest
    <2> QED
      BY Zenon, <1>0, <2>1, <2>2 DEF Unheard, LocalAgrees, Originated
  <1>9. CASE UNCHANGED vars
    BY Zenon, <1>9, <1>d DEF vars, ribs
  <1>10. ASSUME del_network \/ \E loc \in BOOLEAN : clear_rib(loc)
         PROVE  FALSE
    BY Zenon, <1>10 DEF del_network, clear_rib
  <1> QED
    BY Zenon, <1>1, <1>2, <1>3, <1>4, <1>5, <1>6, <1>7, <1>8, <1>9, <1>10
       DEF Next, PeerStep, RouterStep, IgpStep

(* The Loc-RIB has exactly what the decision process would choose now,       *)
(* although the program skips it for routes that are not eligible and for    *)
(* sessions that carried no best route: since the last change of the IGP,    *)
(* no such shortcut of _bgp_peer_process_update or                           *)
(* _bgp_peer_disable_adjribin leaves a worse or a vanished route.            *)
THEOREM BestRouteIsBest ==
    ASSUME DistinctOffers, OffersFit, MedType = "always-compare",
           "clear_rib" \notin Operations, "reopen" \notin Operations,
           "del_network" \notin Operations
    PROVE  Spec => []LocRibIsBest
  <1>1. BestInv /\ [Next]_vars => BestInv'
    BY BestNext
  <1>2. BestInv => LocRibIsBest
    BY DEF BestInv
  <1> QED
    BY <1>1, <1>2, BestInit, PTL DEF Spec
=============================================================================
