----------------------------- MODULE BGPDecision -----------------------------
(***************************************************************************)
(* The routes of a BGP router and what becomes of them: its RIBs           *)
(* (bgp/rib.c), the messages to its peers (bgp/message.c, the sending half *)
(* of bgp/peer.c), the decision process, the redistribution of the best    *)
(* route (bgp/as.c) and its installation in the routing table of the node  *)
(* (bgp/dp_rt.c).                                                          *)
(*                                                                         *)
(* A function of the program is an operator on the state S of the program: *)
(* the context of module Forwarding with the fields                        *)
(*   mem      the attributes of the routes (module AttrStore)              *)
(*   maps     the route-maps            regexes  the compiled expressions  *)
(*   bgp      the router of each node that has one                         *)
(*   domains  the routers that were registered with each AS                *)
(*   opts     the options of the user: [med, local_pref]                   *)
(*   leak     what the routes refer to that nothing can free any more: the *)
(*            number of such references to each path and to each list of   *)
(*            Communities                                                  *)
(*   monitor  {} or the messages that were sent since it was opened        *)
(* A router is                                                             *)
(*   [asn, rid, cluster_id, reflector, peers, loc_rib, local_nets]         *)
(* and a peer, known by its address,                                       *)
(*   [asn, router_id, filter, rib, state, flags, next_hop, src_addr,       *)
(*    record, send, recv, last_error]                                      *)
(* where filter and rib have the fields in and out, and record is {} or    *)
(* the messages recorded so far.  The peer of a route is {} or its address *)
(* among the peers of the router.                                          *)
(***************************************************************************)
EXTENDS NetFiles, Policy, DPRules

(* The functions of the routers call each other across the modules: a      *)
(* decision tells the peers, a message that arrives leads to a decision.   *)
(* Call(S, c) is the result of the call c, the name of a function and its  *)
(* arguments, in S: it stands for Perform of module CLI, which knows them  *)
(* all, and which the configurations give as its value.                    *)
CONSTANT Call(_, _)

Crashed(S) == S.err \in Fatal \/ S.mem.crash # ""

Abort(S, where) == [S EXCEPT !.mem = Crash(@, where)]

Peer(S, n, a) == S.bgp[n].peers[a]

PeersInOrder(S, n) == Sorted(DOMAIN S.bgp[n].peers)

-----------------------------------------------------------------------------
(* RIBs: functions from masked prefixes to routes.  A route that leaves    *)
(* its RIB is destroyed.                                                   *)

rib_create == <<>>

rib_find_exact(rib, p) ==
  {rib[k] : k \in {ip_prefix_mask(p)} \cap DOMAIN rib}

(* The longest prefix that covers prefix p. *)
rib_find_best(rib, p) ==
  LET over == {k \in DOMAIN rib : ip_prefix_in_prefix(p, k)}
  IN {rib[k] : k \in {j \in over : \A h \in over : h[2] <= j[2]}}

rib_remove_route(m, rib, p) ==
  LET key == ip_prefix_mask(p)
  IN IF key \notin DOMAIN rib THEN [m |-> m, rib |-> rib]
     ELSE [m |-> route_destroy(m, rib[key]),
           rib |-> [k \in DOMAIN rib \ {key} |-> rib[k]]]

rib_add_route(m, rib, route) ==
  Let(rib_remove_route(m, rib, route.prefix), LAMBDA r :
     [m |-> r.m, rib |-> r.rib @@ (ip_prefix_mask(route.prefix) :> route)])

rib_replace_route(m, rib, route) == rib_add_route(m, rib, route)

rib_destroy(m, rib) ==
  FoldSet(LAMBDA k, mem : route_destroy(mem, rib[k]), m, DOMAIN rib)

(* The order in which a RIB is visited. *)
rib_for_each(rib) ==
  SortedSeq(DOMAIN rib, LAMBDA p, q : p[1] < q[1] \/ (p[1] = q[1] /\ p[2] < q[2]))

SetLocRib(S, n, r) == [S EXCEPT !.mem = r.m, !.bgp[n].loc_rib = r.rib]

SetAdjRib(S, n, a, dir, r) ==
  [S EXCEPT !.mem = r.m, !.bgp[n].peers[a].rib[dir] = r.rib]

(* A change of the route of a peer's Adj-RIB-In, if there is one. *)
OnAdjRoute(S, n, a, p, Op(_)) ==
  LET key == ip_prefix_mask(p)
  IN IF key \notin DOMAIN Peer(S, n, a).rib.in THEN S
     ELSE [S EXCEPT !.bgp[n].peers[a].rib.in[key] = Op(@)]

-----------------------------------------------------------------------------
(* Messages. *)

Msg(type, asn) == [type |-> type, asn |-> asn, seq |-> 0, route |-> {},
                   prefix |-> <<ANY, 0>>, rid |-> ANY]

bgp_msg_update_create(asn, route) == [Msg("UPDATE", asn) EXCEPT !.route = {route}]

bgp_msg_withdraw_create(asn, prefix) ==
  [Msg("WITHDRAW", asn) EXCEPT !.prefix = prefix]

bgp_msg_close_create(asn) == Msg("CLOSE", asn)

bgp_msg_open_create(asn, rid) == [Msg("OPEN", asn) EXCEPT !.rid = rid]

Count(bag, ref) ==
  IF ref = NULL THEN bag
  ELSE IF ref \in DOMAIN bag THEN [bag EXCEPT ![ref] = @ + 1]
  ELSE bag @@ (ref :> 1)

(* The message is freed, the route of an UPDATE is not: if nothing else    *)
(* holds the route, its references are never released.                     *)
bgp_msg_destroy(S, msg) ==
  [S EXCEPT !.leak.paths = FoldSet(LAMBDA r, b : Count(b, r.attr.path_ref),
                                   @, msg.route),
            !.leak.comms = FoldSet(LAMBDA r, b : Count(b, r.attr.comms),
                                   @, msg.route)]

(* What the network has dropped. *)
Collect(S) == FoldLeft(bgp_msg_destroy, [S EXCEPT !.lost = <<>>], S.lost)

(* The monitor, if there is one, gets every message with its destination. *)
bgp_msg_monitor_write(S, n, dst, msg) ==
  [S EXCEPT !.monitor = {Append(trace, <<dst, n, msg>>) : trace \in @}]

bgp_msg_send(S, n, src, dst, msg) ==
  node_send_msg(bgp_msg_monitor_write(S, n, dst, msg), n, src, dst, "bgp", MaxTTL, msg)

(* A virtual peer gets nothing, but what it would get may be recorded.     *)
_bgp_peer_send(S, n, a, msg) ==
  LET p == Peer(S, n, a)
      numbered == [msg EXCEPT !.seq = p.send]
      tapped == [S EXCEPT !.bgp[n].peers[a].send = @ + 1,
                          !.bgp[n].peers[a].record =
                            {Append(r, numbered) : r \in @}] IN
     IF "virtual" \in p.flags THEN Return(tapped, "EBGP_PEER_INCOMPATIBLE")
     ELSE bgp_msg_send(tapped, n, p.src_addr, a, numbered)

bgp_peer_send_enabled(p) == "virtual" \notin p.flags \/ p.record # {}

(* The route is destroyed when sending it returns an error, and leaks when *)
(* the network drops it without one.                                       *)
bgp_peer_announce_route(S, n, a, route) ==
  Let(_bgp_peer_send(S, n, a,
        bgp_msg_update_create(S.bgp[n].asn, [route EXCEPT !.peer = {a}])), LAMBDA sent :
     IF sent.err = "ESUCCESS" \/ sent.err \in Fatal THEN sent
     ELSE [sent EXCEPT !.mem = route_destroy(@, route), !.lost = S.lost])

bgp_peer_withdraw_prefix(S, n, a, prefix) ==
  _bgp_peer_send(S, n, a, bgp_msg_withdraw_create(S.bgp[n].asn, prefix))

-----------------------------------------------------------------------------
(* The redistribution of a route to a peer.  The route is followed through *)
(* x = [m, route, ok]: the memory, the copy that will be sent, and whether *)
(* it will.                                                                *)

FilterEnv(S, n) ==
  LET T == S.net.nodes[n].rt
  IN [maps |-> S.maps, regexes |-> S.regexes,
      router |-> [asn |-> S.bgp[n].asn,
                  addresses |-> {i[2] : i \in {j \in DOMAIN S.net.ifaces :
                                   j[1] = n /\ net_iface_has_address(S.net, j, j[2])}},
                  metric |-> [p \in DOMAIN T |-> T[p][1].metric]]]

Denied(x) == [x EXCEPT !.ok = FALSE]

(* Redistribution Communities.  An action that is not known stops the      *)
(* program.                                                                *)
bgp_router_ecomm_process(asn, peer_asn, x) ==
  FoldLeft(LAMBDA y, e :
    IF ~y.ok \/ ~ecomm_red_match(e, peer_asn) THEN y
    ELSE CASE e.action = "PREPEND" ->
                Changed(y, route_path_prepend(y.m, y.route, asn, e.param))
           [] e.action = "NO_EXPORT" ->
                Changed(y, route_comm_append(y.m, y.route, COMM_NO_EXPORT))
           [] e.action = "IGNORE" -> Denied(y)
           [] OTHER -> [y EXCEPT !.m = Crash(@, "as.c:576")],
    x, List(x.route.attr.ecomms))

(* Where the route comes from and where it goes to. *)
From(R, route) ==
  IF route.peer = {} THEN "LOCAL"
  ELSE IF \A a \in route.peer : R.peers[a].asn = R.asn THEN "INTERNAL"
  ELSE "EXTERNAL"

To(R, dst) == IF R.asn = dst.asn THEN "INTERNAL" ELSE "EXTERNAL"

(* Tests on the route itself: it is not sent back to the router it comes   *)
(* from, and NO_ADVERTISE is obeyed.                                       *)
KeptFrom(R, dst, route) ==
  \/ \E a \in route.peer : R.peers[a].router_id = dst.router_id
  \/ route_comm_contains(route, COMM_NO_ADVERTISE)

(* The redistribution matrix: the route as it may be sent, in a set. *)
Reflect(R, dst, route) ==
  IF \/ ~route_flag_get(route, "RR_CLIENT") /\ "rr-client" \notin dst.flags
     \/ originator_equals(route.attr.originator, {dst.router_id})
    THEN {}
  ELSE {route_cluster_list_append(
          IF route.attr.originator = NULL
          THEN route_originator_set(route, R.peers[The(route.peer)].router_id)
          ELSE route, R.cluster_id)}

Redistribute(R, dst, route) ==
  IF To(R, dst) = "EXTERNAL"
    THEN IF \/ route_comm_contains(route, COMM_NO_EXPORT)
            \/ route_path_contains(route, dst.asn)
         THEN {}
         ELSE {route_cluster_list_clear(route_originator_clear(route))}
  ELSE CASE From(R, route) = "EXTERNAL" -> {route}
         [] From(R, route) = "INTERNAL" ->
              IF R.reflector THEN Reflect(R, dst, route) ELSE {}
         [] From(R, route) = "LOCAL" ->
              {IF R.reflector THEN route_originator_set(route, R.rid) ELSE route}

(* The next hop that the neighbor is told; next-hop-self is an option of   *)
(* the peer that sent the route.                                           *)
NextHopSent(R, dst, route) ==
  IF To(R, dst) = "EXTERNAL"
    THEN IF dst.next_hop # ANY THEN dst.next_hop ELSE R.rid
  ELSE IF From(R, route) # "EXTERNAL" THEN route.attr.next_hop
  ELSE IF \E a \in route.peer : "next-hop-self" \in R.peers[a].flags THEN R.rid
  ELSE IF dst.next_hop # ANY THEN dst.next_hop
  ELSE route.attr.next_hop

(* The output filter gets the route without what is not sent outside. *)
BeforeSent(S, n, dst, x) ==
  LET stripped == route_ecomm_strip_non_transitive(x.route) IN
  Let(filter_apply(FilterEnv(S, n), dst.filter.out, x.m,
                   IF To(S.bgp[n], dst) = "EXTERNAL" THEN route_med_clear(stripped)
                   ELSE stripped), LAMBDA f :
     [m |-> f.m, route |-> f.route, ok |-> f.verdict = 1])

(* The outcome is [S, ok]. *)
_bgp_router_advertise_to_peer(S, n, a, route) ==
  LET R == S.bgp[n]
      dst == R.peers[a] IN
  IF KeptFrom(R, dst, route) THEN [S |-> S, ok |-> FALSE]
  ELSE Let(route_copy(S.mem, route), LAMBDA copy :
       LET way == Redistribute(R, dst, copy.route) IN
       Let(IF way = {} THEN [m |-> copy.m, route |-> copy.route, ok |-> FALSE]
           ELSE bgp_router_ecomm_process(R.asn, dst.asn,
                  [m |-> copy.m, route |-> The(way), ok |-> TRUE]), LAMBDA red :
       Let(IF red.ok THEN BeforeSent(S, n, dst, red) ELSE red, LAMBDA out :
       LET nh == route_set_nexthop(out.route, NextHopSent(R, dst, out.route))
           new == IF To(R, dst) = "EXTERNAL"
                  THEN route_path_prepend(out.m, nh, R.asn, 1)
                  ELSE [m |-> out.m, route |-> nh] IN
          IF ~out.ok
          THEN [S |-> [S EXCEPT !.mem = route_destroy(out.m, out.route)], ok |-> FALSE]
          ELSE [S |-> bgp_peer_announce_route([S EXCEPT !.mem = new.m], n, a, new.route),
                ok |-> TRUE])))

bgp_router_peer_rib_out_replace(S, n, a, route) ==
  SetAdjRib(S, n, a, "out", rib_replace_route(S.mem, Peer(S, n, a).rib.out, route))

(* Mutant: the withdraw is not sent. *)
RemoveSilently(S, n, a, prefix) ==
  SetAdjRib(S, n, a, "out", rib_remove_route(S.mem, Peer(S, n, a).rib.out, prefix))

(* A withdraw is only sent for a prefix that was advertised before. *)
bgp_router_peer_rib_out_remove(S, n, a, prefix) ==
  LET rib == Peer(S, n, a).rib.out
  IN IF rib_find_exact(rib, prefix) = {} THEN S
     ELSE bgp_peer_withdraw_prefix(
            SetAdjRib(S, n, a, "out", rib_remove_route(S.mem, rib, prefix)),
            n, a, prefix)

(* Mutant: a route that is not sent leaves the one before in place. *)
DisseminateKeepsOld(S, n, prefix, route, a) ==
  IF Crashed(S) \/ Peer(S, n, a).state # "ESTABLISHED" THEN S
  ELSE IF route = {} THEN bgp_router_peer_rib_out_remove(S, n, a, prefix)
  ELSE Let(route_copy(S.mem, The(route)), LAMBDA new :
       Let(_bgp_router_advertise_to_peer([S EXCEPT !.mem = new.m], n, a, new.route), LAMBDA adv :
          IF adv.ok THEN bgp_router_peer_rib_out_replace(adv.S, n, a, new.route)
          ELSE [adv.S EXCEPT !.mem = route_destroy(@, new.route)]))

(* The Adj-RIB-Out keeps the route as it was before it was adapted to the  *)
(* peer.  route is {} for a withdraw.                                      *)
bgp_router_decision_process_disseminate_to_peer(S, n, prefix, route, a) ==
  Let(route_copy(S.mem, The(route)), LAMBDA new :
  Let(_bgp_router_advertise_to_peer([S EXCEPT !.mem = new.m], n, a, new.route), LAMBDA adv :
     IF Crashed(S) \/ Peer(S, n, a).state # "ESTABLISHED" THEN S
     ELSE IF route # {} /\ adv.ok
       THEN bgp_router_peer_rib_out_replace(adv.S, n, a, new.route)
     ELSE bgp_router_peer_rib_out_remove(
            IF route = {} THEN S
            ELSE [adv.S EXCEPT !.mem = route_destroy(@, new.route)], n, a, prefix)))

bgp_router_decision_process_disseminate(S, n, prefix, route) ==
  FoldLeft(LAMBDA T, a :
             IF ~bgp_peer_send_enabled(Peer(T, n, a)) THEN T
             ELSE Call(T, <<"tell", n, prefix, route, a>>),
           S, PeersInOrder(S, n))

-----------------------------------------------------------------------------
(* The routing table of the node: the entry has no interface, its gateway  *)
(* is resolved when a message is forwarded.                                *)

(* Mutant: the routing table keeps the entry of the old route. *)
RtKeepsEntry(S, n, route) ==
  LET info == rt_info_create(0, "bgp", <<[gw |-> route.attr.next_hop, oif |-> NoIf]>>)
  IN IF rt_find_exact(S.net.nodes[n].rt, route.prefix, {"bgp"}) # {} THEN S
     ELSE [S EXCEPT !.net.nodes[n].rt = rt_add_route(@, route.prefix, info)]

bgp_router_rt_add_route(S, n, route) ==
  LET key == ip_prefix_mask(route.prefix)
      T == S.net.nodes[n].rt
      old == rt_find_exact(T, route.prefix, {"bgp"})
      rest == IF old = {} THEN T ELSE rt_del_route(T, {key}, {}, {}, "bgp").rt
      info == rt_info_create(0, "bgp", <<[gw |-> route.attr.next_hop, oif |-> NoIf]>>) IN
     [S EXCEPT !.net.nodes[n].rt = rt_add_route(rest, route.prefix, info)]

bgp_router_rt_del_route(S, n, prefix) ==
  LET r == rt_del_route(S.net.nodes[n].rt, {ip_prefix_mask(prefix)}, {}, {}, "bgp") IN
     IF r.err # "ESUCCESS" THEN Abort(S, "dp_rt.c:115")
     ELSE [S EXCEPT !.net.nodes[n].rt = r.rt]

-----------------------------------------------------------------------------
(* The decision process. *)

(* Mutant: the flag of the route in the Adj-RIB-In stays. *)
BestFlagStays(S, n, old) ==
  [S EXCEPT !.bgp[n].loc_rib[ip_prefix_mask(old.prefix)] = route_flag_set(@, "BEST", FALSE)]

bgp_router_best_flag_off(S, n, old) ==
  LET cleared == [S EXCEPT !.bgp[n].loc_rib[ip_prefix_mask(old.prefix)] =
                    route_flag_set(@, "BEST", FALSE)] IN
     FoldSet(LAMBDA a, T : OnAdjRoute(T, n, a, old.prefix,
                             LAMBDA r : route_flag_set(r, "BEST", FALSE)),
             cleared, old.peer)

bgp_router_feasible_route(S, n, route) ==
  node_rt_lookup(S.net, n, route.attr.next_hop) # {}

bgp_router_get_best_routes(S, n, prefix) == rib_find_exact(S.bgp[n].loc_rib, prefix)

(* The peers with a candidate; the flag of what they sent is brought up to *)
(* date either way.                                                        *)
Eligible(S, n, prefix) ==
  {a \in DOMAIN S.bgp[n].peers :
     /\ Peer(S, n, a).state = "ESTABLISHED"
     /\ \E r \in rib_find_exact(Peer(S, n, a).rib.in, prefix) :
          route_flag_get(r, "ELIGIBLE")}

bgp_router_get_feasible_routes(S, n, prefix) ==
  LET eligible == Eligible(S, n, prefix) IN
  Let({a \in eligible : \A r \in rib_find_exact(Peer(S, n, a).rib.in, prefix) :
                          bgp_router_feasible_route(S, n, r)}, LAMBDA feasible :
     [S |-> FoldSet(LAMBDA a, T : OnAdjRoute(T, n, a, prefix, LAMBDA r :
                      route_flag_set(r, "FEASIBLE", a \in feasible)), S, eligible),
      routes |-> feasible])

(* What the rules read of the route of peer a. *)
Unknown == -1

Candidate(S, n, a, prefix) ==
  LET R == S.bgp[n]
      p == R.peers[a]
      attr == The(rib_find_exact(p.rib.in, prefix)).attr
  IN [peer |-> a, local_pref |-> attr.local_pref,
      length |-> path_length(attr.path_ref), origin |-> attr.origin,
      last_as |-> path_last_as(attr.path_ref), med |-> attr.med,
      ebgp |-> p.asn # R.asn,
      igp_cost |-> LET way == rt_find_best(S.net.nodes[n].rt, attr.next_hop, AllTypes) IN
                      IF way = {} THEN Unknown ELSE The(way).metric,
      id |-> IF attr.originator = NULL THEN p.router_id ELSE The(attr.originator),
      clusters |-> Len(List(attr.cluster_list)), addr |-> a]

(* The array DP_RULES. *)
DP_RULES == <<"highest-pref", "shortest-path", "lowest-origin", "lowest-med",
              "ebgp-over-ibgp", "nearest-next-hop", "lowest-router-id",
              "shortest-cluster-list", "lowest-neighbor-address">>

ApplyRule(rule, med, C) ==
  CASE rule = "highest-pref" -> dp_rule_highest_pref(C)
    [] rule = "shortest-path" -> dp_rule_shortest_path(C)
    [] rule = "lowest-origin" -> dp_rule_lowest_origin(C)
    [] rule = "lowest-med" -> IF med = "always-compare" THEN lowest_med_of_all(C)
                              ELSE dp_rule_lowest_med(C)
    [] rule = "ebgp-over-ibgp" -> dp_rule_ebgp_over_ibgp(C)
    [] rule = "nearest-next-hop" -> dp_rule_nearest_next_hop(C)
    [] rule = "lowest-router-id" -> dp_rule_lowest_router_id(C)
    [] rule = "shortest-cluster-list" -> dp_rule_shortest_cluster_list(C)
    [] rule = "lowest-neighbor-address" -> dp_rule_lowest_neighbor_address(C)

(* Where a rule stops the program: the deterministic MED rule needs the    *)
(* neighbor AS of every route, which a path that ends with an AS_SET has   *)
(* not, and the IGP rule needs the cost to every next hop.                 *)
RuleCrash(rule, med, C) ==
  IF rule = "lowest-med" /\ med = "deterministic" /\ \E c \in C : c.last_as[1] = "abort"
    THEN "path.c:332"
  ELSE IF rule = "nearest-next-hop" /\ \E c \in C : c.igp_cost = Unknown
    THEN "dp_rules.c:603"
  ELSE ""

(* The candidates that remain, the number of rules that were applied, the  *)
(* candidates whose choice depended on the IGP.  DP_RULES is followed by   *)
(* two NULL rules: with several candidates left after it, the program      *)
(* would call the first of them.                                           *)
_bgp_router_decision_process_run(med, C) ==
  FoldLeft(LAMBDA x, rule :
    IF Cardinality(x.left) <= 1 \/ x.crash # "" THEN x
    ELSE LET left == ApplyRule(rule, med, x.left) IN
            [left |-> left, rank |-> x.rank + 1,
             igp |-> IF rule = "nearest-next-hop" THEN left ELSE x.igp,
             crash |-> RuleCrash(rule, med, x.left)],
    [left |-> C, rank |-> 0, igp |-> {}, crash |-> ""], DP_RULES)

bgp_router_decision_process_no_best_route(S, n, prefix, old) ==
  IF old = {} THEN S
  ELSE LET off == bgp_router_best_flag_off(S, n, The(old)) IN
       LET removed == SetLocRib(off, n, rib_remove_route(off.mem, off.bgp[n].loc_rib, prefix)) IN
          bgp_router_decision_process_disseminate(
            bgp_router_rt_del_route(removed, n, prefix), n, prefix, {})

(* Mutant: the copy of the route is not destroyed. *)
UnchangedKeepsCopy(S, n, a, route, rank) ==
  LET marked == OnAdjRoute(S, n, a, route.prefix, LAMBDA r :
                  [route_flag_set(r, "BEST", TRUE) EXCEPT !.rank = rank]) IN
     bgp_router_rt_add_route(marked, n, route)

(* route is a copy of the route of peer a, old the equal route of the      *)
(* Loc-RIB, which keeps its place.                                         *)
bgp_router_decision_process_unchanged_best_route(S, n, a, route, rank) ==
  LET key == ip_prefix_mask(route.prefix)
      marked == OnAdjRoute(S, n, a, route.prefix, LAMBDA r :
                  [route_flag_set(r, "BEST", TRUE) EXCEPT !.rank = rank])
      kept == [marked EXCEPT !.bgp[n].loc_rib[key] =
                 [route_flag_set(@, "DP_IGP", route_flag_get(route, "DP_IGP"))
                    EXCEPT !.rank = rank]] IN
     [bgp_router_rt_add_route(kept, n, route) EXCEPT
        !.mem = route_destroy(@, route)]

bgp_router_decision_process_update_best_route(S, n, a, old, route, rank) ==
  LET off == FoldSet(LAMBDA r, T : bgp_router_best_flag_off(T, n, r), S, old)
      best == [route_flag_set(route, "BEST", TRUE) EXCEPT !.rank = rank]
      marked == OnAdjRoute(off, n, a, route.prefix, LAMBDA r :
                  [route_flag_set(r, "BEST", TRUE) EXCEPT !.rank = rank])
      added == SetLocRib(marked, n, rib_add_route(marked.mem, marked.bgp[n].loc_rib, best)) IN
     bgp_router_decision_process_disseminate(
       bgp_router_rt_add_route(added, n, best), n, route.prefix, {best})

(* A local route is not given up for another. *)
bgp_router_decision_process(S, n, prefix) ==
  LET old == rib_find_exact(S.bgp[n].loc_rib, prefix)
      f == bgp_router_get_feasible_routes(S, n, prefix) IN
  Let(_bgp_router_decision_process_run(S.opts.med,
        {Candidate(S, n, a, prefix) : a \in f.routes}), LAMBDA run :
  LET igp == IF Cardinality(f.routes) = 1 THEN f.routes ELSE {c.peer : c \in run.igp} IN
  Let(FoldSet(LAMBDA a, T : OnAdjRoute(T, n, a, prefix, LAMBDA r :
                route_flag_set(route_flag_set(r, "BEST", FALSE),
                               "DP_IGP", a \in igp)), f.S, f.routes), LAMBDA flagged :
  LET a == The(run.left).peer IN
  Let(route_copy(flagged.mem, The(rib_find_exact(Peer(flagged, n, a).rib.in, prefix))), LAMBDA copy :
  LET chosen == [flagged EXCEPT !.mem = copy.m] IN
     IF Crashed(S) \/ \E r \in old : route_flag_get(r, "INTERNAL") THEN S
     ELSE IF run.crash # "" THEN Abort(flagged, run.crash)
     ELSE IF Cardinality(run.left) > 1 THEN Abort(flagged, "as.c:1000")
     ELSE IF run.left = {}
       THEN bgp_router_decision_process_no_best_route(flagged, n, prefix, old)
     ELSE IF \E r \in old : route_equals(r, copy.route)
       THEN bgp_router_decision_process_unchanged_best_route(chosen, n, a, copy.route, run.rank)
     ELSE bgp_router_decision_process_update_best_route(chosen, n, a, old, copy.route,
                                                        run.rank))))

=============================================================================
