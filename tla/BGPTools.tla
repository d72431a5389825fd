------------------------------- MODULE BGPTools -------------------------------
(***************************************************************************)
(* The loading of a routing table into a router, with the peers that it    *)
(* needs (bgp/as.c, bgp/auto-config.c), and what can be asked of the       *)
(* routers: the path to a prefix (bgp/record-route.c), the assertions of   *)
(* bgp/bgp_assert.c, their routes and their statistics (bgp/as.c).         *)
(*                                                                         *)
(* The state has one more field here: load, what the last load of a        *)
(* routing table counted.                                                  *)
(***************************************************************************)
EXTENDS BGPConfig

(* AUTO_CONFIG_LINK_WEIGHT *)
AutoWeight == 1

(***************************************************************************)
(* A peer for a route of the table: the node, a link to it in one          *)
(* direction, a static route over that link when there is no other, a      *)
(* virtual session.  The outcome is [S, peer].                             *)
(***************************************************************************)
bgp_auto_config_session(S, n, a, asn) ==
  LET known == a \in DOMAIN S.net.nodes
      made == cli_net_add_node(S.net, a, TRUE)
      t1 == IF known THEN S.net ELSE made.net
      iface == <<n, a>> IN
  Let(IF iface \in DOMAIN t1.ifaces THEN Ok(t1)
      ELSE Then(net_link_create_rtr(t1, n, a, FALSE),
                LAMBDA u : net_iface_set_metric(u, iface, AutoWeight, FALSE)), LAMBDA linked :
  LET alone == node_rt_lookup(linked.net, n, a) = {}
      routed == IF ~alone THEN linked
                ELSE node_rt_add_route_link(linked.net, n, <<a, W>>, a, a, AutoWeight, "static")
      added == bgp_router_add_peer([S EXCEPT !.net = routed.net], n, asn, a)
      flags == {"autoconf", "virtual"} \cup IF alone THEN {"next-hop-self"} ELSE {}
      flagged == [added EXCEPT !.bgp[n].peers[a].flags = flags]
      Fails(where) == [S |-> Abort(S, where), peer |-> {}] IN
     IF ~known /\ made.err # "ESUCCESS" THEN [S |-> S, peer |-> {}]
     ELSE IF linked.err # "ESUCCESS" THEN Fails("auto-config.c:116")
     ELSE IF routed.err # "ESUCCESS" THEN Fails("auto-config.c:131")
     ELSE IF added.err # "ESUCCESS" THEN Fails("auto-config.c:147")
     ELSE IF a \in DOMAIN S.bgp THEN Fails("auto-config.c:159")
     ELSE [S |-> Call(flagged, <<"open", n, a>>), peer |-> {a}])

NoLoad == [ok |-> 0, bad_target |-> 0, bad_peer |-> 0, ignored |-> 0]

Counted(S, field) == [S EXCEPT !.load[field] = @ + 1]

(* A route without a peer becomes a route of the Loc-RIB.  The flag of the *)
(* best route says here that the next hop is reachable.                    *)
Inject(S, n, peer, route) ==
  LET sent == Marked([route EXCEPT !.peer = peer], {"FEASIBLE"})
      a == The(peer) IN
  Let(bgp_peer_route_eligible(S, n, a, sent), LAMBDA el :
  LET best == bgp_peer_route_feasible(S, n, el.route) IN
  Let(IF peer = {}
      THEN SetLocRib(S, n, rib_add_route(S.mem, S.bgp[n].loc_rib,
                                         Marked(sent, {"INTERNAL"})))
      ELSE SetAdjRib(S, n, a, "in",
             rib_replace_route(el.m, Peer(S, n, a).rib.in,
               route_flag_set(route_flag_set(el.route, "ELIGIBLE", el.ok),
                              "BEST", best))), LAMBDA stored :
     Call(stored, <<"decide", n, route.prefix>>)))

(* addr and asn are the router that the table was taken from; the next hop *)
(* is the peer that has sent the route.  A record without a route is       *)
(* dereferenced.                                                           *)
_bgp_router_load_rib_handler(S, n, options, status, route, addr, asn) ==
  LET r == The(route)
      a == r.attr.next_hop
      last == path_last_as(r.attr.path_ref) IN
  Let(bgp_auto_config_session(S, n, a, last[2] % 65536), LAMBDA auto :
  LET Refuse(field) == Counted([S EXCEPT !.mem = FoldSet(LAMBDA x, m : route_destroy(m, x),
                                                         @, route)], field)
      Loaded(T, peer) == IF Crashed(T) THEN T
                         ELSE Done(Counted(Inject(T, n, peer, r), "ok")) IN
     IF status # "OK" THEN Counted(S, "ignored")
     ELSE IF "force" \notin options /\ (addr # {S.bgp[n].rid} \/ asn # {S.bgp[n].asn})
       THEN Refuse("bad_target")
     ELSE IF route = {} THEN Abort(S, "as.c:2666")
     ELSE IF bgp_router_find_peer(S, n, a) # {} THEN Loaded(S, {a})
     ELSE IF "autoconf" \notin options THEN Refuse("bad_peer")
     ELSE IF last[1] = "abort" THEN Abort(S, "path.c:332")
     ELSE Loaded(auto.S, auto.peer))

bgp_router_load_rib(S, n, file, format, options) ==
  bgp_routes_load([S EXCEPT !.load = NoLoad], file, format,
                  LAMBDA T, status, route, addr, asn :
                    _bgp_router_load_rib_handler(T, n, options, status, route, addr, asn))

-----------------------------------------------------------------------------
(* The ASes on the way to a prefix, from next hop to next hop.  prev is    *)
(* the router before, seen the routers that were met since the path was    *)
(* changed: to meet one of them again is to go on for ever.                *)

RECURSIVE Follow(_, _, _, _, _, _, _)
Follow(S, n, prev, prefix, path, options, seen) ==
  LET R == S.bgp[n] IN
  Let(IF "exact-match" \in options THEN rib_find_exact(R.loc_rib, prefix)
      ELSE rib_find_best(R.loc_rib, prefix), LAMBDA found :
  LET next == The(found).attr.next_hop
      record == \/ prev = {} \/ "preserve-dups" \in options
                \/ \E m \in prev : S.bgp[m].asn # R.asn IN
  Let(IF record THEN path_append(path, R.asn) ELSE {path}, LAMBDA longer :
  LET Result(result, p) == [result |-> result, path |-> p] IN
     IF found = {} THEN Result("UNREACH", path)
     ELSE IF longer = {} THEN Result("TOO_LONG", path)
     ELSE IF ~record /\ n \in seen THEN Result("NEVER", path)
     ELSE IF node_has_address(S.net, n, next) # {} THEN Result("SUCCESS", The(longer))
     ELSE IF next \notin DOMAIN S.bgp THEN Result("UNREACH", The(longer))
     ELSE Follow(S, next, {n}, prefix, The(longer), options,
                 IF record THEN {n} ELSE seen \cup {n})))

bgp_record_route(S, n, prefix, options) == Follow(S, n, {}, prefix, <<>>, options, {})

-----------------------------------------------------------------------------
(* Assertions: 0 on success, -1 on failure, -2 if the program never        *)
(* answers.                                                                *)

build_router_list(S) == Sorted(DOMAIN S.bgp)

(* The networks that a router cannot reach. *)
Unreached(S) ==
  {<<n, m, k>> \in UNION {{<<n, m, k>> : k \in DOMAIN S.bgp[m].local_nets} :
                            <<n, m>> \in (DOMAIN S.bgp) \X (DOMAIN S.bgp)} :
     n # m /\ bgp_record_route(S, n, S.bgp[m].local_nets[k].prefix, {}).result # "SUCCESS"}

bgp_assert_reachability(S) ==
  IF \E <<n, m, k>> \in Unreached(S) :
       bgp_record_route(S, n, S.bgp[m].local_nets[k].prefix, {}).result = "NEVER"
    THEN -2
  ELSE IF Unreached(S) = {} THEN 0 ELSE -1

(* The test of a session may stop the program. *)
bgp_assert_peerings(S) ==
  Let(UNION {{bgp_peer_session_ok(S, n, a) : a \in DOMAIN S.bgp[n].peers} :
               n \in DOMAIN S.bgp}, LAMBDA tests :
     [S |-> IF \E t \in tests : Crashed(t.S)
            THEN (CHOOSE t \in tests : Crashed(t.S)).S ELSE S,
      result |-> IF \A t \in tests : t.ok THEN 0 ELSE -1])

bgp_assert_full_mesh(asn) == 0

bgp_assert_sessions == 0

bgp_router_assert_best(S, n, prefix, next_hop) ==
  \E r \in rib_find_exact(S.bgp[n].loc_rib, prefix) : r.attr.next_hop = next_hop

(* The flags of the routes are brought up to date. *)
bgp_router_assert_feasible(S, n, prefix, next_hop) ==
  LET f == bgp_router_get_feasible_routes(S, n, prefix) IN
     [S |-> f.S, ok |-> \E a \in f.routes : \E r \in rib_find_exact(
                          Peer(S, n, a).rib.in, prefix) : r.attr.next_hop = next_hop]

-----------------------------------------------------------------------------
(* What is shown of a router.  A route is shown with the address and the   *)
(* ASN of its peer.                                                        *)

Shown(S, n, route) ==
  route_dump(S.opts.mode, route, route.peer, {Peer(S, n, a).asn : a \in route.peer})

ShownAll(S, n, routes) == {Shown(S, n, r) : r \in routes}

bgp_router_dump_networks(S, n) ==
  [k \in DOMAIN S.bgp[n].local_nets |-> Shown(S, n, S.bgp[n].local_nets[k])]

bgp_router_dump_peers(S, n) ==
  [a \in DOMAIN S.bgp[n].peers |-> bgp_peer_dump(S, n, a)]

bgp_router_dump_rib(S, n) ==
  LET rib == S.bgp[n].loc_rib IN ShownAll(S, n, {rib[p] : p \in DOMAIN rib})

(* peers is the peer, or all of them. *)
bgp_router_dump_adjrib(S, n, peers, prefix, dir) ==
  [a \in peers |-> ShownAll(S, n, bgp_peer_dump_adjrib(Peer(S, n, a), prefix, dir))]

bgp_router_dump_rib_address(S, n, a) ==
  ShownAll(S, n, rib_find_best(S.bgp[n].loc_rib, <<a, W>>))

bgp_router_dump_rib_prefix(S, n, prefix) ==
  ShownAll(S, n, rib_find_exact(S.bgp[n].loc_rib, prefix))

(* What the decision process would do with the routes of all the peers     *)
(* that are marked as feasible: neither the state of their sessions nor    *)
(* whether they are eligible is tested.  The rules may stop the program.   *)
bgp_debug_dp(S, n, prefix) ==
  LET old == rib_find_exact(S.bgp[n].loc_rib, prefix)
      marked == {a \in DOMAIN S.bgp[n].peers :
                   \E r \in rib_find_exact(Peer(S, n, a).rib.in, prefix) :
                     route_flag_get(r, "FEASIBLE")}
      local == \E r \in old : route_flag_get(r, "INTERNAL")
      run == _bgp_router_decision_process_run(S.opts.med,
               {Candidate(S, n, a, prefix) : a \in marked}) IN
     [current |-> old, eligible |-> marked, local |-> local,
      best |-> IF local THEN marked ELSE {c.peer : c \in run.left},
      crash |-> IF local THEN "" ELSE run.crash]

bgp_router_info(R) == [rid |-> R.rid, asn |-> R.asn, cluster_id |-> R.cluster_id]

(* The rank of the last rule is taken for an error. *)
RuleShown(rank) ==
  IF rank <= 0 THEN "Single choice"
  ELSE IF rank >= Len(DP_RULES) THEN "Invalid rule"
  ELSE DP_RULES[rank]

bgp_router_show_route_info(S, n, route) ==
  LET f == bgp_router_get_feasible_routes(S, n, route.prefix) IN
     [S |-> f.S, info |-> [prefix |-> route.prefix, rule |-> RuleShown(route.rank),
                           feasible |-> Cardinality(f.routes)]]

(* dest is of type any, address or prefix. *)
bgp_router_show_routes_info(S, n, dest) ==
  LET rib == S.bgp[n].loc_rib
      routes == CASE dest.type = "any" -> {rib[p] : p \in DOMAIN rib}
                  [] dest.type = "address" -> rib_find_best(rib, dest.prefix)
                  [] dest.type = "prefix" -> rib_find_exact(rib, dest.prefix)
      Show(r, x) == LET y == bgp_router_show_route_info(x.S, n, r) IN
                       [S |-> y.S, infos |-> x.infos \cup {y.info}] IN
     FoldSet(Show, [S |-> S, infos |-> {}], routes)

bgp_router_show_stats(S, n) ==
  LET R == S.bgp[n]
      best == {p \in DOMAIN R.loc_rib : route_flag_get(R.loc_rib[p], "BEST")}
  IN [peers |-> Cardinality(DOMAIN R.peers), networks |-> Len(R.local_nets),
      best |-> Cardinality(best),
      rules |-> [k \in 0 .. Len(DP_RULES) |->
                   Cardinality({p \in best : R.loc_rib[p].rank = k})],
      prefixes |-> [a \in DOMAIN R.peers |->
                      LET rib == R.peers[a].rib.in
                      IN <<Cardinality({p \in DOMAIN rib : route_flag_get(rib[p], "BEST")}),
                           Cardinality(DOMAIN rib)>>]]

-----------------------------------------------------------------------------
(* The monitor of the messages. *)

bgp_msg_monitor_open(S) == [S EXCEPT !.monitor = {<<>>}]

bgp_msg_monitor_close(S) == [S EXCEPT !.monitor = {}]

bgp_msg_names == [UPDATE |-> "A", WITHDRAW |-> "W", CLOSE |-> "CLOSE", OPEN |-> "OPEN"]

(* A message as it is written, in the form of the records of module        *)
(* RouteInput: node n has sent it.  The originator of a route is written   *)
(* behind its Communities, in the same field.                              *)
_bgp_msg_header_dump(n, msg) ==
  [fields |-> 5, proto |-> "BGP4", type |-> bgp_msg_names[msg.type], peer_addr |-> {n},
   peer_asn |-> {msg.asn}, prefix |-> {}, path |-> <<>>, origin |-> {}, next_hop |-> {},
   pref |-> <<>>, med |-> <<>>, comms |-> <<>>]

_bgp_msg_update_dump(head, route) ==
  [head EXCEPT
     !.fields = 14, !.prefix = {route.prefix}, !.origin = {route.attr.origin},
     !.path = path_tokens(path_dump(route.attr.path_ref, TRUE)),
     !.next_hop = {route.attr.next_hop}, !.pref = <<{route.attr.local_pref}>>,
     !.med = IF route.attr.med = MedMissing THEN <<>> ELSE <<{route.attr.med}>>,
     !.comms = [k \in DOMAIN List(route.attr.comms) |->
                  <<"value", List(route.attr.comms)[k]>>]
               \o IF route.attr.originator = NULL THEN <<>> ELSE << <<"originator">> >>]

_bgp_msg_withdraw_dump(head, prefix) == [head EXCEPT !.fields = 6, !.prefix = {prefix}]

_bgp_msg_open_dump(head) == [head EXCEPT !.fields = 6]

bgp_msg_dump(n, msg) ==
  LET head == _bgp_msg_header_dump(n, msg)
  IN CASE msg.type = "UPDATE" -> _bgp_msg_update_dump(head, The(msg.route))
       [] msg.type = "WITHDRAW" -> _bgp_msg_withdraw_dump(head, msg.prefix)
       [] msg.type = "OPEN" -> _bgp_msg_open_dump(head)
       [] msg.type = "CLOSE" -> head
=============================================================================
