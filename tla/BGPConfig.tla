------------------------------ MODULE BGPConfig ------------------------------
(***************************************************************************)
(* What a BGP router is told to do: its creation, its peers and networks,  *)
(* its sessions as a whole, the scan of its RIB (bgp/as.c), and the        *)
(* domains of routers (bgp/domain.c).                                      *)
(*                                                                         *)
(* The state of module BGPDecision has more fields here:                   *)
(*   opts    also mode (how routes are shown) and flags                    *)
(*   strays  <<asn, node>> -> the router that was made for a node that     *)
(*           already had one: its AS knows it, and no longer the one of    *)
(*           the node; its node does not                                   *)
(***************************************************************************)
EXTENDS BGPPeer, RouteInput

Done(S) == IF Crashed(S) THEN S ELSE Return(S, "ESUCCESS")

-----------------------------------------------------------------------------
(* Options. *)

bgp_options_flag_set(S, flag) == [S EXCEPT !.opts.flags = @ \cup {flag}]

bgp_options_flag_reset(S, flag) == [S EXCEPT !.opts.flags = @ \ {flag}]

bgp_options_set_local_pref(S, pref) == [S EXCEPT !.opts.local_pref = pref]

dp_rules_options_set_med_type(S, type) == [S EXCEPT !.opts.med = type]

dp_rules_str2med_type(str) == {t \in {"deterministic", "always-compare"} : t = str}

route_set_show_mode(S, mode) == [S EXCEPT !.opts.mode = mode]

-----------------------------------------------------------------------------
(* Routers and domains. *)

net_ifaces_get_highest(t, n) ==
  LET addrs == {net_iface_src_address(t, i) : i \in {j \in DOMAIN t.ifaces : j[1] = n}}
  IN {a \in addrs : \A b \in addrs : b <= a}

_bgp_router_select_rid(t, n) == net_ifaces_get_highest(t, n)

exists_bgp_domain(S, asn) == asn \in DOMAIN S.domains

get_bgp_domain(S, asn) ==
  IF exists_bgp_domain(S, asn) THEN S
  ELSE [S EXCEPT !.domains = @ @@ (asn :> {})]

bgp_domain_add_router(S, asn, n) ==
  [get_bgp_domain(S, asn) EXCEPT !.domains[asn] = @ \cup {n}]

(* A new router, and the state in which its AS knows it. *)
bgp_router_create(S, asn, n, rid) ==
  [S |-> bgp_domain_add_router(S, asn, n),
   router |-> [asn |-> asn, rid |-> rid, cluster_id |-> rid, reflector |-> FALSE,
               peers |-> <<>>, loc_rib |-> rib_create, local_nets |-> <<>>]]

(* A node without an interface cannot be a router.  The AS knows the new   *)
(* router, in place of the one it knew at that node, before the node       *)
(* refuses a second one.                                                   *)
bgp_add_router(S, asn, n) ==
  LET rid == _bgp_router_select_rid(S.net, n)
      new == bgp_router_create(S, asn, n, The(rid))
      reg == node_register_protocol(S.net, n, "bgp") IN
     IF rid = {} THEN Return(S, "ENET_IFACE_UNKNOWN")
     ELSE IF reg.err # "ESUCCESS"
       THEN Return([new.S EXCEPT !.strays = (<<asn, n>> :> new.router) @@ @], reg.err)
     ELSE Return([new.S EXCEPT !.net = reg.net, !.bgp = @ @@ (n :> new.router)],
                 "ESUCCESS")

bgp_router_find_peer(S, n, a) == {a} \cap DOMAIN S.bgp[n].peers

bgp_peers_add(S, n, a, peer) ==
  IF bgp_router_find_peer(S, n, a) # {} THEN Return(S, "EBGP_PEER_DUPLICATE")
  ELSE Return([S EXCEPT !.bgp[n].peers = @ @@ (a :> peer)], "ESUCCESS")

bgp_router_add_peer(S, n, asn, a) ==
  IF node_has_address(S.net, n, a) # {} THEN Return(S, "EBGP_PEER_INVALID_ADDR")
  ELSE bgp_peers_add(S, n, a, bgp_peer_create(asn))

-----------------------------------------------------------------------------
(* The networks of a router. *)

routes_list_append(list, route) == Append(list, route)

routes_list_remove_at(list, k) == RemoveAt(list, k)

LocalNet(S, n, prefix) ==
  {k \in DOMAIN S.bgp[n].local_nets :
     ip_prefix_cmp(S.bgp[n].local_nets[k].prefix, prefix) = 0}

(* The route replaces the one of the Loc-RIB.  The entry of that one in    *)
(* the routing table and the flag of the peer's route stay.                *)
_bgp_router_add_route(S, n, route) ==
  Let(route_copy(S.mem, route), LAMBDA copy :
  LET listed == [S EXCEPT !.bgp[n].local_nets = routes_list_append(@, route)]
      added == SetLocRib(listed, n, rib_add_route(copy.m, S.bgp[n].loc_rib, copy.route)) IN
     Done(bgp_router_decision_process_disseminate(added, n, route.prefix, {route})))

bgp_router_add_network(S, n, prefix) ==
  LET new == route_create(prefix, NULL, S.bgp[n].rid, 0)
  IN IF LocalNet(S, n, prefix) # {} THEN Return(S, "EBGP_NETWORK_DUPLICATE")
     ELSE _bgp_router_add_route(S, n,
            route_localpref_set(Marked(new, {"BEST", "FEASIBLE", "INTERNAL"}),
                                S.opts.local_pref))

(* The prefix is withdrawn from the peers; the routes that other peers     *)
(* have sent are not considered.                                           *)
bgp_router_del_network(S, n, prefix) ==
  LET k == The(LocalNet(S, n, prefix))
      removed == SetLocRib(S, n, rib_remove_route(S.mem, S.bgp[n].loc_rib, prefix))
      gone == [removed EXCEPT
                 !.mem = route_destroy(@, S.bgp[n].local_nets[k]),
                 !.bgp[n].local_nets = routes_list_remove_at(@, k)] IN
     IF LocalNet(S, n, prefix) = {} THEN Return(S, "EUNSPECIFIED")
     ELSE Done(bgp_router_decision_process_disseminate(gone, n, prefix, {}))

-----------------------------------------------------------------------------
(* All the sessions of a router; the first that fails ends the command. *)

EachPeer(S, n, Op(_, _)) ==
  FoldLeft(LAMBDA T, a : IF T.err # "ESUCCESS" \/ Crashed(T) THEN T ELSE Op(T, a),
           Return(S, "ESUCCESS"), PeersInOrder(S, n))

bgp_router_start(S, n) == EachPeer(S, n, LAMBDA T, a : Call(T, <<"open", n, a>>))

bgp_router_stop(S, n) == EachPeer(S, n, LAMBDA T, a : Call(T, <<"close", n, a>>))

bgp_router_reset(S, n) ==
  LET stopped == bgp_router_stop(S, n) IN
     IF stopped.err # "ESUCCESS" THEN stopped ELSE bgp_router_start(stopped, n)

(* The routes are forgotten without telling anyone: the routing table, the *)
(* list of the networks and the peers are not touched.                     *)
bgp_router_clear_adj_rib(S, n) ==
  FoldLeft(LAMBDA T, a : _bgp_peer_adjrib_clear(_bgp_peer_adjrib_clear(T, n, a, "in"),
                                                n, a, "out"),
           S, PeersInOrder(S, n))

bgp_router_clear_rib(S, n) ==
  LET cleared == [S EXCEPT !.mem = rib_destroy(@, S.bgp[n].loc_rib),
                           !.bgp[n].loc_rib = rib_create] IN
     bgp_router_clear_adj_rib(cleared, n)

_bgp_router_get_peer_prefixes(S, n) ==
  UNION {DOMAIN Peer(S, n, a).rib.in : a \in DOMAIN S.bgp[n].peers}

_bgp_router_get_local_prefixes(S, n) == DOMAIN S.bgp[n].loc_rib

_bgp_router_prefixes(S, n) ==
  _bgp_router_get_peer_prefixes(S, n) \cup _bgp_router_get_local_prefixes(S, n)

_bgp_router_refresh_sessions(S, n) ==
  FoldLeft(LAMBDA T, a : bgp_peer_session_refresh(T, n, a), S, PeersInOrder(S, n))

Decide(S, n, prefixes) ==
  Done(FoldLeft(LAMBDA T, p : Call(T, <<"decide", n, p>>), S,
                rib_for_each([p \in prefixes |-> p])))

(* Every prefix is taken for one that depends on the IGP: the tests behind *)
(* the first return are never reached.                                     *)
bgp_router_scan_rib_for_each(S, n, prefixes) == Decide(S, n, prefixes)

bgp_router_scan_rib(S, n) ==
  Let(_bgp_router_refresh_sessions(S, n), LAMBDA met :
     IF Crashed(met) THEN met
     ELSE bgp_router_scan_rib_for_each(met, n, _bgp_router_prefixes(met, n)))

bgp_router_rerun(S, n, prefix) ==
  Decide(S, n, IF prefix[2] = 0 THEN _bgp_router_prefixes(S, n)
               ELSE {ip_prefix_mask(prefix)})

-----------------------------------------------------------------------------
(* The routers of an AS, in the order of their nodes. *)

(* Op on the router that the AS knows at n.  What a stray router does, it  *)
(* does at its node, but with its own peers and RIBs.                      *)
AtRouter(S, asn, n, Op(_)) ==
  LET id == <<asn, n>> IN
     IF id \notin DOMAIN S.strays THEN Op(S)
     ELSE Let(Op([S EXCEPT !.bgp[n] = S.strays[id]]), LAMBDA T :
            [T EXCEPT !.bgp[n] = S.bgp[n], !.strays[id] = T.bgp[n]])

_bgp_domain_routers_list(S, asn) == Sorted(S.domains[asn])

bgp_domain_routers_for_each(S, asn, Op(_, _)) ==
  FoldLeft(LAMBDA T, n : IF Crashed(T) THEN T ELSE Op(T, n), S,
           _bgp_domain_routers_list(S, asn))

bgp_domain_rescan(S, asn) ==
  bgp_domain_routers_for_each(S, asn, LAMBDA T, n :
    AtRouter(T, asn, n, LAMBDA U : bgp_router_scan_rib(U, n)))

(* One router after the other gets its peers and opens its sessions.  The  *)
(* first peer that exists already ends it.                                 *)
bgp_domain_full_mesh(S, asn) ==
  LET routers == _bgp_domain_routers_list(S, asn)
      AddPeer(T, n, m) ==
        IF T.err # "ESUCCESS" \/ m = n THEN T
        ELSE LET r == bgp_router_add_peer(T, n, asn, m) IN
                IF r.err # "ESUCCESS" THEN r ELSE bgp_peer_set_source(r, n, m, n) IN
     FoldLeft(LAMBDA T, n :
       IF T.err # "ESUCCESS" THEN T
       ELSE AtRouter(T, asn, n, LAMBDA V :
         LET meshed == FoldLeft(LAMBDA U, m : AddPeer(U, n, m), V, routers) IN
            IF meshed.err # "ESUCCESS" THEN meshed ELSE bgp_router_start(meshed, n)),
       Return(S, "ESUCCESS"), routers)

(* The outcome of a record-route from each of the routers. *)
_record_route_for_each(S, n, dest) ==
  LET opts == IF dest.type = "prefix" THEN ip_options_alt_dest(ip_options_create, dest.prefix)
              ELSE ip_options_create
      msg == [message_create(ANY, dest.prefix[1], "icmp", MaxTTL,
                             icmp_msg("trace", "none", n)) EXCEPT !.opts = {opts}] IN
  Let(node_send(Aside(S), n, msg, {}), LAMBDA sent :
  Let(sim_run(sent), LAMBDA run :
     [node |-> n, status |-> IF sent.err # "ESUCCESS" THEN sent.err
                             ELSE IF run.err \in Fatal THEN run.err
                             ELSE (CHOOSE tr \in run.result : TRUE).status]))

bgp_domain_record_route(S, asn, dest) ==
  {_record_route_for_each(S, n, dest) : n \in S.domains[asn]}
=============================================================================
