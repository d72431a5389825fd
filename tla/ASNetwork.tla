------------------------------ MODULE ASNetwork ------------------------------
(***************************************************************************)
(* The network of an AS-level topology (bgp/aslevel/as-level.c): one       *)
(* router for each AS, a link and two sessions for each relationship, and  *)
(* the filters that follow from it.  The names that a topology gives to    *)
(* the routers (cli/common.c) and how they are completed (cli/enum.c).     *)
(*                                                                         *)
(* The state has two more fields here:                                     *)
(*   topo  {} or the topology of module ASLevel                            *)
(*   enum  the last router of the context bgp router, and the domain of    *)
(*         its AS, {} if there is none                                     *)
(***************************************************************************)
EXTENDS BGPTools, ASLevel

Topo(S) == The(S.topo)

(* An error of the topology, or an error without a topology. *)
Keep(S, r) ==
  IF r.crash # "" THEN Abort(S, r.crash) ELSE Return([S EXCEPT !.topo = {r.topo}], r.err)

WithTopo(S, Op(_)) ==
  IF S.topo = {} THEN Return(S, "ASLEVEL_ERROR_NO_TOPOLOGY") ELSE Keep(S, Op(Topo(S)))

AnyDangling(topo) == \E asn \in DOMAIN topo.domains : Dangling(topo, asn) # {}

-----------------------------------------------------------------------------
(* Addresses.  The upper half of an address is the ASN, or the lower one. *)

aslevel_addr_sch_default_get(asn) == (asn * 2^(W \div 2)) % 2^W

aslevel_addr_sch_local_get(asn) == asn % 2^W

addr_mapper(topo, asn) ==
  IF topo.mapper = "global" THEN aslevel_addr_sch_default_get(asn)
  ELSE aslevel_addr_sch_local_get(asn)

(* What AS<n> stands for.  The number of a node is not tested. *)
str2addr_id(S, asn) ==
  UNION {{addr_mapper(topo, a) : a \in str2asn(asn)} : topo \in S.topo}

str2node_id(S, asn) ==
  UNION {{addr_mapper(topo, asn_t(a)) : a \in asn} : topo \in S.topo} \cap DOMAIN S.net.nodes

-----------------------------------------------------------------------------
(* The filters of a session.  The communities remember where a route comes *)
(* from; the ones of siblings are left alone.                              *)

COMM_PROV == <<0, 1>>
COMM_PEER == <<0, 10>>

ASLEVEL_PREF == (PROVIDER :> 60) @@ (PEER :> 80) @@ (CUSTOMER :> 100)

Rules(actions) ==
  FoldLeft(LAMBDA f, a : filter_add_rule2(f, filter_rule_create(NULL, <<a>>)),
           filter_create, actions)

aslevel_filter_in(type) ==
  LET Pref == filter_action_pref_set(ASLEVEL_PREF[type])
  IN CASE type = CUSTOMER -> {Rules(<<Pref>>)}
       [] type = PROVIDER -> {Rules(<<filter_action_comm_append(COMM_PROV), Pref>>)}
       [] type = PEER -> {Rules(<<filter_action_comm_append(COMM_PEER), Pref>>)}
       [] OTHER -> NULL

(* Mutant: a peer is told what another peer has told. *)
PeersToldAll(type) ==
  LET Strip == Rules(<<filter_action_comm_remove(COMM_PROV),
                       filter_action_comm_remove(COMM_PEER)>>)
      Tagged == {filter_match_comm_contains(COMM_PROV)} IN
     CASE type = CUSTOMER -> {Strip}
       [] type \in {PROVIDER, PEER} ->
            {<<filter_rule_create(Tagged, <<filter_action_deny>>)>> \o Strip}
       [] OTHER -> NULL

aslevel_filter_out(type) ==
  LET Strip == Rules(<<filter_action_comm_remove(COMM_PROV),
                       filter_action_comm_remove(COMM_PEER)>>)
      Tagged == filter_match_or({filter_match_comm_contains(COMM_PROV)},
                                {filter_match_comm_contains(COMM_PEER)}).matcher IN
     CASE type = CUSTOMER -> {Strip}
       [] type \in {PROVIDER, PEER} ->
            {<<filter_rule_create(Tagged, <<filter_action_deny>>)>> \o Strip}
       [] OTHER -> NULL

bgp_router_peer_set_filter(S, n, a, dir, filter) ==
  IF bgp_router_find_peer(S, n, a) = {} THEN Return(S, "EBGP_PEER_UNKNOWN")
  ELSE Return(bgp_peer_set_filter(S, n, a, dir, filter), "ESUCCESS")

(* Every link, in the order of the domains and of their neighbors. *)
EachLink(S, topo, Op(_, _, _)) ==
  LET asns == Domains(topo)
      links == [k \in DOMAIN asns |->
                  [j \in DOMAIN Links(topo, asns[k]) |-> <<asns[k], Links(topo, asns[k])[j]>>]] IN
     FoldLeft(LAMBDA T, l : IF T.err # "ESUCCESS" \/ Crashed(T) THEN T ELSE Op(T, l[1], l[2]),
              Return(S, "ESUCCESS"), FlattenSeq(links))

Router(topo, asn) == The(topo.domains[asn].router)

aslevel_topo_setup_policies(S, topo) ==
  LET Policy(T, asn, m) ==
        LET n == Router(topo, asn)
            a == Router(topo, m)
            type == PeerType(topo, asn, m)
            in == bgp_router_peer_set_filter(T, n, a, "in", aslevel_filter_in(type)) IN
           Return(bgp_router_peer_set_filter(in, n, a, "out", aslevel_filter_out(type)),
                  "ESUCCESS")
  IN IF topo.state < INSTALLED THEN Return(S, "ASLEVEL_ERROR_NOT_INSTALLED")
     ELSE IF topo.state > POLICIES THEN Return(S, "ASLEVEL_ERROR_ALREADY_RUNNING")
     ELSE [EachLink(S, topo, Policy) EXCEPT !.topo = {[topo EXCEPT !.state = POLICIES]}]

-----------------------------------------------------------------------------
(* The network. *)

_aslevel_build_bgp_router(S, addr, asn) ==
  LET node == cli_net_add_node(S.net, addr, TRUE) IN
     IF addr \in DOMAIN S.net.nodes
     THEN Return(S, IF addr \in DOMAIN S.bgp THEN "ESUCCESS" ELSE "ASLEVEL_ERROR_UNEXPECTED")
     ELSE IF node.err # "ESUCCESS" THEN Return(S, "ASLEVEL_ERROR_UNEXPECTED")
     ELSE bgp_add_router([S EXCEPT !.net = node.net], asn, addr)

(* A link with a metric of 0, and a static route at each end. *)
_aslevel_build_link(S, n1, n2) ==
  Let(net_link_create_rtr(S.net, n1, n2, TRUE), LAMBDA link :
  Let(Then(Then(net_iface_set_metric(link.net, <<n1, n2>>, 0, TRUE),
                LAMBDA t : node_rt_add_route(t, n1, <<n2, W>>, n2, n2, 0, "static")),
           LAMBDA t : node_rt_add_route(t, n2, <<n1, W>>, n1, n1, 0, "static")), LAMBDA rest :
     IF link.err # "ESUCCESS" THEN Return([S EXCEPT !.net = link.net], link.err)
     ELSE IF rest.err # "ESUCCESS" THEN Abort(S, "as-level.c:862")
     ELSE Return([S EXCEPT !.net = rest.net], "ESUCCESS")))

_aslevel_build_bgp_session(S, n1, n2) == bgp_router_add_peer(S, n1, S.bgp[n2].asn, n2)

(* Whatever the error of a step, what is told is one and the same. *)
Unexpected(S) ==
  IF Crashed(S) \/ S.err = "ESUCCESS" THEN S ELSE Return(S, "ASLEVEL_ERROR_UNEXPECTED")

(* The link is made from its end with the lower ASN, each session at its   *)
(* own end.                                                                *)
aslevel_topo_build_network(S, topo) ==
  LET Addr(asn) == addr_mapper(topo, asn)
      Build(T, asn) == IF T.err # "ESUCCESS" THEN T
                       ELSE _aslevel_build_bgp_router(T, Addr(asn), asn) IN
  Let(Unexpected(FoldLeft(Build, Return(S, "ESUCCESS"), Domains(topo))), LAMBDA routers :
  LET Join(T, asn, m) ==
        Let(IF asn < m THEN _aslevel_build_link(T, Addr(asn), Addr(m)) ELSE T, LAMBDA linked :
           IF Crashed(linked) \/ linked.err # "ESUCCESS" THEN linked
           ELSE _aslevel_build_bgp_session(linked, Addr(asn), Addr(m))) IN
  Let(Unexpected(EachLink(routers, topo, Join)), LAMBDA joined :
  LET Placed(state) == {[topo EXCEPT !.state = state,
                                     !.domains = [asn \in DOMAIN @ |->
                                                    [@[asn] EXCEPT !.router = {Addr(asn)}]]]} IN
     IF topo.state # LOADED THEN Return(S, "ASLEVEL_ERROR_ALREADY_INSTALLED")
     ELSE IF \E asn \in DOMAIN topo.domains : Addr(asn) \in DOMAIN S.net.nodes
       THEN Return(S, "ASLEVEL_ERROR_NODE_EXISTS")
     ELSE IF AnyDangling(topo) THEN Abort(S, "UNDEFINED")
     ELSE IF Crashed(routers) \/ routers.err # "ESUCCESS" THEN routers
     ELSE IF Crashed(joined) \/ joined.err # "ESUCCESS"
       THEN [joined EXCEPT !.topo = Placed(LOADED)]
     ELSE [joined EXCEPT !.topo = Placed(INSTALLED)]))

-----------------------------------------------------------------------------
(* The operations on the topology.  A topology that is read but not        *)
(* consistent is kept.                                                     *)

aslevel_topo_load(S, lines, format, scheme) ==
  LET new == aslevel_topo_create(scheme) IN
  Let(CASE format = "rexford" -> rexford_parser(new, The(lines))
        [] format = "caida" -> caida_parser(new, The(lines))
        [] format = "meulle" -> meulle_parser(new, The(lines)), LAMBDA r :
     IF S.topo # {} THEN Return(S, "ASLEVEL_ERROR_TOPOLOGY_LOADED")
     ELSE IF lines = {} THEN Return(S, "ASLEVEL_ERROR_OPEN")
     ELSE IF r.err # "ASLEVEL_SUCCESS" THEN Return(S, r.err)
     ELSE Return([S EXCEPT !.topo = {r.topo}], aslevel_topo_check_consistency(r.topo)))

aslevel_topo_install(S) ==
  IF S.topo = {} THEN Return(S, "ASLEVEL_ERROR_NO_TOPOLOGY")
  ELSE aslevel_topo_build_network(S, Topo(S))

aslevel_topo_policies(S) ==
  IF S.topo = {} THEN Return(S, "ASLEVEL_ERROR_NO_TOPOLOGY")
  ELSE aslevel_topo_setup_policies(S, Topo(S))

(* The sessions of the routers that were started before an error stay up. *)
aslevel_topo_run(S) ==
  Let(Unexpected(FoldLeft(
        LAMBDA T, asn : IF Crashed(T) \/ T.err # "ESUCCESS" THEN T
                        ELSE bgp_router_start(T, Router(Topo(S), asn)),
        Return(S, "ESUCCESS"), Domains(Topo(S)))), LAMBDA started :
     IF S.topo = {} THEN Return(S, "ASLEVEL_ERROR_NO_TOPOLOGY")
     ELSE IF Topo(S).state < INSTALLED THEN Return(S, "ASLEVEL_ERROR_NOT_INSTALLED")
     ELSE IF Crashed(started) \/ started.err # "ESUCCESS" THEN started
     ELSE [started EXCEPT !.topo = {[Topo(S) EXCEPT !.state = RUNNING]}])

aslevel_topo_record_route(S, prefix, options) ==
  [k \in DOMAIN Domains(Topo(S)) |->
     LET n == Router(Topo(S), Domains(Topo(S))[k]) IN
        <<n, bgp_record_route(S, n, prefix, options)>>]

-----------------------------------------------------------------------------
(* Completion.  A text is what was typed of a number: [as, digits], as if  *)
(* "AS" comes first.  An address is taken for a number.                    *)

RECURSIVE Decimal(_)
Decimal(n) == IF n < 10 THEN <<n>> ELSE Append(Decimal(n \div 10), n % 10)

Completes(text, n) == IsPrefix(text.digits, Decimal(n))

(* The router is only remembered together with its domain, and the domain  *)
(* is forgotten at the end of the context: it is not looked up again for   *)
(* the same router.                                                        *)
cli_enum_ctx_bgp_router(S, router) ==
  Let(aslevel_topo_get_as(Topo(S), S.bgp[The(router)].asn), LAMBDA r :
     IF router = S.enum.router THEN S
     ELSE IF router = {} \/ S.topo = {} THEN [S EXCEPT !.enum.as = {}]
     ELSE IF r.crash # "" THEN Abort(S, r.crash)
     ELSE [S EXCEPT !.topo = {r.topo}, !.enum = [router |-> router, as |-> r.found]])

cli_enum_net_nodes(S, text) ==
  SelectSeq(Sorted(DOMAIN S.net.nodes), LAMBDA n : Completes(text, n))

cli_enum_as_level_domains(S, text) ==
  IF S.topo = {} THEN <<>>
  ELSE SelectSeq(Domains(Topo(S)), LAMBDA asn : Completes(text, asn))

cli_enum_aslevel_domains_addr(S, text) ==
  SelectSeq(cli_enum_as_level_domains(S, text),
            LAMBDA asn : Topo(S).domains[asn].router # {})

(* The index is increased twice: only every second link is considered. *)
cli_enum_aslevel_links(S, text) ==
  LET links == Links(Topo(S), The(S.enum.as))
      second == [k \in 1 .. (Len(links) + 1) \div 2 |-> links[2 * k - 1]] IN
     IF S.enum.as = {} THEN <<>> ELSE SelectSeq(second, LAMBDA asn : Completes(text, asn))

cli_enum_bgp_peers_addr(S, text) ==
  IF S.enum.router = {} THEN <<>>
  ELSE SelectSeq(PeersInOrder(S, The(S.enum.router)), LAMBDA a : Completes(text, a))

cli_enum_net_nodes_addr_id(S, text) ==
  IF text.as THEN cli_enum_aslevel_domains_addr(S, text) ELSE cli_enum_net_nodes(S, text)

cli_enum_bgp_routers_addr_id(S, text) ==
  IF text.as THEN cli_enum_aslevel_domains_addr(S, text)
  ELSE SelectSeq(cli_enum_net_nodes(S, text), LAMBDA n : n \in DOMAIN S.bgp)

(* A link has no peer before the topology is installed. *)
cli_enum_bgp_peers_addr_id(S, text) ==
  IF ~text.as THEN [names |-> cli_enum_bgp_peers_addr(S, text), crash |-> ""]
  ELSE [names |-> cli_enum_aslevel_links(S, text),
        crash |-> IF /\ S.topo # {} /\ Topo(S).state = LOADED
                     /\ cli_enum_aslevel_links(S, text) # <<>>
                  THEN "UNDEFINED" ELSE ""]
=============================================================================
