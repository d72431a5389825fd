----------------------------- MODULE BGPCommands -----------------------------
(***************************************************************************)
(* The commands on BGP (cli/bgp.c, cli/bgp_router_peer.c) and on AS-level  *)
(* topologies (cli/bgp_topology.c), on top of the commands on the network  *)
(* of module NetFiles.                                                     *)
(*                                                                         *)
(* A command is a tuple: its words, then its arguments.  An argument that  *)
(* must be parsed is a set, empty if it cannot be.  The arguments of the   *)
(* contexts (the AS, the router, the peer, the direction of a filter) are  *)
(* given with every command; the context of a rule of a filter is the one  *)
(* that is kept from one command to the next.                              *)
(*                                                                         *)
(* The state has two more fields here:                                     *)
(*   out  {} or what the last command has shown                            *)
(*   ctx  {} or the rule of the context: its filter, its place in it, the  *)
(*        commands that the context knows                                  *)
(***************************************************************************)
EXTENDS ASNetwork

CONSTANT Files           \* the content of each file, {} if there is none

Failed(S) == Return(S, "CLI_ERROR_COMMAND_FAILED")

(* Any error of the program is one error of the command. *)
Result(S) == IF Crashed(S) \/ S.err = "ESUCCESS" THEN S ELSE Failed(S)

Success(S) == Return(S, "ESUCCESS")

Say(S, what) == Success([S EXCEPT !.out = {what}])

-----------------------------------------------------------------------------
(* bgp *)

cli_bgp_add_router(S, asn, node) ==
  IF asn = {} \/ node \notin DOMAIN S.net.nodes THEN Failed(S)
  ELSE Result(bgp_add_router(S, The(asn), node))

cli_bgp_assert_peerings(S) ==
  Let(bgp_assert_peerings(S), LAMBDA r :
     IF Crashed(r.S) THEN r.S ELSE IF r.result # 0 THEN Failed(r.S) ELSE Success(r.S))

cli_bgp_assert_reachability(S) ==
  CASE bgp_assert_reachability(S) = 0 -> Success(S)
    [] bgp_assert_reachability(S) = -1 -> Failed(S)
    [] OTHER -> Abort(S, "never")

(* The routers of the network, not the ones of the domains. *)
cli_enum_bgp_routers(S) == Sorted(DOMAIN S.bgp)

cli_bgp_clearrib(S) ==
  Success(FoldLeft(bgp_router_clear_rib, S, cli_enum_bgp_routers(S)))

cli_bgp_clearadjrib(S) ==
  Success(FoldLeft(bgp_router_clear_adj_rib, S, cli_enum_bgp_routers(S)))

cli_bgp_show_routers(S) == Say(S, <<"routers", cli_enum_bgp_routers(S)>>)

cli_bgp_show_sessions(S) ==
  Say(S, <<"sessions", {<<n, a, Peer(S, n, a).send, Peer(S, n, a).recv>> :
                          <<n, a>> \in UNION {{<<n, a>> : a \in DOMAIN S.bgp[n].peers} :
                                                n \in DOMAIN S.bgp}}>>)

cli_bgp_options_autocreate(S, arg) ==
  CASE arg = "on" -> Success(bgp_options_flag_set(S, "auto-create"))
    [] arg = "off" -> Success(bgp_options_flag_reset(S, "auto-create"))
    [] OTHER -> Failed(S)

(* A mode that is not known is a format. *)
cli_bgp_options_showmode(S, str, format) ==
  Success(route_set_show_mode(S, IF route_str2mode(str) \in {{"cisco"}, {"mrt"}}
                                 THEN <<The(route_str2mode(str))>>
                                 ELSE <<"custom", format>>))

cli_bgp_options_med(S, str) ==
  IF dp_rules_str2med_type(str) = {} THEN Failed(S)
  ELSE Success(dp_rules_options_set_med_type(S, str))

cli_bgp_options_localpref(S, pref) ==
  IF pref = {} THEN Failed(S) ELSE Success(bgp_options_set_local_pref(S, The(pref)))

cli_bgp_options_msgmonitor(S, file) ==
  Success(IF file = "-" THEN bgp_msg_monitor_close(S) ELSE bgp_msg_monitor_open(S))

-----------------------------------------------------------------------------
(* bgp domain.  What full-mesh and rescan return is ignored. *)

cli_ctx_create_bgp_domain(S, asn) == {x \in asn : exists_bgp_domain(S, x)}

cli_bgp_domain_full_mesh(S, asn) == Done(bgp_domain_full_mesh(S, asn))

cli_bgp_domain_rescan(S, asn) == Done(bgp_domain_rescan(S, asn))

cli_bgp_domain_recordroute(S, asn, dest) ==
  IF dest = {} \/ \E d \in dest : d.type \notin {"address", "prefix"} THEN Failed(S)
  ELSE Say(S, <<"record-route", bgp_domain_record_route(S, asn, The(dest))>>)

-----------------------------------------------------------------------------
(* bgp router *)

cli_ctx_create_bgp_router(S, node) == node \cap DOMAIN S.bgp

cli_bgp_router_add_peer(S, n, asn, addr) ==
  IF asn = {} \/ addr = {} THEN Failed(S)
  ELSE Result(bgp_router_add_peer(S, n, The(asn), The(addr)))

cli_bgp_router_add_network(S, n, prefix) ==
  IF prefix = {} THEN Failed(S) ELSE Result(bgp_router_add_network(S, n, The(prefix)))

cli_bgp_router_del_network(S, n, prefix) ==
  IF prefix = {} THEN Failed(S) ELSE Result(bgp_router_del_network(S, n, The(prefix)))

cli_bgp_router_set_clusterid(S, n, id) ==
  IF id = {} THEN Failed(S)
  ELSE Success([S EXCEPT !.bgp[n].cluster_id = The(id), !.bgp[n].reflector = TRUE])

cli_bgp_router_debug_dp(S, n, prefix) ==
  Let(bgp_debug_dp(S, n, The(prefix)), LAMBDA d :
     IF prefix = {} THEN Failed(S)
     ELSE IF d.crash # "" THEN Abort(S, d.crash)
     ELSE Say(S, <<"debug", n, d>>))

cli_bgp_router_load_rib(S, n, file, format, options) ==
  IF bgp_routes_str2format(format) = {} THEN Failed(S)
  ELSE Result(bgp_router_load_rib(S, n, Files[file], format, options))

cli_bgp_router_rescan(S, n) == Result(bgp_router_scan_rib(S, n))

(* prefix is <<0, 0>> for an asterisk. *)
cli_bgp_router_rerun(S, n, prefix) ==
  IF prefix = {} THEN Failed(S) ELSE Result(bgp_router_rerun(S, n, The(prefix)))

cli_bgp_router_reset(S, n) == Result(bgp_router_reset(S, n))

cli_bgp_router_start(S, n) == Result(bgp_router_start(S, n))

cli_bgp_router_stop(S, n) == Result(bgp_router_stop(S, n))

cli_bgp_router_recordroute(S, n, prefix, options) ==
  LET r == bgp_record_route(S, n, The(prefix), options) IN
     IF prefix = {} THEN Failed(S)
     ELSE IF r.result = "NEVER" THEN Abort(S, "never")
     ELSE Say(S, <<"path", n, The(prefix), options, r>>)

cli_bgp_router_show_info(S, n) == Say(S, <<"router", bgp_router_info(S.bgp[n])>>)

cli_bgp_router_show_networks(S, n) == Say(S, <<"networks", bgp_router_dump_networks(S, n)>>)

cli_bgp_router_show_peers(S, n) == Say(S, <<"peers", bgp_router_dump_peers(S, n)>>)

cli_bgp_router_show_rib(S, n, dest) ==
  CASE dest = {} -> Failed(S)
    [] \E d \in dest : d.type = "any" -> Say(S, <<"rib", n, bgp_router_dump_rib(S, n)>>)
    [] \E d \in dest : d.type = "prefix" ->
         Say(S, <<"rib", n, bgp_router_dump_rib_prefix(S, n, The(dest).prefix)>>)
    [] \E d \in dest : d.type = "address" ->
         Say(S, <<"rib", n, bgp_router_dump_rib_address(S, n, The(dest).prefix[1])>>)

(* peer is a set, the empty one for an asterisk; an address is a prefix of *)
(* 32 bits, and an asterisk one of 0 bits.                                 *)
cli_bgp_router_show_adjrib(S, n, dir, peer, prefix) ==
  IF \/ dir \notin {"in", "out"} \/ prefix = {}
     \/ \E a \in peer : bgp_router_find_peer(S, n, a) = {}
    THEN Failed(S)
  ELSE Say(S, <<"adj-rib", n,
                bgp_router_dump_adjrib(S, n, IF peer = {} THEN DOMAIN S.bgp[n].peers ELSE peer,
                                       The(prefix), dir)>>)

cli_bgp_router_show_routeinfo(S, n, dest) ==
  LET r == bgp_router_show_routes_info(S, n, The(dest)) IN
     IF dest = {} THEN Failed(S) ELSE Say(r.S, <<"route-info", n, r.infos>>)

cli_bgp_router_show_stats(S, n) == Say(S, <<"stats", n, bgp_router_show_stats(S, n)>>)

(* bgp router assert routes: what the context holds, as [S, routes].  The  *)
(* predicate is tested without a router.                                   *)
cli_ctx_create_bgp_router_assert_routes(S, n, prefix, type) ==
  LET f == bgp_router_get_feasible_routes(S, n, The(prefix)) IN
     CASE prefix = {} -> [S |-> S, routes |-> {}]
       [] type = "best" -> [S |-> S, routes |-> bgp_router_get_best_routes(S, n, The(prefix))]
       [] type = "feasible" ->
            [S |-> f.S, routes |-> UNION {rib_find_exact(Peer(f.S, n, a).rib.in, The(prefix)) :
                                            a \in f.routes}]
       [] OTHER -> [S |-> S, routes |-> {}]

cli_bgp_router_assert_routes_match(S, routes, tokens) ==
  Let(predicate_parser(tokens, S.regexes), LAMBDA p :
  LET env == [maps |-> S.maps, regexes |-> p.regexes, router |-> {}]
      met == {filter_matcher_apply(env, p.left, r) : r \in routes}
      T == [S EXCEPT !.regexes = p.regexes] IN
     IF p.error = "crash" THEN Abort(S, "predicate_parser.c")
     ELSE IF p.error # "END" THEN Failed(T)
     ELSE IF {} \in met THEN Abort(T, "path.c:511")
     ELSE IF {TRUE} \notin met THEN Failed(T)
     ELSE Success(T))

cli_bgp_router_assert_routes_show(S, n, routes) ==
  Say(S, <<"routes", n, ShownAll(S, n, routes)>>)

-----------------------------------------------------------------------------
(* bgp router peer *)

cli_ctx_create_peer(S, n, addr) == UNION {bgp_router_find_peer(S, n, a) : a \in addr}

cli_ctx_create_peer_filter(dir) == {dir} \cap {"in", "out"}

cli_peer_show_info(S, n, a) == Say(S, <<"peer", n, bgp_peer_show_info(Peer(S, n, a))>>)

cli_peer_rrclient(S, n, a) ==
  Success(bgp_peer_flag_set([S EXCEPT !.bgp[n].reflector = TRUE], n, a, "rr-client", TRUE))

cli_peer_nexthop(S, n, a, next_hop) ==
  IF next_hop = {} THEN Failed(S) ELSE Result(bgp_peer_set_nexthop(S, n, a, The(next_hop)))

cli_peer_nexthopself(S, n, a) ==
  Success(bgp_peer_flag_set(S, n, a, "next-hop-self", TRUE))

cli_peer_record(S, n, a, file) ==
  Success(bgp_peer_set_record_stream(S, n, a, IF file = "-" THEN {} ELSE {<<>>}))

(* The record of a table dump makes no message, and what there is instead  *)
(* is dereferenced.                                                        *)
cli_peer_recv(S, n, a, rec) ==
  Let(mrtd_msg_from_line(S.mem, rec, Peer(S, n, a).asn, a), LAMBDA r :
  LET read == [S EXCEPT !.mem = r.m] IN
     IF "virtual" \notin Peer(S, n, a).flags THEN Failed(S)
     ELSE IF r.error # "SUCCESS" THEN Failed(read)
     ELSE IF Crashed(read) THEN read
     ELSE IF r.msg = {} THEN Abort(read, "peer.c:1037")
     ELSE Done(Call(read, <<"message", n, a, The(r.msg)>>)))

cli_peer_up(S, n, a) == Result(Call(S, <<"open", n, a>>))

cli_peer_down(S, n, a) == Result(Call(S, <<"close", n, a>>))

cli_peer_update_source(S, n, a, src) ==
  IF src = {} THEN Failed(S) ELSE Success(bgp_peer_set_source(S, n, a, The(src)))

cli_peer_softrestart(S, n, a) ==
  IF "virtual" \notin Peer(S, n, a).flags THEN Failed(S)
  ELSE Success(bgp_peer_flag_set(S, n, a, "soft-restart", TRUE))

cli_peer_virtual(S, n, a) == Success(bgp_peer_flag_set(S, n, a, "virtual", TRUE))

cli_peer_reset(S, n, a) ==
  LET closed == Call(S, <<"close", n, a>>) IN
     IF closed.err # "ESUCCESS" \/ Crashed(closed) THEN Result(closed)
     ELSE Result(Call(closed, <<"open", n, a>>))

-----------------------------------------------------------------------------
(* Filters: where is <<"map", name>>, or <<"in", n, a>> and <<"out", n, a>> *)
(* for the filters of a peer.                                              *)

FilterAt(S, where) ==
  IF where[1] = "map" THEN {S.maps[where[2]]}
  ELSE Peer(S, where[2], where[3]).filter[where[1]]

PutFilter(S, where, filter) ==
  IF where[1] = "map" THEN [S EXCEPT !.maps[where[2]] = The(filter)]
  ELSE bgp_peer_set_filter(S, where[2], where[3], where[1], filter)

(* The commands of a filter; to enter the context of a rule is to leave    *)
(* the one before.                                                         *)
FilterCommand(S, where, command, index) ==
  LET filter == FilterAt(S, where)
      known == IF where[1] = "map" THEN _register_bgp_route_map ELSE _register_peer_filter
      r == CASE command = "add-rule" -> cli_ctx_create_bgp_filter_add_rule(filter)
             [] command = "insert-rule" -> cli_ctx_create_bgp_filter_insert_rule(filter, index)
             [] command = "remove-rule" -> cli_bgp_filter_remove_rule(filter, index) IN
     IF command \notin DOMAIN known THEN Failed(S)
     ELSE IF command = "show" THEN Say(S, <<"filter", where, cli_bgp_filter_show(filter)>>)
     ELSE IF ~r.ok THEN Failed(S)
     ELSE Success([PutFilter(S, where, r.filter) EXCEPT
                     !.ctx = {[where |-> where, rule |-> r.rule, commands |-> known[command]]}])

(* match and action are commands of the context of a rule. *)
RuleCommand(S, command, arg) ==
  LET ctx == The(S.ctx)
      rules == The(FilterAt(S, ctx.where)) IN
  Let(cli_bgp_filter_rule_match(rules, ctx.rule, arg, S.regexes), LAMBDA m :
  LET acts == cli_bgp_filter_rule_action(rules, ctx.rule, arg, S.maps) IN
     IF S.ctx = {} \/ command \notin UNION {x.commands : x \in S.ctx} THEN Failed(S)
     ELSE IF command = "match"
       THEN LET T == PutFilter([S EXCEPT !.regexes = m.regexes], ctx.where, {m.rules}) IN
               IF m.crash THEN Abort(S, "predicate_parser.c")
               ELSE IF m.ok THEN Success(T) ELSE Failed(T)
     ELSE IF acts = {} THEN Failed(S)
     ELSE Success(PutFilter(S, ctx.where, acts)))

(* A route-map can be written to as long as its context is not left: there *)
(* is no way back into it.                                                 *)
RouteMap(S, name) ==
  LET maps == cli_ctx_create_bgp_route_map(S.maps, name)
  IN IF maps = {} THEN Return(S, "CLI_ERROR_CTX_CREATE")
     ELSE Success([S EXCEPT !.maps = The(maps),
                            !.ctx = {[where |-> <<"map", name>>, rule |-> 0, commands |-> {}]}])

MapRule(S) ==
  IF \E x \in S.ctx : x.where[1] = "map"
    THEN FilterCommand(S, The(S.ctx).where, "add-rule", {})
  ELSE Failed(S)

-----------------------------------------------------------------------------
(* The commands that are registered, by their words: w is what follows the *)
(* words that lead to the group.  A context that cannot be created is an   *)
(* error of its own.                                                       *)

NoCommand(S) == Return(S, "CLI_ERROR_UNKNOWN_COMMAND")

NoContext(S) == Return(S, "CLI_ERROR_CTX_CREATE")

_register_bgp_add(S, w) ==
  IF w[1] = "router" THEN cli_bgp_add_router(S, w[2], w[3]) ELSE NoCommand(S)

_register_bgp_assert(S, w) ==
  CASE w[1] = "peerings-ok" -> cli_bgp_assert_peerings(S)
    [] w[1] = "reachability-ok" -> cli_bgp_assert_reachability(S)
    [] OTHER -> NoCommand(S)

_register_bgp_domain(S, asn, w) ==
  CASE w[1] = "full-mesh" -> cli_bgp_domain_full_mesh(S, asn)
    [] w[1] = "rescan" -> cli_bgp_domain_rescan(S, asn)
    [] w[1] = "record-route" -> cli_bgp_domain_recordroute(S, asn, w[2])
    [] OTHER -> NoCommand(S)

_register_bgp_options(S, w) ==
  CASE w[1] = "auto-create" -> cli_bgp_options_autocreate(S, w[2])
    [] w[1] = "med" -> cli_bgp_options_med(S, w[2])
    [] w[1] = "local-pref" -> cli_bgp_options_localpref(S, w[2])
    [] w[1] = "msg-monitor" -> cli_bgp_options_msgmonitor(S, w[2])
    [] w[1] = "show-mode" -> cli_bgp_options_showmode(S, w[2], w[3])
    [] OTHER -> NoCommand(S)

_register_bgp_show(S, w) ==
  CASE w[1] = "route-maps" -> Say(S, <<"route-maps", cli_bgp_show_route_maps(S.maps)>>)
    [] w[1] = "routers" -> cli_bgp_show_routers(S)
    [] w[1] = "sessions" -> cli_bgp_show_sessions(S)
    [] OTHER -> NoCommand(S)

_register_bgp_router_add(S, n, w) ==
  CASE w[1] = "peer" -> cli_bgp_router_add_peer(S, n, w[2], w[3])
    [] w[1] = "network" -> cli_bgp_router_add_network(S, n, w[2])
    [] OTHER -> NoCommand(S)

(* w is <<"routes", prefix, type, command, predicate>>. *)
_register_bgp_router_assert(S, n, w) ==
  Let(cli_ctx_create_bgp_router_assert_routes(S, n, w[2], w[3]), LAMBDA ctx :
     IF ctx.routes = {} THEN Failed(ctx.S)
     ELSE CASE w[4] = "match" -> cli_bgp_router_assert_routes_match(ctx.S, ctx.routes, w[5])
            [] w[4] = "show" -> cli_bgp_router_assert_routes_show(ctx.S, n, ctx.routes)
            [] OTHER -> NoCommand(ctx.S))

_register_bgp_router_debug(S, n, w) ==
  IF w[1] = "dp" THEN cli_bgp_router_debug_dp(S, n, w[2]) ELSE NoCommand(S)

_register_bgp_router_del(S, n, w) ==
  IF w[1] = "network" THEN cli_bgp_router_del_network(S, n, w[2]) ELSE NoCommand(S)

_register_bgp_router_load(S, n, w) ==
  IF w[1] = "rib" THEN cli_bgp_router_load_rib(S, n, w[2], w[3], w[4]) ELSE NoCommand(S)

_register_bgp_router_set(S, n, w) ==
  IF w[1] = "cluster-id" THEN cli_bgp_router_set_clusterid(S, n, w[2]) ELSE NoCommand(S)

_register_bgp_router_show(S, n, w) ==
  CASE w[1] = "info" -> cli_bgp_router_show_info(S, n)
    [] w[1] = "networks" -> cli_bgp_router_show_networks(S, n)
    [] w[1] = "peers" -> cli_bgp_router_show_peers(S, n)
    [] w[1] = "adj-rib" -> cli_bgp_router_show_adjrib(S, n, w[2], w[3], w[4])
    [] w[1] = "rib" -> cli_bgp_router_show_rib(S, n, w[2])
    [] w[1] = "route-info" -> cli_bgp_router_show_routeinfo(S, n, w[2])
    [] w[1] = "stats" -> cli_bgp_router_show_stats(S, n)
    [] OTHER -> NoCommand(S)

_register_peer_show(S, n, a, w) ==
  IF w[1] = "info" THEN cli_peer_show_info(S, n, a) ELSE NoCommand(S)

cli_register_bgp_router_peer(S, n, a, w) ==
  CASE w[1] = "filter" -> IF cli_ctx_create_peer_filter(w[2]) = {} THEN NoContext(S)
                          ELSE FilterCommand(S, <<w[2], n, a>>, w[3], w[4])
    [] w[1] = "show" -> _register_peer_show(S, n, a, Tail(w))
    [] w[1] = "down" -> cli_peer_down(S, n, a)
    [] w[1] = "next-hop" -> cli_peer_nexthop(S, n, a, w[2])
    [] w[1] = "next-hop-self" -> cli_peer_nexthopself(S, n, a)
    [] w[1] = "record" -> cli_peer_record(S, n, a, w[2])
    [] w[1] = "recv" -> cli_peer_recv(S, n, a, w[2])
    [] w[1] = "reset" -> cli_peer_reset(S, n, a)
    [] w[1] = "rr-client" -> cli_peer_rrclient(S, n, a)
    [] w[1] = "soft-restart" -> cli_peer_softrestart(S, n, a)
    [] w[1] = "up" -> cli_peer_up(S, n, a)
    [] w[1] = "update-source" -> cli_peer_update_source(S, n, a, w[2])
    [] w[1] = "virtual" -> cli_peer_virtual(S, n, a)
    [] OTHER -> NoCommand(S)

InPeer(S, n, addr, w) ==
  IF cli_ctx_create_peer(S, n, addr) = {} THEN NoContext(S)
  ELSE cli_register_bgp_router_peer(S, n, The(addr), w)

(* The names that the user is offered for what they have typed. *)
Complete(S, r) ==
  IF r.crash # "" THEN Abort(S, r.crash) ELSE Say(S, <<"names", r.names>>)

_register_bgp_router(S, n, w) ==
  CASE w[1] = "add" -> _register_bgp_router_add(S, n, Tail(w))
    [] w[1] = "assert" -> _register_bgp_router_assert(S, n, Tail(w))
    [] w[1] = "debug" -> _register_bgp_router_debug(S, n, Tail(w))
    [] w[1] = "del" -> _register_bgp_router_del(S, n, Tail(w))
    [] w[1] \in {"peer", "peer AS"} ->
         InPeer(S, n, IF w[1] = "peer" THEN w[2] ELSE str2addr_id(S, w[2]), Tail(Tail(w)))
    [] w[1] = "complete" -> Complete(S, cli_enum_bgp_peers_addr_id(S, w[2]))
    [] w[1] = "load" -> _register_bgp_router_load(S, n, Tail(w))
    [] w[1] = "set" -> _register_bgp_router_set(S, n, Tail(w))
    [] w[1] = "show" -> _register_bgp_router_show(S, n, Tail(w))
    [] w[1] = "record-route" -> cli_bgp_router_recordroute(S, n, w[2], w[3])
    [] w[1] = "rerun" -> cli_bgp_router_rerun(S, n, w[2])
    [] w[1] = "rescan" -> cli_bgp_router_rescan(S, n)
    [] w[1] = "reset" -> cli_bgp_router_reset(S, n)
    [] w[1] = "start" -> cli_bgp_router_start(S, n)
    [] w[1] = "stop" -> cli_bgp_router_stop(S, n)
    [] OTHER -> NoCommand(S)

cli_ctx_destroy_bgp_router(S) == cli_enum_ctx_bgp_router(S, {})

(* The command is run in the context of the router. *)
InRouter(S, node, w) ==
  LET router == cli_ctx_create_bgp_router(S, node)
      in == cli_enum_ctx_bgp_router(S, router) IN
  Let(_register_bgp_router(in, The(router), w), LAMBDA done :
     IF router = {} THEN NoContext(S)
     ELSE IF Crashed(in) THEN in
     ELSE IF Crashed(done) THEN done
     ELSE cli_ctx_destroy_bgp_router(done))

-----------------------------------------------------------------------------
(* bgp topology *)

TopoResult(S) == IF Crashed(S) THEN S
                 ELSE IF S.err \in {"ESUCCESS", "ASLEVEL_SUCCESS"} THEN Success(S) ELSE Failed(S)

cli_bgp_topology_load(S, file, scheme, format) ==
  IF aslevel_str2addr_sch(scheme) = {} \/ aslevel_topo_str2format(format) = {} THEN Failed(S)
  ELSE TopoResult(aslevel_topo_load(S, Files[file], The(aslevel_topo_str2format(format)),
                                    The(aslevel_str2addr_sch(scheme))))

cli_bgp_topology_check(S) == TopoResult(WithTopo(S, aslevel_topo_check))

cli_bgp_topology_filter_asn(S, asn) ==
  IF str2asn(asn) = {} THEN Failed(S)
  ELSE TopoResult(WithTopo(S, LAMBDA topo : aslevel_topo_filter_as(topo, The(str2asn(asn)))))

cli_bgp_topology_filter_group(S, what) ==
  IF aslevel_filter_str2filter(what) = {} THEN Failed(S)
  ELSE TopoResult(WithTopo(S, LAMBDA topo : aslevel_topo_filter_group(topo, what)))

cli_bgp_topology_policies(S) == TopoResult(aslevel_topo_policies(S))

cli_bgp_topology_install(S) == TopoResult(aslevel_topo_install(S))

cli_bgp_topology_run(S) == TopoResult(aslevel_topo_run(S))

cli_bgp_topology_info(S) ==
  IF S.topo = {} THEN Failed(S) ELSE Say(S, <<"topology", aslevel_topo_info(Topo(S))>>)

(* Every route is followed, as in bgp router X record-route. *)
cli_bgp_topology_recordroute(S, prefix, options) ==
  LET paths == aslevel_topo_record_route(S, The(prefix), options) IN
     IF prefix = {} \/ S.topo = {} THEN Failed(S)
     ELSE IF Topo(S).state < INSTALLED THEN Failed(S)
     ELSE IF \E k \in DOMAIN paths : paths[k][2].result = "NEVER" THEN Abort(S, "never")
     ELSE Say(S, <<"paths", The(prefix), options, paths>>)

cli_bgp_topology_dump(S, format, verbose) ==
  IF S.topo = {} THEN Failed(S)
  ELSE IF AnyDangling(Topo(S)) THEN Abort(S, "UNDEFINED")
  ELSE IF format = "graphviz" THEN Say(S, <<"graph", aslevel_topo_dump_graphviz(Topo(S))>>)
  ELSE Say(S, <<"links", aslevel_topo_dump(Topo(S), verbose)>>)

cli_bgp_topology_stat(S) ==
  IF S.topo = {} THEN Failed(S) ELSE Say(S, <<"degrees", aslevel_stat_degree(Topo(S))>>)

_cli_register_bgp_topology_filter(S, w) ==
  CASE w[1] = "asn" -> cli_bgp_topology_filter_asn(S, w[2])
    [] w[1] = "group" -> cli_bgp_topology_filter_group(S, w[2])
    [] OTHER -> NoCommand(S)

cli_register_bgp_topology(S, w) ==
  CASE w[1] = "load" -> cli_bgp_topology_load(S, w[2], w[3], w[4])
    [] w[1] = "check" -> cli_bgp_topology_check(S)
    [] w[1] = "dump" -> cli_bgp_topology_dump(S, w[2], w[3])
    [] w[1] = "filter" -> _cli_register_bgp_topology_filter(S, Tail(w))
    [] w[1] = "info" -> cli_bgp_topology_info(S)
    [] w[1] = "install" -> cli_bgp_topology_install(S)
    [] w[1] = "policies" -> cli_bgp_topology_policies(S)
    [] w[1] = "stat-degree" -> cli_bgp_topology_stat(S)
    [] w[1] = "record-route" -> cli_bgp_topology_recordroute(S, w[2], w[3])
    [] w[1] = "run" -> cli_bgp_topology_run(S)
    [] OTHER -> NoCommand(S)

cli_register_bgp(S, w) ==
  CASE w[1] = "route-map" -> RouteMap(S, w[2])
    [] w[1] = "add" -> _register_bgp_add(S, Tail(w))
    [] w[1] = "assert" -> _register_bgp_assert(S, Tail(w))
    [] w[1] = "domain" -> IF cli_ctx_create_bgp_domain(S, w[2]) = {} THEN NoContext(S)
                          ELSE _register_bgp_domain(S, The(w[2]), Tail(Tail(w)))
    [] w[1] = "options" -> _register_bgp_options(S, Tail(w))
    [] w[1] \in {"router", "router AS"} ->
         InRouter(S, IF w[1] = "router" THEN w[2] ELSE str2node_id(S, w[2]), Tail(Tail(w)))
    [] w[1] = "topology" -> cli_register_bgp_topology(S, Tail(w))
    [] w[1] = "complete" -> Complete(S, [names |-> cli_enum_bgp_routers_addr_id(S, w[2]),
                                         crash |-> ""])
    [] w[1] = "show" -> _register_bgp_show(S, Tail(w))
    [] w[1] = "clear-rib" -> cli_bgp_clearrib(S)
    [] w[1] = "clear-adj-rib" -> cli_bgp_clearadjrib(S)
    [] OTHER -> NoCommand(S)
=============================================================================
