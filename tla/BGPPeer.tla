------------------------------- MODULE BGPPeer -------------------------------
(***************************************************************************)
(* The sessions of a BGP router (bgp/peer.c): their states, the messages   *)
(* they receive and the routes these bring.  A session is tested with a    *)
(* ping, for which the program runs a simulator of its own until nothing   *)
(* is left to do.                                                          *)
(***************************************************************************)
EXTENDS BGPDecision

-----------------------------------------------------------------------------
(* A run of a simulator: the first error ends it. *)
RECURSIVE sim_run(_)
sim_run(S) ==
  IF S.queue = <<>> \/ S.err # "ESUCCESS" THEN S
  ELSE sim_run(_network_send_callback(S))

(* The messages that wait in the simulator of the network are not touched. *)
Aside(S) == Return([S EXCEPT !.queue = <<>>, !.rcvd = {}, !.result = {}], "ESUCCESS")

(* Is the peer reachable?  As [S, ok]: the program may not survive the     *)
(* test, and otherwise only the answer remains of it.                      *)
Probe(n, a, type, opts) ==
  [message_create(ANY, a, "icmp", MaxTTL, icmp_msg(type, "none", n)) EXCEPT !.opts = opts]

(* A virtual peer is traced, another is pinged. *)
bgp_peer_session_ok(S, n, a) ==
  LET virtual == "virtual" \in Peer(S, n, a).flags IN
  Let(node_send(Aside(S), n, IF virtual THEN Probe(n, a, "trace", {ip_options_create})
                             ELSE Probe(n, a, "echo-request", {}), {}), LAMBDA sent :
  Let(sim_run(sent), LAMBDA run :
     [S |-> IF run.err \in Fatal THEN Return(S, run.err) ELSE S,
      ok |-> IF virtual THEN \E tr \in run.result : tr.status = "ESUCCESS"
             ELSE /\ sent.err = "ESUCCESS"
                  /\ icmp_ping_send_recv(run, n) = "ESUCCESS"]))

-----------------------------------------------------------------------------
(* Parameters. *)

bgp_peer_create(asn) ==
  [asn |-> asn, router_id |-> ANY, filter |-> [in |-> NULL, out |-> NULL],
   rib |-> [in |-> rib_create, out |-> rib_create], state |-> "IDLE", flags |-> {},
   next_hop |-> ANY, src_addr |-> ANY, record |-> {}, send |-> 0, recv |-> 0,
   last_error |-> "ESUCCESS"]

bgp_peer_flag_set(S, n, a, flag, on) ==
  [S EXCEPT !.bgp[n].peers[a].flags = IF on THEN @ \cup {flag} ELSE @ \ {flag}]

(* Mutant: the next hop is set before it is tested. *)
NexthopSetFirst(S, n, a, next_hop) ==
  Return([S EXCEPT !.bgp[n].peers[a].next_hop = next_hop],
         IF node_has_address(S.net, n, next_hop) = {} THEN "EUNSPECIFIED" ELSE "ESUCCESS")

bgp_peer_set_nexthop(S, n, a, next_hop) ==
  IF node_has_address(S.net, n, next_hop) = {} THEN Return(S, "EUNSPECIFIED")
  ELSE Return([S EXCEPT !.bgp[n].peers[a].next_hop = next_hop], "ESUCCESS")

bgp_peer_set_source(S, n, a, src) == [S EXCEPT !.bgp[n].peers[a].src_addr = src]

bgp_peer_set_filter(S, n, a, dir, filter) ==
  [S EXCEPT !.bgp[n].peers[a].filter[dir] = filter]

(* stream is {} or a new recording. *)
bgp_peer_set_record_stream(S, n, a, stream) ==
  [S EXCEPT !.bgp[n].peers[a].record = stream]

SetState(S, n, a, state) == [S EXCEPT !.bgp[n].peers[a].state = state]

(* The numbers of the messages and the identity of the peer are forgotten. *)
Reset(S, n, a) ==
  [S EXCEPT !.bgp[n].peers[a].router_id = ANY, !.bgp[n].peers[a].send = 0,
            !.bgp[n].peers[a].recv = 0]

-----------------------------------------------------------------------------
(* The routes of a peer whose session went up or down.  What is cleared is *)
(* the Adj-RIB-Out: the direction 1 is the outgoing one.                   *)

_bgp_peer_adjrib_clear(S, n, a, dir) ==
  [S EXCEPT !.mem = rib_destroy(@, Peer(S, n, a).rib[dir]),
            !.bgp[n].peers[a].rib[dir] = rib_create]

(* Mutant: the decision process is not run for a session that went down. *)
DisableWithoutRun(S, n, a, p) == FALSE

(* Is the decision process run for prefix p when the session goes down, or *)
(* up?                                                                     *)
_bgp_peer_disable_adjribin(S, n, a, p) ==
  \E r \in rib_find_exact(Peer(S, n, a).rib.in, p) : route_flag_get(r, "BEST")

_bgp_peer_enable_adjribin(S, n, a, p) == TRUE

_bgp_peer_rescan_adjribin(S, n, a, clear) ==
  LET up == Peer(S, n, a).state = "ESTABLISHED" IN
  Let(FoldLeft(LAMBDA T, p :
                 IF \/ up /\ _bgp_peer_enable_adjribin(T, n, a, p)
                    \/ ~up /\ _bgp_peer_disable_adjribin(T, n, a, p)
                 THEN Call(T, <<"decide", n, p>>) ELSE T,
               S, rib_for_each(Peer(S, n, a).rib.in)), LAMBDA scanned :
     IF ~up /\ clear THEN _bgp_peer_adjrib_clear(scanned, n, a, "out") ELSE scanned)

-----------------------------------------------------------------------------
(* The session is opened and closed by the user, or when the network       *)
(* changed.                                                                *)

bgp_peer_open_session(S, n, a) ==
  LET p == Peer(S, n, a)
      R == S.bgp[n] IN
  Let(_bgp_peer_send(Reset(S, n, a), n, a, bgp_msg_open_create(R.asn, R.rid)), LAMBDA sent :
  Let(bgp_peer_session_ok(S, n, a), LAMBDA ok :
  LET up == [SetState(Reset(S, n, a), n, a, "ESTABLISHED") EXCEPT
               !.bgp[n].peers[a].router_id = a]
      known == IF "soft-restart" \in p.flags
               THEN _bgp_peer_rescan_adjribin(up, n, a, FALSE) ELSE up
      Ended(T, e) == Return([T EXCEPT !.bgp[n].peers[a].last_error = e], "ESUCCESS") IN
     IF p.state \notin {"IDLE", "ACTIVE"} THEN Return(S, "EBGP_PEER_INVALID_STATE")
     ELSE IF "virtual" \notin p.flags
       THEN IF sent.err \in Fatal THEN sent
            ELSE Ended(IF sent.err = "ESUCCESS" THEN SetState(sent, n, a, "OPENWAIT")
                       ELSE SetState(Reset(sent, n, a), n, a, "ACTIVE"), sent.err)
     ELSE IF Crashed(ok.S) THEN ok.S
     ELSE IF ok.ok THEN Ended(known, "ESUCCESS")
     ELSE Ended(SetState(Reset(S, n, a), n, a, "ACTIVE"), "EBGP_PEER_UNREACHABLE")))

bgp_peer_close_session(S, n, a) ==
  LET p == Peer(S, n, a) IN
  Let(IF p.state \in {"OPENWAIT", "ESTABLISHED"} /\ "virtual" \notin p.flags
      THEN _bgp_peer_send(S, n, a, bgp_msg_close_create(S.bgp[n].asn)) ELSE S, LAMBDA sent :
     IF p.state = "IDLE" THEN Return(S, "EBGP_PEER_INVALID_STATE")
     ELSE IF Crashed(sent) THEN sent
     ELSE Return(_bgp_peer_rescan_adjribin(
                   Reset(SetState(sent, n, a, "IDLE"), n, a), n, a,
                   ~({"virtual", "soft-restart"} \subseteq p.flags)), "ESUCCESS"))

bgp_peer_session_refresh(S, n, a) ==
  LET p == Peer(S, n, a) IN
  Let(bgp_peer_session_ok(S, n, a), LAMBDA ok :
     IF Crashed(S) \/ p.state = "IDLE" THEN S
     ELSE IF Crashed(ok.S) THEN ok.S
     ELSE IF p.state = "ACTIVE"
       THEN IF ok.ok THEN Call(S, <<"open", n, a>>) ELSE S
     ELSE IF ok.ok THEN S
     ELSE SetState(Call(S, <<"close", n, a>>), n, a, "ACTIVE"))

-----------------------------------------------------------------------------
(* What a message does to the session.  The state in which it must not     *)
(* arrive stops the program.                                               *)

_bgp_peer_prefix_disseminate(S, n, a, p) ==
  Call(S, <<"tell", n, p,
    rib_find_exact(S.bgp[n].loc_rib, p), a>>)

Disseminated(S, n, a) ==
  FoldLeft(LAMBDA T, p : _bgp_peer_prefix_disseminate(T, n, a, p), S,
           rib_for_each(S.bgp[n].loc_rib))

(* Mutant: the OPEN that answers one is answered too. *)
AnsweredAgain(S, n, a, msg) ==
  _bgp_peer_send([SetState(S, n, a, "ESTABLISHED") EXCEPT !.bgp[n].peers[a].router_id = msg.rid],
                 n, a, bgp_msg_open_create(S.bgp[n].asn, S.bgp[n].rid))

(* The peer has answered. *)
Answered(S, n, a, msg) ==
  [SetState(S, n, a, "ESTABLISHED") EXCEPT !.bgp[n].peers[a].router_id = msg.rid]

(* The identity of a peer whose OPEN is answered is not recorded. *)
_bgp_peer_session_open_rcvd(S, n, a, msg) ==
  LET p == Peer(S, n, a)
      R == S.bgp[n]
  IN IF "virtual" \in p.flags THEN Abort(S, "peer.c:432")
     ELSE CASE p.state = "ACTIVE" ->
                 Disseminated(_bgp_peer_send(SetState(S, n, a, "ESTABLISHED"), n, a,
                                             bgp_msg_open_create(R.asn, R.rid)), n, a)
            [] p.state = "OPENWAIT" -> Disseminated(Answered(S, n, a, msg), n, a)
            [] OTHER -> Abort(S, "peer.c:455")

_bgp_peer_session_close_rcvd(S, n, a) ==
  LET p == Peer(S, n, a)
  IN IF "virtual" \in p.flags THEN Abort(S, "peer.c:469")
     ELSE IF p.state \notin {"ESTABLISHED", "OPENWAIT"} THEN S
     ELSE _bgp_peer_rescan_adjribin(Reset(SetState(S, n, a, "ACTIVE"), n, a), n, a,
                                    TRUE)

peer_route_rr_client_update(p, route) ==
  route_flag_set(route, "RR_CLIENT", "rr-client" \in p.flags)

(* The experimental Communities are not compiled: nothing is refused. *)
peer_comm_process(route) == TRUE

(* Mutant: the cluster of the router is not looked for. *)
EligibleInCluster(S, n, a, route) ==
  LET R == S.bgp[n] IN
  Let(filter_apply(FilterEnv(S, n), R.peers[a].filter.in, S.mem, route), LAMBDA f :
     IF route_path_contains(route, R.asn) \/ originator_equals(route.attr.originator, {R.rid})
     THEN [m |-> S.mem, route |-> route, ok |-> FALSE]
     ELSE [m |-> f.m, route |-> f.route, ok |-> f.verdict = 1])

(* The outcome is [m, route, ok]: the filter may change the route. *)
bgp_peer_route_eligible(S, n, a, route) ==
  LET R == S.bgp[n] IN
  Let(filter_apply(FilterEnv(S, n), R.peers[a].filter.in, S.mem, route), LAMBDA f :
     IF \/ route_path_contains(route, R.asn)
        \/ originator_equals(route.attr.originator, {R.rid})
        \/ route_cluster_list_contains(route, R.cluster_id)
     THEN [m |-> S.mem, route |-> route, ok |-> FALSE]
     ELSE [m |-> f.m, route |-> f.route,
           ok |-> f.verdict = 1 /\ peer_comm_process(f.route)])

bgp_peer_route_feasible(S, n, route) ==
  node_rt_lookup(S.net, n, route.attr.next_hop) # {}

_bgp_peer_process_update(S, n, a, msg) ==
  LET p == Peer(S, n, a)
      rcvd == [The(msg.route) EXCEPT !.peer = {a}]
      pref == IF p.asn # S.bgp[n].asn THEN route_localpref_set(rcvd, S.opts.local_pref)
              ELSE rcvd IN
  Let(bgp_peer_route_eligible(S, n, a,
        route_flag_set(route_flag_set(pref, "BEST", FALSE), "INTERNAL", FALSE)), LAMBDA el :
  LET route == peer_route_rr_client_update(p,
                 route_flag_set(route_flag_set(el.route, "ELIGIBLE", el.ok),
                   "FEASIBLE", bgp_peer_route_feasible(S, n, el.route)))
      old == rib_find_exact(p.rib.in, route.prefix)
      filtered == [S EXCEPT !.mem = el.m]
      stored == IF el.ok
                THEN SetAdjRib(filtered, n, a, "in", rib_replace_route(el.m, p.rib.in, route))
                ELSE LET T == SetAdjRib(filtered, n, a, "in",
                                        rib_remove_route(el.m, p.rib.in, route.prefix)) IN
                        [T EXCEPT !.mem = route_destroy(@, route)] IN
     IF el.ok \/ \E r \in old : route_flag_get(r, "BEST")
       THEN Call(stored, <<"decide", n, route.prefix>>)
     ELSE stored)

(* The route is made uneligible, then removed. *)
_bgp_peer_process_withdraw(S, n, a, msg) ==
  LET off == OnAdjRoute(S, n, a, msg.prefix, LAMBDA r : route_flag_set(r, "ELIGIBLE", FALSE))
      ran == Call(off, <<"decide", n, msg.prefix>>) IN
     IF rib_find_exact(Peer(S, n, a).rib.in, msg.prefix) = {} THEN S
     ELSE SetAdjRib(ran, n, a, "in",
                    rib_remove_route(ran.mem, Peer(ran, n, a).rib.in, msg.prefix))

_bgp_peer_session_update_rcvd(S, n, a, msg) ==
  IF Peer(S, n, a).state \notin {"OPENWAIT", "ESTABLISHED"} THEN Abort(S, "peer.c:511")
  ELSE _bgp_peer_process_update(SetState(S, n, a, "ESTABLISHED"), n, a, msg)

_bgp_peer_session_withdraw_rcvd(S, n, a, msg) ==
  IF Peer(S, n, a).state \notin {"OPENWAIT", "ESTABLISHED"} THEN Abort(S, "peer.c:540")
  ELSE _bgp_peer_process_withdraw(SetState(S, n, a, "ESTABLISHED"), n, a, msg)

(* A CLOSE is accepted whatever its number, and counted. *)
_bgp_peer_seqnum_check(p, msg) ==
  "virtual" \in p.flags \/ p.recv = msg.seq \/ msg.type = "CLOSE"

bgp_peer_handle_message(S, n, a, msg) ==
  LET counted == Return([S EXCEPT !.bgp[n].peers[a].recv = @ + 1], "ESUCCESS") IN
  Let(CASE msg.type = "UPDATE" -> _bgp_peer_session_update_rcvd(counted, n, a, msg)
        [] msg.type = "WITHDRAW" -> _bgp_peer_session_withdraw_rcvd(counted, n, a, msg)
        [] msg.type = "CLOSE" -> _bgp_peer_session_close_rcvd(counted, n, a)
        [] msg.type = "OPEN" -> _bgp_peer_session_open_rcvd(counted, n, a, msg), LAMBDA done :
     IF ~_bgp_peer_seqnum_check(Peer(S, n, a), msg)
       THEN Return(S, "EBGP_PEER_OUT_OF_SEQ")
     ELSE IF Crashed(done) THEN done ELSE Return(done, "ESUCCESS"))

(* The handler of the protocol.  A message that is refused is freed, or    *)
(* forgotten, without its route.                                           *)
bgp_router_handle_message(S, n, m) ==
  LET r == Call(S, <<"message", n, m.src, m.payload>>) IN
     IF m.src \notin DOMAIN S.bgp[n].peers
       THEN Return(bgp_msg_destroy(S, m.payload), "EUNSPECIFIED")
     ELSE IF r.err = "EBGP_PEER_OUT_OF_SEQ" THEN bgp_msg_destroy(r, m.payload)
     ELSE r

-----------------------------------------------------------------------------
(* What can be seen of a peer. *)

bgp_peer_dump_adjrib(p, prefix, dir) ==
  IF prefix[2] = 0 THEN {p.rib[dir][k] : k \in DOMAIN p.rib[dir]}
  ELSE IF prefix[2] >= W THEN rib_find_best(p.rib[dir], prefix)
  ELSE rib_find_exact(p.rib[dir], prefix)

bgp_peer_dump(S, n, a) ==
  [down |-> Peer(S, n, a).state = "ESTABLISHED" /\ ~bgp_peer_session_ok(S, n, a).ok,
   state |-> Peer(S, n, a).state, router_id |-> Peer(S, n, a).router_id,
   options |-> Peer(S, n, a).flags]

bgp_peer_show_info(p) ==
  [f \in {"asn", "router_id", "state", "flags", "send", "recv", "next_hop",
          "src_addr", "last_error"} |-> p[f]]

bgp_peer_dump_filters(p, dir) == filter_dump(p.filter[dir])
=============================================================================
