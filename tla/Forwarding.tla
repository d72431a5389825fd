------------------------------ MODULE Forwarding ------------------------------
(***************************************************************************)
(* The forwarding of messages by the nodes (net/network.c, net/iface*.c,   *)
(* net/message.c), the ICMP protocol (net/icmp.c), the options a message   *)
(* may carry (net/icmp_options.c, net/ip_trace.c) and the encapsulation of *)
(* IP-in-IP tunnels (net/ipip.c).                                          *)
(*                                                                         *)
(* A function of the program is an operator on the context S of a run of   *)
(* the simulator:                                                          *)
(*   net     the network database                                          *)
(*   queue   the messages on the wire, with the interface they arrive at   *)
(*   rcvd    the last ICMP message that any node received (_rcvd_ctx)      *)
(*   fifo    the equal-cost paths that remain to be explored               *)
(*   result  the trace of the last message that carried one, once the      *)
(*           message is gone                                               *)
(*   inbox   the BGP messages delivered to a router that it still has to   *)
(*           handle                                                        *)
(*   lost    the payloads of the BGP messages the network dropped          *)
(*   err     the result of the function                                    *)
(* Optional values are sets with at most one member.  The interfaces that  *)
(* a trace records beside the nodes are left out.                          *)
(***************************************************************************)
EXTENDS IGP

CONSTANTS MaxTTL,      \* 255
          MaxFifo,     \* MAX_TRACE_FIFO_DEPTH
          MaxCapacity, \* NET_LINK_MAX_CAPACITY
          MaxNest      \* encapsulations before the stack overflows

Return(S, e) == [S EXCEPT !.err = e]

(* The program does not survive these results. *)
Fatal == {"ABORT", "UNDEFINED", "STACK"}

(***************************************************************************)
(* Messages and traces.                                                    *)
(***************************************************************************)
message_create(src, dst, proto, ttl, payload) ==
  [src |-> src, dst |-> dst, proto |-> proto, ttl |-> ttl,
   payload |-> payload, opts |-> {}, nest |-> 0]

ip_trace_create == [items |-> <<>>, delay |-> 0, weight |-> 0,
                    capacity |-> MaxCapacity, status |-> "ENET_NO_REPLY"]

(* The status is not copied. *)
ip_trace_copy(tr) == [tr EXCEPT !.status = "ENET_NO_REPLY"]

ip_options_create == [flags |-> {}, load |-> 0, alt |-> <<ANY, 0>>,
                      trace |-> ip_trace_create]

ip_options_load(o, load) == [o EXCEPT !.flags = @ \cup {"load"}, !.load = load]

ip_options_alt_dest(o, p) == [o EXCEPT !.flags = @ \cup {"alt-dest"}, !.alt = p]

ip_options_copy(o) == [o EXCEPT !.trace = ip_trace_copy(@)]

OnOpts(m, Op(_)) == [m EXCEPT !.opts = {Op(o) : o \in @}]

OnTrace(m, Op(_)) == OnOpts(m, LAMBDA o : [o EXCEPT !.trace = Op(@)])

SetStatus(m, e) == OnTrace(m, LAMBDA tr : [tr EXCEPT !.status = e])

HasFlag(m, flag) == \E o \in m.opts : flag \in o.flags

ip_trace_last_is(m, n) ==
  \E o \in m.opts : /\ o.trace.items # <<>>
                    /\ Last(o.trace.items)[1] = "node"
                    /\ Last(o.trace.items)[2] = n

ip_trace_add(m, item) ==
  OnTrace(m, LAMBDA tr : [tr EXCEPT !.items = Append(@, item)])

ip_trace_search(tr, n) ==
  \E k \in DOMAIN tr.items : tr.items[k][1] = "node" /\ tr.items[k][2] = n

(* The options of the innermost message are the ones the user gave. *)
RECURSIVE Innermost(_)
Innermost(m) == IF m.proto = "ipip" THEN Innermost(m.payload) ELSE m

(* A message is gone: its trace is what the user will see.  The destructor *)
(* of a BGP message does not free the route in it.                         *)
Settle(S, m) ==
  LET in == Innermost(m)
  IN [S EXCEPT !.result = IF in.opts = {} THEN @
                          ELSE {o.trace : o \in in.opts},
               !.lost = IF in.proto = "bgp" THEN Append(@, in.payload) ELSE @]

(***************************************************************************)
(* The hooks for the options.                                              *)
(***************************************************************************)
_info_update_qos(m, f) ==
  OnTrace(m, LAMBDA tr :
            [tr EXCEPT !.delay = @ + f.delay, !.weight = @ + f.weight,
                       !.capacity = IF f.capacity < @ THEN f.capacity ELSE @])

(* The way of a message: the route it takes and the entries of the route.  *)
Way(key, info) == [id |-> <<key, info.type>>, entries |-> info.entries]

AllTypes == {"direct", "static", "igp", "bgp"}

lookup(t, n, a) ==
  LET T == t.nodes[n].rt
  IN UNION {{Way(p, info) : info \in _rt_info_list_first(T[p], AllTypes)} :
              p \in trie_find_best(T, a)}

_process_msg_alt_fwd(t, n, m, ways) ==
  IF ways # {} \/ ~HasFlag(m, "alt-dest") THEN ways
  ELSE UNION {{Way(ip_prefix_mask(o.alt), info) :
                 info \in rt_find_exact(t.nodes[n].rt, o.alt, AllTypes)} :
                o \in m.opts}

(* The error of a tunnelled message is linked to the message inside. *)
RECURSIVE propagate(_)
propagate(m) ==
  IF m.proto # "ipip" THEN m
  ELSE LET tr == CHOOSE x \in {o.trace : o \in m.opts} : TRUE IN
       Let(SetStatus(ip_trace_add(m.payload, <<"trace", tr>>),
                     "ENET_NO_REPLY"), LAMBDA in :
          [m EXCEPT !.payload = propagate(in)])

ip_opt_hook_msg_error(m, e) ==
  IF m.opts = {} THEN m ELSE propagate(SetStatus(m, e))

ip_opt_hook_msg_sent(m, n) ==
  IF ip_trace_last_is(m, n) THEN m ELSE ip_trace_add(m, <<"node", n>>)

(* The node is added to the trace, then searched in the trace. *)
ip_opt_hook_msg_in(m, n) ==
  LET added == ip_trace_add(m, <<"node", n>>)
      loop == /\ HasFlag(m, "check-loop")
              /\ \E o \in added.opts : ip_trace_search(o.trace, n) IN
     IF m.opts = {} \/ ip_trace_last_is(m, n)
       THEN [msg |-> m, err |-> "ESUCCESS"]
     ELSE IF loop THEN [msg |-> SetStatus(added, "ENET_FWD_LOOP"),
                        err |-> "ENET_FWD_LOOP"]
     ELSE [msg |-> added, err |-> "ESUCCESS"]

(* The link is loaded, if that was asked for. *)
ip_opt_hook_msg_out(S, i, m) ==
  IF m.opts = {} THEN S
  ELSE [S EXCEPT !.net = IF HasFlag(m, "load")
                         THEN net_iface_add_load(@, i, (CHOOSE o \in m.opts : TRUE).load)
                         ELSE @]

(* The subnet itself may be the destination. *)
ip_opt_hook_msg_subnet(m, s) ==
  Let(ip_trace_add(m, <<"subnet", s>>), LAMBDA added :
  Let(\E o \in m.opts : /\ "alt-dest" \in o.flags
                        /\ ip_prefix_cmp(o.alt, s) = 0, LAMBDA reached :
     [msg |-> IF reached THEN SetStatus(added, "ESUCCESS") ELSE added,
      reached |-> reached]))

ip_opt_hook_msg_encap(outer, inner) ==
  IF ~HasFlag(inner, "tunnel") THEN outer
  ELSE [outer EXCEPT !.opts =
          {[o EXCEPT !.flags = @ \ {"alt-dest"}, !.trace = ip_trace_create] :
             o \in inner.opts}]

ip_opt_hook_msg_decap(outer, inner) ==
  IF ~HasFlag(inner, "tunnel") THEN inner
  ELSE LET tr == CHOOSE x \in {o.trace : o \in outer.opts} : TRUE
       IN ip_trace_add(inner, <<"trace", [tr EXCEPT !.status = "ESUCCESS"]>>)

message_copy(m) == OnOpts(m, ip_options_copy)

(* A path that finds the queue full is forgotten. *)
ip_opt_ecmp_push(S, n, m, ways) ==
  IF Len(S.fifo) = MaxFifo THEN S
  ELSE [S EXCEPT !.fifo = Append(@, [node |-> n, msg |-> m, ways |-> ways])]

LoadNotShared(S, n, m, way) ==
  LET Push(acc, e) == ip_opt_ecmp_push(acc, n, message_copy(m),
                                       {[way EXCEPT !.entries = <<e>>]})
  IN IF ~HasFlag(m, "ecmp") \/ Len(way.entries) <= 1 THEN [S |-> S, msg |-> m]
     ELSE [S |-> FoldLeft(Push, S, Tail(way.entries)), msg |-> m]

(* The first entry is taken now, the others are explored later; the load   *)
(* is shared out, and what the division leaves is lost.                    *)
ip_opt_hook_msg_ecmp(S, n, m, way) ==
  LET k == Len(way.entries)
      shared == OnOpts(m, LAMBDA o : [o EXCEPT !.load = @ \div k])
      Push(acc, e) == ip_opt_ecmp_push(acc, n, message_copy(shared),
                                       {[way EXCEPT !.entries = <<e>>]})
  IN IF ~HasFlag(m, "ecmp") \/ k <= 1 THEN [S |-> S, msg |-> m]
     ELSE [S |-> FoldLeft(Push, S, Tail(way.entries)), msg |-> shared]

(***************************************************************************)
(* The nodes.  These functions call each other: a message may be delivered *)
(* to the node that sends it, ICMP answers what it receives, and a tunnel  *)
(* sends the message it encapsulates.  All of this goes through one        *)
(* recursive operator.                                                     *)
(***************************************************************************)
RECURSIVE Enter(_, _)

(* given is the way of an equal-cost path that was put aside. *)
node_send(S, n, m, given) ==
  Enter(S, [op |-> "send", node |-> n, msg |-> m, given |-> given])

node_recv_msg(S, iif, m) == Enter(S, [op |-> "recv", iif |-> iif, msg |-> m])

node_send_msg(S, n, src, dst, proto, ttl, payload) ==
  node_send(S, n, message_create(src, dst, proto,
                                 IF ttl = 0 THEN MaxTTL ELSE ttl, payload), {})

is_icmp_error(m) == m.proto = "icmp" /\ m.payload.type = "error"

icmp_msg(type, sub, n) == [type |-> type, sub |-> sub, node |-> n]

icmp_send_error(S, n, dst, sub) ==
  node_send_msg(S, n, ANY, dst, "icmp", MaxTTL, icmp_msg("error", sub, n))

network_drop(S, m, e) == Settle(S, ip_opt_hook_msg_error(m, e))

(* icmp is the ICMP error to be sent, or "none".  The error of the message *)
(* is reported to its options here and again when it is dropped.           *)
_node_ip_fwd_error(S, n, m, e, icmp) ==
  Let(ip_opt_hook_msg_error(m, e), LAMBDA told :
  Let(IF icmp = "none" \/ is_icmp_error(m) THEN S
      ELSE icmp_send_error(S, n, m.src, icmp), LAMBDA sent :
     IF sent.err \in Fatal THEN sent ELSE Return(network_drop(sent, told, e), e)))

(* The last message received by any node is remembered; an echo request is *)
(* answered from the address it was sent to.                               *)
_icmp_proto_handle(S, n, m) ==
  LET seen == [S EXCEPT !.rcvd = {[node |-> n, src |-> m.src,
                                   msg |-> m.payload]}]
  IN IF m.payload.type = "echo-request"
       THEN Let(node_send_msg(seen, n, m.dst, m.src, "icmp", MaxTTL,
                              icmp_msg("echo-reply", "none", n)), LAMBDA r :
               IF r.err \in Fatal THEN r ELSE Return(r, "ESUCCESS"))
     ELSE IF m.payload.type = "trace"
       THEN Return(Settle(seen, SetStatus(m, "ESUCCESS")), "ESUCCESS")
     ELSE Return(seen, "ESUCCESS")

(* A tunnelled message that does not arrive at a tunnel is discarded. *)
_ipip_proto_handle(S, m) == Return(Settle(S, m), "ESUCCESS")

(* The router of the node is called with the message; nothing else happens *)
(* in the network until it returns, so the call is made by the caller.     *)
protocol_recv_bgp(S, n, m) ==
  Return([S EXCEPT !.inbox = Append(@, [node |-> n, msg |-> m])], "ESUCCESS")

_node_ip_process_msg(S, n, m) ==
  IF m.proto \notin S.net.nodes[n].protocols
    THEN _node_ip_fwd_error(S, n, m, "ENET_PROTO_UNREACH", "proto-unreach")
  ELSE IF m.proto = "icmp" THEN _icmp_proto_handle(S, n, m)
  ELSE IF m.proto = "bgp" THEN protocol_recv_bgp(S, n, m)
  ELSE _ipip_proto_handle(S, m)

IsTunnel(f) == f.type = "virtual" /\ f.connected

(* The message inside; a tunnel receives nothing else. *)
_ipip_iface_recv(m) == ip_opt_hook_msg_decap(m, m.payload)

net_iface_recv(S, i, m) ==
  LET tunnel == IsTunnel(S.net.ifaces[i])
  IN IF tunnel /\ m.proto # "ipip" THEN Return(Settle(S, m), "EUNSPECIFIED")
     ELSE node_recv_msg(S, i, IF tunnel THEN _ipip_iface_recv(m) ELSE m)

(* A message for another interface of the node is received again there. *)
_node_ip_input(S, n, iif, lif, m) ==
  IF iif = lif THEN _node_ip_process_msg(S, n, m) ELSE net_iface_recv(S, lif, m)

network_send(S, i, m) ==
  Return([S EXCEPT !.queue = Append(@, [to |-> i, msg |-> m])], "ESUCCESS")

_net_iface_rtr_send(S, f, m) == network_send(S, f.dest, m)

_net_iface_ptp_send(S, f, m) == network_send(S, f.dest, m)

_net_iface_ptmp_send(S, f, l2, m) ==
  Let(ip_opt_hook_msg_subnet(m, f.dest), LAMBDA hook :
  LET dst == net_subnet_find_link(S.net, f.dest, l2) IN
     IF hook.reached THEN Return(Settle(S, hook.msg), "ESUCCESS")
     ELSE IF dst = {} THEN network_drop(Return(S, "ENET_HOST_UNREACH"),
                                        hook.msg, "ENET_HOST_UNREACH")
     ELSE IF \E i \in dst : ~S.net.ifaces[i].up
       THEN network_drop(Return(S, "ESUCCESS"), hook.msg, "ENET_LINK_DOWN")
     ELSE network_send(S, CHOOSE i \in dst : TRUE, hook.msg))

(* A tunnel with an outgoing interface is not supported.  What becomes of  *)
(* the outer message is not reported.                                      *)
_ipip_iface_send(S, n, f, m) ==
  LET outer == [message_create(f.dest.src, f.dest.end, "ipip", MaxTTL, m)
                  EXCEPT !.nest = m.nest + 1] IN
  Let(node_send(S, n, ip_opt_hook_msg_encap(outer, m), {}), LAMBDA sent :
     IF f.dest.oif # NoIf
       THEN network_drop(Return(S, "ESUCCESS"), m, "EUNSUPPORTED")
     ELSE IF m.nest = MaxNest THEN Return(S, "STACK")
     ELSE IF sent.err \in Fatal THEN sent
     ELSE Return(sent, "ESUCCESS"))

(* Loopback and plain virtual interfaces cannot send.  Of the errors only  *)
(* ENET_HOST_UNREACH is returned to the caller: a node does not notice     *)
(* that a link is down.                                                    *)
net_iface_send(S, i, l2, m) ==
  LET f == S.net.ifaces[i]
  IN IF f.type = "loopback" \/ (f.type = "virtual" /\ ~IsTunnel(f))
       THEN Return(S, "ABORT")
     ELSE IF ~f.connected \/ ~f.up
       THEN network_drop(Return(S, "ESUCCESS"), m, "ENET_LINK_DOWN")
     ELSE CASE f.type = "rtr" -> _net_iface_rtr_send(S, f, m)
            [] f.type = "ptp" -> _net_iface_ptp_send(S, f, m)
            [] f.type = "ptmp" -> _net_iface_ptmp_send(S, f, l2, m)
            [] f.type = "virtual" -> _ipip_iface_send(S, i[1], f, m)

(* The entry is resolved once more when it has no interface.  A gateway    *)
(* that is reached through the entry itself is unreachable; through        *)
(* another entry without interface, the interface is dereferenced.         *)
_node_ip_output(S, n, way, m) ==
  Let(ip_opt_hook_msg_ecmp(S, n, m, way), LAMBDA hook :
  LET e == way.entries[1] IN
  Let(lookup(S.net, n, e.gw), LAMBDA again :
  LET same == \E w \in again : w.id = way.id /\ w.entries[1] = e IN
  Let(IF e.oif # NoIf THEN e
      ELSE (CHOOSE w \in again : TRUE).entries[1], LAMBDA last :
  Let(<<n, last.oif>>, LAMBDA i :
  LET src == IF hook.msg.src = ANY THEN net_iface_src_address(S.net, i)
             ELSE hook.msg.src
      dst == IF e.oif # NoIf THEN m.dst ELSE e.gw IN
  Let(_info_update_qos([hook.msg EXCEPT !.src = src], S.net.ifaces[i]), LAMBDA out :
     IF e.oif = NoIf /\ (again = {} \/ same)
       THEN _node_ip_fwd_error(hook.S, n, hook.msg, "ENET_HOST_UNREACH", "none")
     ELSE IF last.oif = NoIf THEN Return(S, "UNDEFINED")
     ELSE net_iface_send(ip_opt_hook_msg_out(hook.S, i, out), i,
                         IF last.gw = ANY THEN dst ELSE last.gw, out))))))

Received(S, iif, m0) ==
  LET n == iif[1] IN
  Let(ip_opt_hook_msg_in(m0, n), LAMBDA hook :
  LET m == hook.msg IN
  Let(_process_msg_alt_fwd(S.net, n, m, {}), LAMBDA alt :
  Let(node_has_address(S.net, n, m.dst), LAMBDA lif :
  Let(IF alt # {} THEN alt ELSE lookup(S.net, n, m.dst), LAMBDA ways :
     IF m.ttl = 0 THEN Return(S, "ABORT")
     ELSE IF hook.err # "ESUCCESS" THEN Return(Settle(S, m), hook.err)
     ELSE IF HasFlag(m, "alt-dest") /\ alt = {}
       THEN Return(Settle(S, SetStatus(m, "ENET_NET_UNREACH")),
                   "ENET_NET_UNREACH")
     ELSE IF alt = {} /\ lif # {}
       THEN _node_ip_input(S, n, iif, CHOOSE i \in lif : TRUE, m)
     ELSE IF m.ttl = 1 \/ ways = {}
       THEN Let(_node_ip_fwd_error(S, n, m,
                  IF m.ttl = 1 THEN "ENET_TIME_EXCEEDED" ELSE "ENET_HOST_UNREACH",
                  IF m.ttl = 1 THEN "time-exceeded" ELSE "host-unreach"), LAMBDA r :
               IF r.err \in Fatal THEN r ELSE Return(r, "ESUCCESS"))
     ELSE _node_ip_output(S, n, CHOOSE w \in ways : TRUE,
                          [m EXCEPT !.ttl = @ - 1])))))

Sent(S, n, m0, given) ==
  Let(ip_opt_hook_msg_sent(m0, n), LAMBDA m :
  Let(_process_msg_alt_fwd(S.net, n, m, given), LAMBDA alt :
  Let(node_has_address(S.net, n, m.dst), LAMBDA lif :
  Let(IF alt # {} THEN alt ELSE lookup(S.net, n, m.dst), LAMBDA ways :
  LET Local(i) == [m EXCEPT !.src = IF @ = ANY THEN i[2] ELSE @] IN
     IF HasFlag(m, "alt-dest") /\ alt = {}
       THEN Return(network_drop(S, m, "ENET_NET_UNREACH"), "ENET_NET_UNREACH")
     ELSE IF alt = {} /\ lif # {}
       THEN LET i == CHOOSE j \in lif : TRUE IN
               _node_ip_input(S, n, i, i, Local(i))
     ELSE IF ways = {}
       THEN _node_ip_fwd_error(S, n, m, "ENET_HOST_UNREACH", "none")
     ELSE _node_ip_output(S, n, CHOOSE w \in ways : TRUE, m)))))

Enter(S, c) == IF c.op = "send" THEN Sent(S, c.node, c.msg, c.given)
               ELSE Received(S, c.iif, c.msg)

(* An event of the simulator: a message arrives at an interface. *)
_network_send_callback(S) ==
  LET ev == Head(S.queue)
  IN net_iface_recv([S EXCEPT !.queue = Tail(@)], ev.to, ev.msg)

(* The result of a ping, once the simulator ran: the last ICMP message     *)
(* that was received anywhere must have been received by this node.        *)
icmp_ping_send_recv(S, n) ==
  IF \E r \in S.rcvd : r.node = n
    THEN LET m == (CHOOSE r \in S.rcvd : TRUE).msg
         IN CASE m.type = "echo-reply" -> "ESUCCESS"
              [] m.type = "error" -> m.sub
              [] OTHER -> "ENET_NO_REPLY"
  ELSE "ENET_NO_REPLY"

Answers == {"ESUCCESS", "net-unreach", "host-unreach", "proto-unreach",
            "time-exceeded"}

(***************************************************************************)
(* Protocols.                                                              *)
(***************************************************************************)
node_register_protocol(t, n, proto) ==
  IF proto \in t.nodes[n].protocols THEN Fail(t, "ENET_PROTO_DUPLICATE")
  ELSE Ok([t EXCEPT !.nodes[n].protocols = @ \cup {proto}])

cli_net_node_ipip_enable(t, n) == node_register_protocol(t, n, "ipip")
=============================================================================
