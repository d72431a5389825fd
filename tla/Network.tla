------------------------------- MODULE Network -------------------------------
(***************************************************************************)
(* The network as its user sees it: commands that build and change it, and *)
(* probes (ping, traceroute, record-route, the loading of traffic) that    *)
(* send messages through it with a simulator of their own (net/icmp.c,     *)
(* net/icmp_options.c, net/node.c, cli/net_node.c).                        *)
(*                                                                         *)
(*   ctx    the context of the simulator (Forwarding): network, messages   *)
(*   probe  what the user is waiting for                                   *)
(*   last   the last probe that returned, and its result                   *)
(*   fresh  the IGP domains whose routes were computed after the last      *)
(*          change of the network (history)                                *)
(*   budget the commands and probes that remain                            *)
(***************************************************************************)
EXTENDS NetFiles

CONSTANTS Scripts,      \* the networks to start from, as scripts
          Commands,     \* the commands that may follow, for each script
          Probes,       \* the probes that may follow, for each script
          MaxCommands   \* commands and probes in a behaviour

VARIABLES ctx, probe, last, fresh, budget

vars == <<ctx, probe, last, fresh, budget>>

Net == ctx.net

Idle == [kind |-> "idle"]

NoResult == [kind |-> "none", err |-> "none"]

Crashed == ctx.err \in Fatal

NetInit ==
  \E s \in DOMAIN Scripts :
    Let(RunScript(network_create, Scripts[s]), LAMBDA r :
       /\ r.err = "ESUCCESS"
       /\ ctx = [net |-> r.net, queue |-> <<>>, rcvd |-> {}, fifo |-> <<>>,
                 result |-> {}, inbox |-> <<>>, lost |-> <<>>,
                 err |-> r.err]
       /\ probe = Idle
       /\ last = NoResult
       /\ fresh = {Scripts[s][k][2] :
                     k \in {j \in DOMAIN Scripts[s] : j = Len(Scripts[s])
                              /\ Scripts[s][j][1] = "compute"}}
       /\ budget = [left |-> MaxCommands, script |-> s])

(***************************************************************************)
(* Commands.                                                               *)
(***************************************************************************)
Shape(t) == [t EXCEPT !.nodes = [n \in DOMAIN @ |-> [@[n] EXCEPT !.rt = <<>>]],
                      !.ifaces = [i \in DOMAIN @ |-> [@[i] EXCEPT !.load = 0]]]

Refresh(c, t, u) ==
  IF c[1] = "compute" THEN {d \in fresh : t.domains[d] \cap t.domains[c[2]] = {}}
                             \cup {c[2]}
  ELSE IF Shape(t) = Shape(u) /\ c[1] \notin {"route+", "route-"} THEN fresh
  ELSE {}

Command(c) ==
  /\ probe = Idle /\ ~Crashed /\ budget.left > 0
  /\ \E low \in BOOLEAN :
       \E r \in {Execute(Net, c, low)} :
          /\ ctx' = [ctx EXCEPT !.net = r.net, !.err = r.err]
          /\ fresh' = IF r.err = "ESUCCESS" THEN Refresh(c, Net, r.net)
                      ELSE IF Shape(r.net) = Shape(Net) THEN fresh ELSE {}
  /\ budget' = [budget EXCEPT !.left = @ - 1]
  /\ last' = NoResult
  /\ UNCHANGED probe

(***************************************************************************)
(* Probes.  Each message is sent with a simulator of its own, which runs   *)
(* until its queue is empty or a function it calls returns an error.       *)
(***************************************************************************)
Start(p) ==
  /\ probe = Idle /\ ~Crashed /\ budget.left > 0
  /\ probe' = p
  /\ budget' = [budget EXCEPT !.left = @ - 1]
  /\ last' = NoResult
  /\ UNCHANGED fresh

Finish(result) ==
  /\ probe' = Idle
  /\ last' = result
  /\ UNCHANGED <<fresh, budget>>

(* icmp_ping_send_recv, before the simulator runs.  Nothing that was       *)
(* received before counts.                                                 *)
icmp_send_echo_request(n, dst, ttl) ==
  node_send_msg([ctx EXCEPT !.rcvd = {}, !.queue = <<>>], n, ANY, dst, "icmp",
                ttl, icmp_msg("echo-request", "none", n))

icmp_ping(n, dst, ttl) ==
  /\ ctx' = icmp_send_echo_request(n, dst, ttl)
  /\ Start([kind |-> "ping", node |-> n, dst |-> dst, ttl |-> ttl,
            err |-> ctx'.err])

(* An event of the simulator.  An error that is returned to it ends its    *)
(* run, and the messages that are left are forgotten.                      *)
SimStep ==
  /\ probe # Idle /\ ~Crashed /\ ctx.queue # <<>>
  /\ ctx' = Let(_network_send_callback(ctx), LAMBDA r :
               IF r.err = "ESUCCESS" THEN r ELSE [r EXCEPT !.queue = <<>>])
  /\ UNCHANGED <<probe, last, fresh, budget>>

PingEnd ==
  /\ probe.kind = "ping" /\ ~Crashed /\ ctx.queue = <<>>
  /\ Finish([kind |-> "ping", node |-> probe.node, dst |-> probe.dst,
             ttl |-> probe.ttl, err |-> IF probe.err # "ESUCCESS" THEN probe.err
                     ELSE icmp_ping_send_recv(ctx, probe.node)])
  /\ UNCHANGED ctx

(* One echo request for each TTL; an answer other than "time exceeded"     *)
(* ends the trace.  The TTL is a byte that is compared with the largest    *)
(* byte.                                                                   *)
icmp_trace_route(n, dst) ==
  /\ ctx' = [icmp_send_echo_request(n, dst, 1) EXCEPT !.result = {}]
  /\ Start([kind |-> "traceroute", node |-> n, dst |-> dst, ttl |-> 1,
            err |-> ctx'.err, hops |-> <<n>>])

SameTtl(ttl) == ttl

NextTtl(ttl) == (ttl + 1) % (MaxTTL + 1)

TracerouteHop ==
  LET error == IF probe.err # "ESUCCESS" THEN probe.err
               ELSE icmp_ping_send_recv(ctx, probe.node)
      hop == IF error \in Answers THEN (CHOOSE r \in ctx.rcvd : TRUE).msg.node
             ELSE ANY
      ttl == NextTtl(probe.ttl)
  IN /\ probe.kind = "traceroute" /\ ~Crashed /\ ctx.queue = <<>>
     /\ IF error = "time-exceeded"
          THEN \E next \in {icmp_send_echo_request(probe.node, probe.dst, ttl)} :
               /\ ctx' = next
               /\ probe' = [probe EXCEPT !.ttl = ttl, !.err = next.err,
                              !.hops = IF Len(@) > MaxTTL THEN @ ELSE Append(@, hop)]
               /\ UNCHANGED <<last, fresh, budget>>
          ELSE /\ Finish([kind |-> "traceroute", node |-> probe.node,
                          dst |-> probe.dst, err |-> error,
                          hops |-> Append(probe.hops, hop)])
               /\ UNCHANGED ctx

(***************************************************************************)
(* Record-route: one message, and one more for each equal-cost path that   *)
(* it meets.                                                               *)
(***************************************************************************)
Loads == [i \in DOMAIN Net.ifaces |-> Net.ifaces[i].load]

icmp_trace_send(n, dst, ttl, opts) ==
  LET m == [message_create(ANY, dst, "icmp", ttl, icmp_msg("trace", "none", n))
              EXCEPT !.opts = {ip_options_copy(opts)}]
  IN [ctx EXCEPT !.fifo = <<[node |-> n, msg |-> m, ways |-> {}]>>,
                 !.queue = <<>>, !.result = {}]

(* dest is an address or a prefix; the message of a prefix is sent to its  *)
(* network address.                                                        *)
cli_net_node_recordroute(n, dest, ttl, flags, load) ==
  LET o1 == [ip_options_create EXCEPT !.flags = flags]
      o2 == IF load = 0 THEN o1 ELSE ip_options_load(o1, load) IN
  \E opts \in {IF dest.type = "prefix" THEN ip_options_alt_dest(o2, dest.prefix)
               ELSE o2} :
     /\ ctx' = icmp_trace_send(n, dest.prefix[1], ttl, opts)
     /\ Start([kind |-> "record-route", node |-> n, dst |-> dest, ttl |-> ttl,
               opts |-> opts, sent |-> FALSE, traces |-> <<>>, base |-> Loads])

Tracing == probe.kind \in {"record-route", "flows"}

(* ip_opt_ecmp_run: the next path.  An error of the first node is put into *)
(* the trace.                                                              *)
EcmpSend ==
  LET path == Head(ctx.fifo)
  IN /\ Tracing /\ ~Crashed /\ ~probe.sent /\ ctx.fifo # <<>>
     /\ \E r \in {node_send([ctx EXCEPT !.fifo = Tail(@), !.result = {}], path.node,
                            path.msg, path.ways)} :
          ctx' = IF r.err \in {"ESUCCESS"} \cup Fatal THEN r
                 ELSE [r EXCEPT !.result = {[tr EXCEPT !.status = r.err] : tr \in r.result},
                                !.queue = <<>>]
     /\ probe' = [probe EXCEPT !.sent = TRUE]
     /\ UNCHANGED <<last, fresh, budget>>

EcmpEnd ==
  /\ Tracing /\ ~Crashed /\ probe.sent /\ ctx.queue = <<>>
  /\ probe' = [probe EXCEPT !.sent = FALSE,
                            !.traces = Append(@, CHOOSE tr \in ctx.result : TRUE)]
  /\ UNCHANGED <<ctx, last, fresh, budget>>

RecordRouteEnd ==
  /\ probe.kind = "record-route" /\ ~Crashed /\ ~probe.sent /\ ctx.fifo = <<>>
  /\ Finish([kind |-> "record-route", node |-> probe.node, dst |-> probe.dst,
             opts |-> probe.opts, traces |-> probe.traces, base |-> probe.base,
             err |-> "ESUCCESS"])
  /\ UNCHANGED ctx

(***************************************************************************)
(* Traffic: a record-route with the load of each flow of a file.  entry is *)
(* the node the flows enter at, or {} when it is the source of the flow.   *)
(***************************************************************************)
LoadTraffic(entry, file, pfx) ==
  LET required == IF entry # {} THEN node_load_netflow
                  ELSE cli_net_traffic_load("ip", IF pfx THEN "pfx" ELSE "ip") IN
  \E parsed \in {netflow_parse(file.header, file.lines, required)} :
     /\ Start([kind |-> "flows", node |-> entry, flows |-> parsed.flows,
               err |-> parsed.err, pfx |-> pfx, sent |-> FALSE, traces |-> <<>>,
               now |-> {}, stats |-> flow_stats_init])
     /\ UNCHANGED ctx

(* node_load_flow: a flow whose node is unknown ends the command. *)
FlowStart ==
  LET flow == Head(probe.flows)
      at == IF probe.node # {} THEN probe.node
            ELSE _net_flow_src_ip_handler(Net, flow)
  IN /\ probe.kind = "flows" /\ ~Crashed /\ probe.now = {} /\ probe.flows # <<>>
     /\ IF at = {}
          THEN /\ probe' = [probe EXCEPT !.flows = <<>>, !.err = "NETFLOW_ERROR"]
               /\ UNCHANGED ctx
          ELSE /\ ctx' = icmp_trace_send(CHOOSE n \in at : TRUE, flow.dstIP, MaxTTL,
                                         _flow_options(flow, probe.pfx))
               /\ probe' = [probe EXCEPT
                              !.flows = Tail(@), !.now = {flow},
                              !.stats = flow_stats_count(@, flow.octets)]
     /\ UNCHANGED <<last, fresh, budget>>

(* The program asserts that there was one path. *)
FlowEnd ==
  LET flow == CHOOSE f \in probe.now : TRUE
      ok == probe.traces[1].status = "ESUCCESS"
  IN /\ probe.kind = "flows" /\ ~Crashed /\ probe.now # {} /\ ~probe.sent
     /\ ctx.fifo = <<>> /\ probe.traces # <<>>
     /\ ctx' = IF Len(probe.traces) = 1 THEN ctx ELSE Return(ctx, "ABORT")
     /\ probe' = [probe EXCEPT !.now = {}, !.traces = <<>>,
                    !.stats = IF ok THEN flow_stats_success(@, flow.octets)
                              ELSE flow_stats_failure(@, flow.octets)]
     /\ UNCHANGED <<last, fresh, budget>>

FlowsEnd ==
  /\ probe.kind = "flows" /\ ~Crashed /\ probe.now = {} /\ probe.flows = <<>>
  /\ Finish([kind |-> "flows", stats |-> probe.stats, err |-> probe.err])
  /\ UNCHANGED ctx

StartProbe(p) ==
  CASE p[1] = "ping" -> icmp_ping(p[2], p[3], p[4])
    [] p[1] = "traceroute" -> icmp_trace_route(p[2], p[3])
    [] p[1] = "record-route" ->
         cli_net_node_recordroute(p[2], p[3], p[4], p[5], p[6])
    [] p[1] = "traffic" -> LoadTraffic(p[2], p[3], p[4])

ProbeStep == \/ SimStep \/ PingEnd \/ TracerouteHop
             \/ EcmpSend \/ EcmpEnd \/ RecordRouteEnd
             \/ FlowStart \/ FlowEnd \/ FlowsEnd

(* The script is at its end, or the program stopped. *)
Rest == /\ Crashed \/ (probe = Idle /\ budget.left = 0)
        /\ UNCHANGED vars

NetNext == \/ \E c \in Commands[budget.script] : Command(c)
           \/ \E p \in Probes[budget.script] : StartProbe(p)
           \/ ProbeStep
           \/ Rest

(* A probe runs in the call that started it, with nothing else: weak       *)
(* fairness of ProbeStep, which is enabled whenever there is a probe and   *)
(* the program has not stopped.                                            *)
Fairness == []<>(probe = Idle \/ Crashed) \/ []<><<ProbeStep>>_vars

NetSpec == NetInit /\ [][NetNext]_vars /\ Fairness

(***************************************************************************)
(* The reference for the IGP: the smallest sum of weights over the links   *)
(* that are up, between routers of a domain, through transit subnets.      *)
(***************************************************************************)
Usable(t, i) == LET f == t.ifaces[i]
                IN /\ f.type \in LinkTypes \cup {"ptmp"} /\ f.connected /\ f.up
                   /\ f.weight \notin {0, MaxWeight}

Link(t, i) == <<"link", ip_prefix_mask(net_iface_id(t, i))>>

(* The steps <<from, to, cost>> that a path may take. *)
Steps(t, routers) ==
  UNION {LET f == t.ifaces[i]
             there == IF f.type = "ptmp" THEN <<"subnet", f.dest>>
                      ELSE <<"node", f.dest[1]>>
         IN CASE f.type = "rtr" -> {<<<<"node", i[1]>>, there, f.weight>>}
              [] f.type = "ptp" -> {<<<<"node", i[1]>>, Link(t, i), f.weight>>,
                                    <<<<"node", i[1]>>, there, f.weight>>}
              [] f.type = "ptmp" ->
                   {<<<<"node", i[1]>>, there, f.weight>>}
                     \cup (IF t.subnets[f.dest].type = "transit"
                           THEN {<<there, <<"node", i[1]>>, 0>>} ELSE {}) :
           i \in {j \in DOMAIN t.ifaces : Usable(t, j) /\ j[1] \in routers}}

(* The distances from a node, by relaxing the steps as often as there are  *)
(* places.                                                                 *)
Distances(t, routers, n) ==
  Let({s \in Steps(t, routers) :
         s[2][1] = "node" => s[2][2] \in routers}, LAMBDA steps :
  Let({<<"node", n>>} \cup {s[2] : s \in steps}, LAMBDA places :
  LET Relax(D) == [p \in places |->
                     Min({D[p]} \cup {D[s[1]] + s[3] :
                            s \in {x \in steps : x[2] = p /\ x[1] \in places}})] IN
  Let([p \in places |-> IF p = <<"node", n>> THEN 0 ELSE MaxWeight], LAMBDA D0 :
  Let(FoldLeft(LAMBDA acc, k : Relax(acc), D0,
               [k \in 1 .. Cardinality(places) |-> k]), LAMBDA D :
     [p \in {q \in places : D[q] < MaxWeight} |-> D[p]]))))

IgpMetrics(t, n) ==
  {<<p, info.metric>> : <<p, info>> \in
     UNION {{<<p, t.nodes[n].rt[p][k]>> :
               k \in {j \in DOMAIN t.nodes[n].rt[p] :
                        t.nodes[n].rt[p][j].type = "igp"}} :
              p \in DOMAIN t.nodes[n].rt}}

ExpectedMetrics(t, routers, n) ==
  Let(Distances(t, routers, n), LAMBDA D :
     UNION {IF p[1] # "node" THEN {<<p[2], D[p]>>}
            ELSE {<<<<i[2], W>>, D[p]>> :
                    i \in {j \in DOMAIN t.ifaces :
                             /\ j[1] = p[2]
                             /\ t.ifaces[j].type \in {"loopback", "virtual"}}} :
              p \in DOMAIN D \ {<<"node", n>>}})

(* The node that an entry of a route leads to next, as a set; {} when the  *)
(* entry leads into the subnet of the destination itself.                  *)
NextNode(t, n, e) ==
  LET f == t.ifaces[<<n, e.oif>>]
  IN IF f.type \in LinkTypes THEN {f.dest[1]}
     ELSE {i[1] : i \in net_subnet_find_link(t, f.dest, e.gw)}

NoStaticRoutes(t) ==
  \A n \in DOMAIN t.nodes : \A p \in DOMAIN t.nodes[n].rt :
    \A k \in DOMAIN t.nodes[n].rt[p] : t.nodes[n].rt[p][k].type = "igp"

NoTunnels(t) == \A i \in DOMAIN t.ifaces : t.ifaces[i].type # "virtual"

-----------------------------------------------------------------------------
(***************************************************************************)
(* Properties.                                                             *)
(***************************************************************************)
(* Nothing was sent since the last command: the probes change the loads of *)
(* the links only, so that the other properties of the network are checked *)
(* here.                                                                   *)
Changed == ~Crashed /\ probe = Idle /\ last = NoResult

(* The tables of the program are what their functions expect: every        *)
(* interface belongs to a node, keys of routing tables are masked, lists   *)
(* of routes are not empty and have no route without entries.              *)
NetTypeOK ==
  /\ \A i \in DOMAIN Net.ifaces : /\ i[1] \in DOMAIN Net.nodes
                                  /\ Net.ifaces[i].type \in IfaceTypes
                                  /\ Net.ifaces[i].load \in 0 .. MaxLoad
                                  /\ Net.ifaces[i].weight \in 0 .. MaxWeight
  /\ \A n \in DOMAIN Net.nodes : \A p \in DOMAIN Net.nodes[n].rt :
       /\ p = ip_prefix_mask(p) /\ Net.nodes[n].rt[p] # <<>>
       /\ \A k \in DOMAIN Net.nodes[n].rt[p] : Net.nodes[n].rt[p][k].entries # <<>>
  /\ \A s \in DOMAIN Net.subnets : s = ip_prefix_mask(s) /\ s[2] < W
  /\ \A d \in DOMAIN Net.domains : Net.domains[d] \subseteq DOMAIN Net.nodes
  /\ budget.left \in 0 .. MaxCommands

(* The routes of a prefix are sorted by type and metric and the entries of *)
(* a route by gateway and interface, without duplicates, after any         *)
(* additions, removals and computations; what a lookup returns first       *)
(* depends on it.                                                          *)
TablesSorted ==
  \A n \in DOMAIN Net.nodes : \A p \in DOMAIN Net.nodes[n].rt :
    LET list == Net.nodes[n].rt[p]
    IN /\ \A j, k \in DOMAIN list : j < k => _rt_info_list_cmp(list[j], list[k])
       /\ \A k \in DOMAIN list : \A a, b \in DOMAIN list[k].entries :
            a < b => \/ rt_entry_before(list[k].entries[a], list[k].entries[b])
                     \/ /\ list[k].entries[a] = list[k].entries[b]
                        /\ list[k].entries[a].oif = NoIf

(* The network database is sound, whatever commands have changed it and    *)
(* wherever they failed (net/link.c:136, 238, routing.c:163): its values   *)
(* have their types, links and subnets know their ends, tables are sorted. *)
DatabaseSound == NetTypeOK /\ LinksPaired(Net) /\ SubnetsPaired(Net) /\ TablesSorted

(* After a computation the IGP routes of a router are those to the         *)
(* loopbacks, subnets and links that it can reach inside the domain, each  *)
(* with the length of a shortest path.                                     *)
ShortestPaths ==
  Changed => \A d \in fresh : \A n \in Net.domains[d] :
    IgpMetrics(Net, n) = ExpectedMetrics(Net, Net.domains[d], n)

(* Every entry of an IGP route to a router leads to a node that is closer  *)
(* to it: forwarding along the computed routes, by any of the equal-cost   *)
(* entries, never loops.                                                   *)
Downhill ==
  Changed => \A d \in fresh :
    Let([k \in Net.domains[d] |-> Distances(Net, Net.domains[d], k)], LAMBDA dist :
       \A n, m \in Net.domains[d] :
         \A info \in rt_find_exact(Net.nodes[n].rt, <<m, W>>, {"igp"}) :
           \A k \in DOMAIN info.entries :
             \E x \in NextNode(Net, n, info.entries[k]) :
               /\ <<"node", m>> \in DOMAIN dist[x]
               /\ dist[x][<<"node", m>>] < dist[n][<<"node", m>>])

(* The routes of the static IGP (net/igp.c:601) are shortest and lead      *)
(* downhill, after the changes of links, weights and domains that the      *)
(* instances make: none has a ptp link that is reached first from one end  *)
(* and then at a lower cost from the other (igp.c:184).                    *)
RoutesShortest == ShortestPaths /\ Downhill

(* In a network whose routes are those of a computation, the ping of a     *)
(* router is answered exactly when there is a path there and a path back.  *)
PingMeansReachable ==
  (last.kind = "ping" /\ last.ttl = 0 /\ NoStaticRoutes(Net) /\ NoTunnels(Net))
    => \A d \in fresh :
         (last.node \in Net.domains[d] /\ last.dst \in Net.domains[d])
           => (last.err = "ESUCCESS") =
              /\ <<"node", last.dst>> \in DOMAIN Distances(Net, Net.domains[d], last.node)
              /\ <<"node", last.node>> \in DOMAIN Distances(Net, Net.domains[d], last.dst)

Adjacent(t, n, m) ==
  \E i \in DOMAIN t.ifaces : /\ i[1] = n /\ t.ifaces[i].connected
     /\ \/ t.ifaces[i].type \in LinkTypes /\ t.ifaces[i].dest[1] = m
        \/ /\ t.ifaces[i].type = "ptmp"
           /\ \E j \in t.subnets[t.ifaces[i].dest].ifaces : j[1] = m

(* A traceroute in such a network names a path: every node once, each a    *)
(* neighbour of the one before.                                            *)
TracerouteIsPath ==
  (/\ last.kind = "traceroute" /\ last.err = "ESUCCESS" /\ last.node # last.dst
   /\ NoStaticRoutes(Net) /\ NoTunnels(Net)
   /\ \E d \in fresh : {last.node, last.dst} \subseteq Net.domains[d])
    => /\ Last(last.hops) = last.dst
       /\ \A j, k \in DOMAIN last.hops : last.hops[j] = last.hops[k] => j = k
       /\ \A k \in 1 .. Len(last.hops) - 1 :
            Adjacent(Net, last.hops[k], last.hops[k + 1])

(* Probes tell the truth about the network (net/icmp.c:235, 380), although *)
(* all of them share one place for the last message received.              *)
ProbesTell == PingMeansReachable /\ TracerouteIsPath

(* A record-route that shares its load over the equal-cost paths never     *)
(* loads an interface with more than the load it was given, also where the *)
(* paths meet again.                                                       *)
LoadShared ==
  (last.kind = "record-route" /\ {"load", "ecmp"} \subseteq last.opts.flags
     /\ fresh # {} /\ NoStaticRoutes(Net))
    => \A i \in DOMAIN Net.ifaces :
         Net.ifaces[i].load - last.base[i] <= last.opts.load

(* The statistics of a traffic file add up, also when a record of the file *)
(* is refused half-way or a flow does not reach its destination.           *)
FlowsAccounted ==
  (last.kind = "flows")
    => /\ last.stats.total = last.stats.ok + last.stats.error
       /\ last.stats.bytes = last.stats.bytes_ok + last.stats.bytes_error

(* Traffic is neither multiplied (net/icmp_options.c:471) nor forgotten    *)
(* (net/netflow.c:254).                                                    *)
TrafficAccounted == LoadShared /\ FlowsAccounted

(* The program stops only for these reasons: an rtr or ptp interface whose *)
(* link was never made, a topology file that repeats a link, a tunnel      *)
(* whose messages enter it again, a route or a tunnel to something that    *)
(* cannot send, a record-route with a TTL of 0.                            *)
CrashCauses ==
  Crashed => \/ \E i \in DOMAIN Net.ifaces : /\ Net.ifaces[i].type \in LinkTypes
                                             /\ ~Net.ifaces[i].connected
             \/ \E i \in DOMAIN Net.ifaces : Net.ifaces[i].type = "virtual"
             \/ \E c \in Commands[budget.script] : c[1] = "ntf"
             \/ probe.kind = "record-route" /\ probe.ttl = 0

(* An exported script builds the network again: the same nodes, subnets,   *)
(* interfaces, domains and static routes, but for the capacities and loads *)
(* of the links, the weights of links outside of every domain, the tunnels *)
(* and the protocols, and interfaces whose command failed half-way.        *)
Exported(t) ==
  [nodes |-> DOMAIN t.nodes,
   static |-> [n \in DOMAIN t.nodes |->
                 LET rt == t.nodes[n].rt
                 IN {<<p, rt_find_exact(rt, p, {"static"})>> : p \in DOMAIN rt}
                      \ {<<p, {}>> : p \in DOMAIN rt}],
   ifaces |-> [i \in {j \in DOMAIN t.ifaces : t.ifaces[j].type # "virtual"} |->
                 LET f == t.ifaces[i]
                     in == \E d \in DOMAIN t.domains : i[1] \in t.domains[d]
                 IN <<f.type, f.mask, f.connected, f.dest, f.up, f.delay,
                      IF in THEN f.weight ELSE 0>>],
   subnets |-> t.subnets, domains |-> t.domains]

(* An interface that is down, of a link that a node with a larger address  *)
(* will export: the script disables it before it exists.                   *)
EarlyDown(t, later) ==
  \E i \in DOMAIN t.ifaces :
    /\ ~t.ifaces[i].up /\ t.ifaces[i].type \in LinkTypes
    /\ i[1] < t.ifaces[i].dest[1] /\ t.ifaces[i].dest[1] \in later[i[1]]

Rebuilt(t, later) ==
  Let(net_export_cli(t, later), LAMBDA script :
     IF script.err # "ESUCCESS" THEN {} ELSE {RunScript(network_create, script.net)})

(* The script that net export writes (net/export_cli.c) rebuilds what it   *)
(* exports of the network, in whichever order the nodes are in memory,     *)
(* unless it disables an interface before the command that creates it.     *)
ExportRebuilds ==
  (/\ Changed /\ NoTunnels(Net)
   /\ \A i \in DOMAIN Net.ifaces :
        Net.ifaces[i].type = "ptmp"
          => /\ Net.ifaces[i].connected
             /\ i \in Net.subnets[Net.ifaces[i].dest].ifaces)
    => \A later \in MemoryOrders(Net) : \A r \in Rebuilt(Net, later) :
         IF r.err = "ESUCCESS" THEN Exported(r.net) = Exported(Net)
         ELSE EarlyDown(Net, later)

(* A probe returns, whatever loops the routes of the network have: the TTL *)
(* of every message runs out and no ICMP error causes another.  A          *)
(* traceroute returns or comes back to the TTL of 0 that follows 255.      *)
ProbeReturns ==
  (probe # Idle) ~> \/ probe = Idle \/ Crashed
                    \/ probe.kind = "traceroute" /\ probe.ttl = 0

(* Probes end: they return, or the program stops for one of the reasons    *)
(* that the code has (net/network.c:429, ipip.c:151, link.c:136).          *)
ProbesEnd == ProbeReturns /\ []CrashCauses
=============================================================================
