------------------------------ MODULE NetFiles ------------------------------
(***************************************************************************)
(* What the network reads from files and writes to them: traffic matrices  *)
(* and NetFlow records (net/netflow.c, net/tm.c, net/traffic/stats.c,      *)
(* net/node.c), the topology files of net/ntf.c, the export of the network *)
(* (net/export*.c), and the commands that a script may hold (the           *)
(* registrations of cli/net*.c).                                           *)
(*                                                                         *)
(* A NetFlow file is a header, which names the columns, and lines of as    *)
(* many values.  A value is a number that is valid or not for its column;  *)
(* -1 stands for one that no column accepts.  The "cli" format of the      *)
(* export is a script: the model gives the sequence of its commands.  The  *)
(* commands are tuples that start with a name of their own.                *)
(***************************************************************************)
EXTENDS Forwarding

CONSTANT Fields      \* the names of the columns the parser knows

(* _parse_funcs: the columns whose values are checked. *)
Checked == {"srcAS", "dstAS", "srcIP", "dstIP", "dstMask", "octets"}

flow_stats_init == [total |-> 0, ok |-> 0, error |-> 0,
                    bytes |-> 0, bytes_ok |-> 0, bytes_error |-> 0]

flow_stats_count(st, b) == [st EXCEPT !.total = @ + 1, !.bytes = @ + b]

flow_stats_failure(st, b) ==
  [st EXCEPT !.error = @ + 1, !.bytes_error = @ + b]

flow_stats_success(st, b) == [st EXCEPT !.ok = @ + 1, !.bytes_ok = @ + b]

(* flow_str2field *)
KnownField(name) == name \in Fields

(* The column of each required field: the first one with its name. *)
flow_field_map(header, required) ==
  [f \in required \cap ToSet(header) |->
     CHOOSE k \in DOMAIN header : /\ header[k] = f
                                  /\ \A j \in 1 .. k - 1 : header[j] # f]

HeaderError(header, required) ==
  IF \E k \in DOMAIN header : ~KnownField(header[k]) THEN "INVALID_HEADER"
  ELSE IF ~(required \subseteq ToSet(header)) THEN "MISSING_FIELD"
  ELSE "SUCCESS"

(* The fields a record does not give have these values. *)
EmptyFlow == [srcAS |-> 0, dstAS |-> 0, srcIP |-> ANY, dstIP |-> ANY,
              dstMask |-> W, octets |-> 0]

_parse_field(header, required, line) ==
  LET map == flow_field_map(header, required)
  IN [f \in DOMAIN EmptyFlow |->
        IF f \in DOMAIN map THEN line[map[f]] ELSE EmptyFlow[f]]

RecordError(header, required, line) ==
  LET map == flow_field_map(header, required)
  IN IF Len(line) # Len(header) THEN "NUM_FIELDS"
     ELSE IF \E f \in DOMAIN map \cap Checked : line[map[f]] = -1
       THEN "INVALID_FIELD"
     ELSE "SUCCESS"

(* What the parser hands over: the flows before the first record that is   *)
(* refused, and the error.  The flows have been loaded by then.            *)
netflow_parse(header, lines, required) ==
  LET good(k) == \A j \in 1 .. k :
                   RecordError(header, required, lines[j]) = "SUCCESS" IN
  Let(Cardinality({k \in DOMAIN lines : good(k)}), LAMBDA n :
     IF HeaderError(header, required) # "SUCCESS"
       THEN [flows |-> <<>>, err |-> HeaderError(header, required)]
     ELSE [flows |-> [k \in 1 .. n |->
                        _parse_field(header, required, lines[k])],
           err |-> IF n = Len(lines) THEN "SUCCESS"
                   ELSE RecordError(header, required, lines[n + 1])])

(* The columns the commands ask for. *)
node_load_netflow == {"srcIP", "dstIP", "octets"}

cli_net_traffic_load(src, dst) ==
  {"octets", "dstIP", IF src = "asn" THEN "srcAS" ELSE "srcIP"}
    \cup (IF dst = "pfx" THEN {"dstMask"} ELSE {})

(* The node a flow enters at, as a set, and the options of its message:    *)
(* with the mask of the destination, the flow goes to the prefix.          *)
_net_flow_src_ip_handler(t, flow) == {flow.srcIP} \cap DOMAIN t.nodes

_flow_options(flow, pfx) ==
  ip_options_load(IF pfx THEN ip_options_alt_dest(ip_options_create,
                                                  <<flow.dstIP, flow.dstMask>>)
                  ELSE ip_options_create, flow.octets)

(***************************************************************************)
(* The lines of a topology file: two nodes, made when they are unknown,    *)
(* and an rtr link.  The program aborts when the link cannot be made; what *)
(* the lines before an invalid one made stays.                             *)
(***************************************************************************)
_ntf_find_node(t, a) ==
  IF a \in DOMAIN t.nodes THEN Ok(t) ELSE cli_net_add_node(t, a, TRUE)

_ntf_add_link(t, line) ==
  LET i == <<line.src, line.dst>> IN
  Let(_ntf_find_node(t, line.src), LAMBDA r1 :
  Let(Then(r1, LAMBDA u : _ntf_find_node(u, line.dst)), LAMBDA r2 :
  Let(Then(r2, LAMBDA u : net_link_create_rtr(u, line.src, line.dst, TRUE)), LAMBDA r3 :
  Let(Then(r3, LAMBDA u : net_link_set_phys_attr(u, i, line.delay, 0, TRUE)), LAMBDA r4 :
  Let(Then(r4, LAMBDA u : net_iface_set_metric(u, i, line.weight, TRUE)), LAMBDA r5 :
     IF r5.err = "ESUCCESS" THEN r5 ELSE Fail(t, "ABORT"))))))

ntf_load(t, lines) ==
  LET Step(r, line) == Then(r, LAMBDA u : IF line.valid THEN _ntf_add_link(u, line)
                                          ELSE Fail(u, "LRP_ERROR_USER"))
  IN FoldLeft(Step, Ok(t), lines)

(* A line of "traffic save" reads the far end of every link; that of an    *)
(* interface that is not connected is undefined.                           *)
node_links_save(t) ==
  LET links == {i \in DOMAIN t.ifaces : t.ifaces[i].type \in LinkTypes \cup {"ptmp"}}
  IN IF \E i \in links : ~t.ifaces[i].connected THEN Fail(t, "UNDEFINED")
     ELSE [net |-> {<<i, t.ifaces[i].load, t.ifaces[i].capacity>> : i \in links},
           err |-> "ESUCCESS"]

-----------------------------------------------------------------------------
(* Scripts and the export.                                                 *)

(* The commands that act on a node or an interface fail when there is no   *)
(* such node or interface.                                                 *)
NodeCommands == {"iface", "up", "down", "weight", "load", "unload", "route+", "route-",
                 "join", "ipip", "tunnel"}

cli_ctx_create_net_node(t, c) == c[1] \in NodeCommands => c[2] \in DOMAIN t.nodes

cli_ctx_create_iface(t, c) ==
  c[1] \in {"up", "down", "weight", "load", "unload"} => <<c[2], c[3]>> \in DOMAIN t.ifaces

(* cli_register_net and cli_register_net_node: the handler of a command.   *)
Execute(t, c, low) ==
  IF ~cli_ctx_create_net_node(t, c) \/ ~cli_ctx_create_iface(t, c)
    THEN Fail(t, "CLI_ERROR")
  ELSE CASE c[1] = "node" -> cli_net_add_node(t, c[2], c[3])
         [] c[1] = "subnet" -> cli_net_add_subnet(t, c[2], c[3])
         [] c[1] = "link" -> cli_net_add_link(t, c[2], c[3], c[4], c[5])
         [] c[1] = "link-ptp" ->
              cli_net_add_linkptp(t, c[2], c[3], c[4], c[5], c[6], c[7])
         [] c[1] = "domain" -> cli_net_add_domain(t, c[2])
         [] c[1] = "iface" -> cli_net_node_add_iface(t, c[2], c[3], c[4])
         [] c[1] = "up" -> cli_net_link_up(t, <<c[2], c[3]>>)
         [] c[1] = "down" -> cli_net_link_down(t, <<c[2], c[3]>>)
         [] c[1] = "weight" ->
              IF c[5] THEN cli_net_link_igpweight(t, <<c[2], c[3]>>, c[4], "none", TRUE)
              ELSE cli_iface_igpweight(t, <<c[2], c[3]>>, c[4])
         [] c[1] = "load" -> cli_iface_load_add(t, <<c[2], c[3]>>, c[4])
         [] c[1] = "unload" -> cli_iface_load_clear(t, <<c[2], c[3]>>)
         [] c[1] = "load-clear" -> cli_net_links_load_clear(t)
         [] c[1] = "route+" ->
              cli_net_node_route_add(t, c[2], c[3], c[4], c[5], c[6])
         [] c[1] = "route-" -> cli_net_node_route_del(t, c[2], c[3], c[4], c[5])
         [] c[1] = "join" -> cli_net_node_domain(t, c[2], c[3])
         [] c[1] = "compute" ->
              IF c[2] \in DOMAIN t.domains THEN cli_net_domain_compute(t, c[2], low)
              ELSE Fail(t, "CLI_ERROR")
         [] c[1] = "ipip" -> cli_net_node_ipip_enable(t, c[2])
         [] c[1] = "tunnel" ->
              cli_net_node_tunnel_add(t, c[2], c[3], c[4], c[5], c[6])
         [] c[1] = "ntf" -> ntf_load(t, c[2])

(* A script stops at the first command that fails. *)
RunScript(t, script) ==
  FoldLeft(LAMBDA r, c : Then(r, LAMBDA u : Execute(u, c, TRUE)), Ok(t), script)

(***************************************************************************)
(* The export.  Numbers are enumerated in increasing order.                *)
(***************************************************************************)
Concat(f(_), s) == FlattenSeq([k \in DOMAIN s |-> f(s[k])])

_export_net_node(n) == <<"node", n, FALSE>>

_export_net_subnet(t, s) == <<"subnet", s, t.subnets[s].type>>

_export_net_iface_lo(i) == <<"iface", i[1], <<i[2], W>>, "loopback">>

LinkByBothEnds(t, i, later) ==
  <<<<"link", i[1], ip_address_to_dest(t.ifaces[i].dest[1]),
      t.ifaces[i].delay, 0>>>>

(* A link is exported by one of its ends, the one of the node that is      *)
(* later in memory.  The capacity is not exported.                         *)
_export_net_link_rtr(t, i, later) ==
  IF i[1] \in later[t.ifaces[i].dest[1]]
    THEN <<<<"link", i[1], ip_address_to_dest(t.ifaces[i].dest[1]),
             t.ifaces[i].delay, 0>>>>
  ELSE <<>>

_export_net_link_ptp(t, i, later) ==
  LET f == t.ifaces[i]
  IN IF i[1] \in later[f.dest[1]]
       THEN <<<<"link-ptp", i[1], net_iface_id(t, i), f.dest[1],
                net_iface_id(t, f.dest), f.delay, 0>>>>
     ELSE <<>>

_export_net_link_ptmp(t, i) ==
  <<"link", i[1], [type |-> "prefix", prefix |-> net_iface_id(t, i)],
    t.ifaces[i].delay, 0>>

(* Tunnels are a comment in the script. *)
_export_net_iface(t, i, later) ==
  CASE t.ifaces[i].type = "loopback" -> <<_export_net_iface_lo(i)>>
    [] t.ifaces[i].type = "rtr" -> _export_net_link_rtr(t, i, later)
    [] t.ifaces[i].type = "ptp" -> _export_net_link_ptp(t, i, later)
    [] t.ifaces[i].type = "ptmp" -> <<_export_net_link_ptmp(t, i)>>
    [] t.ifaces[i].type = "virtual" -> <<>>

_export_down(t, n) ==
  Let(SelectSeq(node_ifaces(t, n), LAMBDA i : ~t.ifaces[i].up), LAMBDA off :
     [k \in DOMAIN off |-> <<"down", n, off[k][2]>>])

SubnetsInOrder(t) ==
  SortedSeq(DOMAIN t.subnets, LAMBDA p, q : ip_prefix_cmp(p, q) < 0)

_net_export_cli_phys(t, later) ==
  Let(Sorted(DOMAIN t.nodes), LAMBDA nodes :
  LET OfNode(n) == Concat(LAMBDA i : _export_net_iface(t, i, later),
                          node_ifaces(t, n)) \o _export_down(t, n) IN
     [k \in DOMAIN nodes |-> _export_net_node(nodes[k])]
       \o [k \in DOMAIN SubnetsInOrder(t) |->
             _export_net_subnet(t, SubnetsInOrder(t)[k])]
       \o Concat(OfNode, nodes))

(* The entries of a route, up to the first one through a tunnel. *)
_export_net_node_route(t, n, p, info) ==
  LET tunnel(e) == e.oif # NoIf /\ t.ifaces[<<n, e.oif>>].type = "virtual"
      m == Cardinality({k \in DOMAIN info.entries :
                          \A j \in 1 .. k : ~tunnel(info.entries[j])})
  IN [k \in 1 .. m |->
        <<"route+", n, p,
          IF info.entries[k].oif = NoIf THEN ANY ELSE info.entries[k].oif,
          info.entries[k].gw, info.metric>>]

_net_export_cli_static(t) ==
  LET OfTable(n) ==
        Concat(LAMBDA p : Concat(LAMBDA info : _export_net_node_route(t, n, p, info),
                                 SelectSeq(t.nodes[n].rt[p],
                                           LAMBDA info : info.type = "static")),
               SortedSeq(DOMAIN t.nodes[n].rt,
                            LAMBDA p, q : ip_prefix_cmp(p, q) < 0))
  IN Concat(OfTable, Sorted(DOMAIN t.nodes))

(* The weights of the links of the routers, and a computation. *)
_igp_domain_fe(t, d) ==
  Let(Sorted(t.domains[d]), LAMBDA routers :
  LET links(n) == SelectSeq(node_ifaces(t, n), LAMBDA i :
                              t.ifaces[i].type \notin {"virtual", "loopback"})
      Weights(n) == [k \in DOMAIN links(n) |->
                       <<"weight", n, links(n)[k][2],
                         t.ifaces[links(n)[k]].weight, FALSE>>] IN
     <<<<"domain", d>>>>
       \o [k \in DOMAIN routers |-> <<"join", routers[k], d>>]
       \o Concat(Weights, routers)
       \o <<<<"compute", d>>>>)

_net_export_cli_igp(t) == Concat(LAMBDA d : _igp_domain_fe(t, d),
                                 Sorted(DOMAIN t.domains))

(* later: the nodes that are later in memory than a node.  The far end of  *)
(* an rtr or ptp interface that is not connected is undefined.  The last   *)
(* section, the commands of BGP, is not part of the model.                 *)
net_export_cli(t, later) ==
  IF \E i \in DOMAIN t.ifaces : /\ t.ifaces[i].type \in LinkTypes
                                /\ ~t.ifaces[i].connected
    THEN Fail(<<>>, "UNDEFINED")
  ELSE Ok(_net_export_cli_phys(t, later) \o _net_export_cli_static(t)
            \o _net_export_cli_igp(t))

(* The links that the other formats list, with their weights. *)
net_export_ntf(t) ==
  {<<i[1], i[2], t.ifaces[i].weight>> :
     i \in {j \in DOMAIN t.ifaces : t.ifaces[j].type \notin {"loopback", "virtual"}}}

net_export_dot(t) ==
  {i \in DOMAIN t.ifaces :
     \/ t.ifaces[i].type = "ptmp"
     \/ t.ifaces[i].type \in LinkTypes /\ i[1] < t.ifaces[i].dest[1]}

(* The orders that the nodes may have in memory, as far as two nodes with  *)
(* a link between them are compared.                                       *)
MemoryOrders(t) ==
  LET links == {i \in DOMAIN t.ifaces : t.ifaces[i].type \in LinkTypes /\ t.ifaces[i].connected}
      ends == {<<i[1], t.ifaces[i].dest[1]>> : i \in links}
      compared == ends \cup {<<e[2], e[1]>> : e \in ends} IN
     {[n \in DOMAIN t.nodes |-> {m \in DOMAIN t.nodes : <<n, m>> \in compared /\ at[m] > at[n]}] :
        at \in Permutations(DOMAIN t.nodes)}
=============================================================================
