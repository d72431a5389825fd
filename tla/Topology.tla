------------------------------- MODULE Topology -------------------------------
(***************************************************************************)
(* The network database: nodes, their interfaces, the links and the        *)
(* subnets (net/network.c, node.c, iface*.c, link.c, link-list.c,          *)
(* subnet.c, ipip.c) and the commands of the user interface that build and *)
(* change it (cli/net.c, cli/net_node.c, cli/net_node_iface.c).            *)
(*                                                                         *)
(* The database is one value:                                              *)
(*   nodes    router id -> its protocols, IGP domains and routing table    *)
(*   ifaces   <<router id, address>> -> interface (a node's interfaces     *)
(*            are sorted by address, and the address identifies them)      *)
(*   subnets  masked prefix -> its type and the interfaces it lists        *)
(*   domains  IGP domain id -> the routers registered in it                *)
(* Every function of the program that changes it is an operator from a     *)
(* database to [net |-> the database afterwards, err |-> its result]; a    *)
(* function that fails half-way returns what it has already done.          *)
(***************************************************************************)
EXTENDS IPPrefix, FiniteSets

CONSTANTS MaxWeight,    \* IGP_MAX_WEIGHT
          MaxLoad       \* NET_LINK_MAX_LOAD

ASSUME BoundsAssumption == MaxWeight \in Nat /\ MaxLoad \in Nat

(* Function f with one more argument. *)
Including(f, k, x) == [i \in DOMAIN f \cup {k} |-> IF i = k THEN x ELSE f[i]]

Ok(t) == [net |-> t, err |-> "ESUCCESS"]

Fail(t, e) == [net |-> t, err |-> e]

(* The next call of a function that returns at the first error. *)
Then(r, Op(_)) == IF r.err = "ESUCCESS" THEN Op(r.net) ELSE r

HostTypes == {"loopback", "rtr", "virtual"}

LinkTypes == {"rtr", "ptp"}

IfaceTypes == HostTypes \cup {"ptp", "ptmp"}

net_iface_new(type, mask) ==
  [type |-> type, mask |-> mask, connected |-> FALSE, dest |-> <<>>,
   up |-> TRUE, delay |-> 0, capacity |-> 0, load |-> 0,
   weight |-> IF type \in {"loopback", "virtual"} THEN 0 ELSE MaxWeight]

network_create == [nodes |-> <<>>, ifaces |-> <<>>, subnets |-> <<>>,
                   domains |-> <<>>]

(* The members of S in the order of their array in the program. *)
SortedSeq(S, Before(_, _)) ==
  [k \in 1 .. Cardinality(S) |->
     CHOOSE x \in S : Cardinality({y \in S : Before(y, x)}) = k - 1]

(* Numbers in increasing order. *)
Sorted(S) == SortedSeq(S, LAMBDA a, b : a < b)

(* The interfaces of a node, in the order of the program's array. *)
node_ifaces(t, n) ==
  LET own == {i \in DOMAIN t.ifaces : i[1] = n}
  IN SortedSeq(own, LAMBDA i, j : i[2] < j[2])

net_iface_id(t, i) == <<i[2], t.ifaces[i].mask>>

node_add_iface2(t, n, a, iface) ==
  IF <<n, a>> \in DOMAIN t.ifaces THEN Fail(t, "ENET_IFACE_DUPLICATE")
  ELSE Ok([t EXCEPT !.ifaces = Including(@, <<n, a>>, iface)])

(* net_iface_factory: an address for loopback, rtr and virtual interfaces, *)
(* a shorter prefix for the others.                                        *)
net_iface_factory(id, type) ==
  IF (type \in HostTypes) # (id[2] = W) THEN "ENET_IFACE_INVALID_ID"
  ELSE "ESUCCESS"

node_add_iface(t, n, id, type) ==
  LET error == net_iface_factory(id, type)
  IN IF error # "ESUCCESS" THEN Fail(t, error)
     ELSE node_add_iface2(t, n, id[1], net_iface_new(type, id[2]))

(* An rtr interface is unnumbered: its address is the one of the peer. *)
net_iface_has_address(t, i, a) == t.ifaces[i].type # "rtr" /\ i[2] = a

net_iface_has_prefix(t, i, p) ==
  t.ifaces[i].type # "rtr" /\ ip_prefix_cmp(net_iface_id(t, i), p) = 0

(* The interface of node n that has the given address, as a set. *)
node_has_address(t, n, a) ==
  {i \in DOMAIN t.ifaces : i[1] = n /\ net_iface_has_address(t, i, a)}

node_has_prefix(t, n, p) ==
  {i \in DOMAIN t.ifaces : i[1] = n /\ net_iface_has_prefix(t, i, p)}

AddressOfInterface(t, i) == i[2]

net_iface_src_address(t, i) ==
  IF t.ifaces[i].type = "rtr" THEN i[1] ELSE i[2]

(* Interface i is connected to another interface or to a subnet. *)
Attach(t, i, end) ==
  [t EXCEPT !.ifaces[i] = [@ EXCEPT !.dest = end, !.connected = TRUE]]

ConnectUnchecked(t, i, j) == Ok(Attach(t, i, j))

net_iface_connect_iface(t, i, j) ==
  LET src == t.ifaces[i]
      dst == t.ifaces[j]
  IN IF src.connected \/ (dst.connected /\ dst.dest # i)
       THEN Fail(t, "ENET_IFACE_CONNECTED")
     ELSE IF src.type # dst.type \/ src.type \notin LinkTypes
       THEN Fail(t, "ENET_IFACE_INCOMPATIBLE")
     ELSE IF i[2] = j[2] \/ i[1] = j[1] THEN Fail(t, "ENET_LINK_LOOP")
     ELSE Ok(Attach(t, i, j))

net_iface_connect_subnet(t, i, s) ==
  IF t.ifaces[i].connected THEN Fail(t, "ENET_IFACE_CONNECTED")
  ELSE IF t.ifaces[i].type # "ptmp" THEN Fail(t, "ENET_IFACE_INCOMPATIBLE")
  ELSE Ok(Attach(t, i, s))

(* The interface that a subnet lists under address a, as a set. *)
net_subnet_find_link(t, s, a) == {i \in t.subnets[s].ifaces : i[2] = a}

subnet_add_link(t, s, i) ==
  IF net_subnet_find_link(t, s, i[2]) # {} THEN Fail(t, "ENET_LINK_DUPLICATE")
  ELSE Ok([t EXCEPT !.subnets[s].ifaces = @ \cup {i}])

(* An existing interface is reused when its type is the requested one. *)
_net_link_create_iface(t, n, id, type) ==
  IF <<n, id[1]>> \notin DOMAIN t.ifaces THEN node_add_iface(t, n, id, type)
  ELSE IF t.ifaces[<<n, id[1]>>].type = type THEN Ok(t)
  ELSE Fail(t, "ENET_IFACE_INCOMPATIBLE")

Connect(r, i, j, bidir) ==
  Let(Then(r, LAMBDA u : net_iface_connect_iface(u, i, j)), LAMBDA there :
     IF bidir THEN Then(there, LAMBDA u : net_iface_connect_iface(u, j, i))
     ELSE there)

(* Each end of an rtr link has the router id of the other as address; a    *)
(* link in one direction leaves the other end unconnected.                 *)
net_link_create_rtr(t, s, d, bidir) ==
  IF s = d THEN Fail(t, "ENET_LINK_LOOP")
  ELSE LET r1 == _net_link_create_iface(t, s, <<d, W>>, "rtr") IN
       Let(Then(r1, LAMBDA u :
                      _net_link_create_iface(u, d, <<s, W>>, "rtr")), LAMBDA r2 :
          Connect(r2, <<s, d>>, <<d, s>>, bidir))

net_link_create_ptp(t, s, sid, d, did) ==
  IF s = d THEN Fail(t, "ENET_LINK_LOOP")
  ELSE IF sid[2] # did[2] \/ ip_prefix_cmp(sid, did) # 0 \/ sid[1] = did[1]
    THEN Fail(t, "EUNEXPECTED")
  ELSE LET r1 == _net_link_create_iface(t, s, sid, "ptp") IN
       LET r2 == Then(r1, LAMBDA u : _net_link_create_iface(u, d, did, "ptp")) IN
          Connect(r2, <<s, sid[1]>>, <<d, did[1]>>, TRUE)

(* The interface stays, connected to the subnet, when the subnet refuses   *)
(* to list it because another interface has its address.                   *)
net_link_create_ptmp(t, n, s, a) ==
  LET r1 == node_add_iface(t, n, <<a, s[2]>>, "ptmp")
      r2 == Then(r1, LAMBDA u : net_iface_connect_subnet(u, <<n, a>>, s)) IN
     Then(r2, LAMBDA u : subnet_add_link(u, s, <<n, a>>))

_net_iface_get_reverse(t, i) ==
  IF t.ifaces[i].type \notin LinkTypes THEN "ENET_IFACE_NOT_SUPPORTED"
  ELSE IF ~t.ifaces[i].connected THEN "ENET_IFACE_NOT_CONNECTED"
  ELSE "ESUCCESS"

(* Both ends of a link, or one interface, take new attributes. *)
SetBoth(t, i, bidir, Upd(_)) ==
  LET error == _net_iface_get_reverse(t, i)
      end == IF bidir THEN {i, t.ifaces[i].dest} ELSE {i}
  IN IF bidir /\ error # "ESUCCESS" THEN Fail(t, error)
     ELSE Ok([t EXCEPT !.ifaces = [k \in DOMAIN @ |->
                                     IF k \in end THEN Upd(@[k]) ELSE @[k]]])

net_iface_set_metric(t, i, w, bidir) ==
  SetBoth(t, i, bidir, LAMBDA f : [f EXCEPT !.weight = w])

net_iface_set_delay(t, i, d, bidir) ==
  SetBoth(t, i, bidir, LAMBDA f : [f EXCEPT !.delay = d])

net_iface_set_capacity(t, i, c, bidir) ==
  SetBoth(t, i, bidir, LAMBDA f : [f EXCEPT !.capacity = c])

net_link_set_phys_attr(t, i, d, c, bidir) ==
  Then(net_iface_set_delay(t, i, d, bidir),
       LAMBDA u : net_iface_set_capacity(u, i, c, bidir))

net_iface_set_enabled(t, i, on) == [t EXCEPT !.ifaces[i].up = on]

net_iface_set_load(t, i, l) == [t EXCEPT !.ifaces[i].load = l]

net_iface_add_load(t, i, l) ==
  [t EXCEPT !.ifaces[i].load = IF @ + l > MaxLoad THEN MaxLoad ELSE @ + l]

network_ifaces_load_clear(t) ==
  [t EXCEPT !.ifaces = [i \in DOMAIN @ |-> [@[i] EXCEPT !.load = 0]]]

(***************************************************************************)
(* The commands.  A command that fails says so and leaves what the         *)
(* functions it called have already changed.                               *)
(***************************************************************************)
node_create == [protocols |-> {"icmp"}, domains |-> {}, rt |-> <<>>]

network_add_node(t, rid) ==
  IF rid \in DOMAIN t.nodes THEN Fail(t, "ENET_NODE_DUPLICATE")
  ELSE Ok([t EXCEPT !.nodes = Including(@, rid, node_create)])

cli_net_add_node(t, rid, loopback) ==
  IF rid = ANY THEN Fail(t, "ENET_NODE_INVALID_ID")
  ELSE Then(network_add_node(t, rid),
            LAMBDA u : IF loopback
                       THEN node_add_iface(u, rid, <<rid, W>>, "loopback")
                       ELSE Ok(u))

network_add_subnet(t, p, type) ==
  IF ip_prefix_mask(p) \in DOMAIN t.subnets
    THEN Fail(t, "ENET_SUBNET_DUPLICATE")
  ELSE Ok([t EXCEPT !.subnets =
             Including(@, ip_prefix_mask(p), [type |-> type, ifaces |-> {}])])

cli_net_add_subnet(t, p, type) ==
  IF p[2] = W THEN Fail(t, "CLI_ERROR") ELSE network_add_subnet(t, p, type)

(* A link to an address is an rtr link, one to a prefix attaches the       *)
(* source, under the address typed in the prefix, to that subnet.          *)
cli_net_add_link(t, s, dest, delay, capacity) ==
  LET rtr == dest.type = "address"
      a == dest.prefix[1]
      subnet == ip_prefix_mask(dest.prefix)
      link == IF rtr THEN net_link_create_rtr(t, s, a, TRUE)
              ELSE net_link_create_ptmp(t, s, subnet, a) IN
     IF \/ s \notin DOMAIN t.nodes
        \/ rtr /\ a \notin DOMAIN t.nodes
        \/ ~rtr /\ subnet \notin DOMAIN t.subnets
       THEN Fail(t, "CLI_ERROR")
     ELSE Then(link, LAMBDA u :
                       net_link_set_phys_attr(u, <<s, a>>, delay, capacity, rtr))

cli_net_add_linkptp(t, s, sid, d, did, delay, capacity) ==
  IF ~({s, d} \subseteq DOMAIN t.nodes) \/ ANY \in {sid[1], did[1]}
    THEN Fail(t, "CLI_ERROR")
  ELSE Then(net_link_create_ptp(t, s, sid, d, did),
            LAMBDA u : net_link_set_phys_attr(u, <<s, sid[1]>>, delay,
                                              capacity, TRUE))

cli_net_node_add_iface(t, n, id, type) ==
  IF id[1] = ANY THEN Fail(t, "ENET_IFACE_INVALID_ID")
  ELSE node_add_iface(t, n, id, type)

(* The outgoing interface of a route or a tunnel that names none. *)
NoIf == -1

(* IP-in-IP tunnels.  An unknown source address stops the program. *)
ipip_link_create(t, n, end, oif, src) ==
  IF src # ANY /\ <<n, src>> \notin DOMAIN t.ifaces THEN Fail(t, "ABORT")
  ELSE Ok([net_iface_new("virtual", W) EXCEPT
             !.connected = TRUE,
             !.dest = [end |-> end, oif |-> oif, src |-> src]])

node_add_tunnel(t, n, end, a, oif, src) ==
  IF oif # NoIf /\ <<n, oif>> \notin DOMAIN t.ifaces
    THEN Fail(t, "ENET_IFACE_UNKNOWN")
  ELSE LET tunnel == ipip_link_create(t, n, end, oif, src)
       IN IF tunnel.err # "ESUCCESS" THEN tunnel
          ELSE node_add_iface2(t, n, a, tunnel.net)

cli_net_node_tunnel_add(t, n, end, a, oif, src) ==
  node_add_tunnel(t, n, end, a, oif, src)

(* The commands of a link act on the interface of its source only. *)
cli_ctx_create_net_link(t, s, a) == <<s, a>> \in DOMAIN t.ifaces

cli_net_link_up(t, i) == Ok(net_iface_set_enabled(t, i, TRUE))

cli_net_link_down(t, i) == Ok(net_iface_set_enabled(t, i, FALSE))

(* tos is "none", "valid" or "invalid": the test of the option is          *)
(* inverted, so that a valid type of service is refused and an invalid one *)
(* means 0.                                                                *)
cli_net_link_igpweight(t, i, w, tos, bidir) ==
  IF tos = "valid" \/ (bidir /\ t.ifaces[i].type # "rtr")
    THEN Fail(t, "CLI_ERROR")
  ELSE net_iface_set_metric(t, i, w, bidir)

cli_iface_igpweight(t, i, w) == net_iface_set_metric(t, i, w, FALSE)

(* The command "load add" replaces the load. *)
cli_iface_load_add(t, i, l) == Ok(net_iface_set_load(t, i, l))

cli_iface_load_clear(t, i) == Ok(net_iface_set_load(t, i, 0))

cli_net_links_load_clear(t) == Ok(network_ifaces_load_clear(t))

(***************************************************************************)
(* What the functions that walk over the database rely on.                 *)
(***************************************************************************)

(* The two ends of a link know each other: whatever commands failed half   *)
(* way, an rtr or ptp interface that is connected is the far end of its    *)
(* far end, which has its type and the delay and capacity of the link.     *)
LinksPaired(t) ==
  \A i \in DOMAIN t.ifaces :
    t.ifaces[i].type \in LinkTypes /\ t.ifaces[i].connected
      => LET j == t.ifaces[i].dest
         IN /\ j \in DOMAIN t.ifaces /\ j[1] # i[1]
            /\ t.ifaces[j].connected /\ t.ifaces[j].dest = i
            /\ t.ifaces[j].type = t.ifaces[i].type
            /\ t.ifaces[j].delay = t.ifaces[i].delay
            /\ t.ifaces[j].capacity = t.ifaces[i].capacity

(* A subnet lists only interfaces that are connected to it, and a message  *)
(* for an address on the subnet finds one interface: the address of an     *)
(* interface that is connected to a subnet is listed there once.           *)
SubnetsPaired(t) ==
  /\ \A s \in DOMAIN t.subnets : \A i \in t.subnets[s].ifaces :
       /\ i \in DOMAIN t.ifaces
       /\ t.ifaces[i].type = "ptmp" /\ t.ifaces[i].connected
       /\ t.ifaces[i].dest = s
       /\ ip_address_in_prefix(i[2], s)
  /\ \A i \in DOMAIN t.ifaces :
       t.ifaces[i].type = "ptmp" /\ t.ifaces[i].connected
         => /\ t.ifaces[i].dest \in DOMAIN t.subnets
            /\ Cardinality(net_subnet_find_link(t, t.ifaces[i].dest, i[2])) = 1
=============================================================================
