--------------------------- MODULE Topology_proofs ---------------------------
(***************************************************************************)
(* The network database under any sequence of the commands that build and  *)
(* change it, those that fail half-way included: links and subnets know    *)
(* their ends.  BGP's auto-configuration (bgp_auto_config_session) is not  *)
(* among the commands: it asks for links of one direction.  At the end,    *)
(* what a lookup finds in the routing table of a node.                     *)
(***************************************************************************)
EXTENDS Topology, FiniteSetTheorems, TLAPS

VARIABLE net

Keys == Nat \X Nat

SubnetTypes == {"transit", "stub"}

Tunnels == [end : Address, oif : Address \cup {NoIf}, src : Address]

Destinations == [type : {"address", "prefix"}, prefix : Prefix]

(* One command of the user takes the database from t to u. *)
Build(t, u) ==
  \/ \E rid \in Address, loopback \in BOOLEAN : u = cli_net_add_node(t, rid, loopback).net
  \/ \E p \in Prefix, type \in SubnetTypes : u = cli_net_add_subnet(t, p, type).net
  \/ \E s \in Address, dest \in Destinations, delay, capacity \in Nat :
       u = cli_net_add_link(t, s, dest, delay, capacity).net
  \/ \E s, d \in Address, sid, did \in Prefix, delay, capacity \in Nat :
       u = cli_net_add_linkptp(t, s, sid, d, did, delay, capacity).net
  \/ \E n \in Address, id \in Prefix, type \in IfaceTypes :
       n \in DOMAIN t.nodes /\ u = cli_net_node_add_iface(t, n, id, type).net
  \/ \E n, end, a, src \in Address, oif \in Address \cup {NoIf} :
       n \in DOMAIN t.nodes /\ u = cli_net_node_tunnel_add(t, n, end, a, oif, src).net

Change(t, u) ==
  \/ \E i \in DOMAIN t.ifaces :
       \/ u = cli_net_link_up(t, i).net
       \/ u = cli_net_link_down(t, i).net
       \/ \E w \in 0 .. MaxWeight, tos \in {"none", "valid", "invalid"}, bidir \in BOOLEAN :
            u = cli_net_link_igpweight(t, i, w, tos, bidir).net
       \/ \E w \in 0 .. MaxWeight : u = cli_iface_igpweight(t, i, w).net
       \/ \E l \in 0 .. MaxLoad : u = cli_iface_load_add(t, i, l).net
       \/ u = cli_iface_load_clear(t, i).net
       \/ \E l \in 0 .. MaxLoad : u = net_iface_add_load(t, i, l)
  \/ u = cli_net_links_load_clear(t).net

(* The commands on routes, protocols and IGP domains change what a node    *)
(* has, whatever it is, and the domains.                                   *)
Other(t, u) ==
  \E nodes, domains :
    DOMAIN nodes = DOMAIN t.nodes /\ u = [t EXCEPT !.nodes = nodes, !.domains = domains]

Init == net = network_create

Next == Build(net, net') \/ Change(net, net') \/ Other(net, net')

Spec == Init /\ [][Next]_net

-----------------------------------------------------------------------------
(* The invariant. *)

Ifaces == [type : IfaceTypes, mask : Nat, connected : BOOLEAN,
           dest : {<<>>} \cup Keys \cup Tunnels, up : BOOLEAN, delay : Nat, capacity : Nat,
           load : 0 .. MaxLoad, weight : 0 .. MaxWeight]

IfacesOK(f) == f \in [DOMAIN f -> Ifaces] /\ DOMAIN f \subseteq Keys

SubnetsOK(sub) ==
  /\ sub \in [DOMAIN sub -> [type : SubnetTypes, ifaces : SUBSET Keys]]
  /\ DOMAIN sub \subseteq Keys

Linked(f, i) == f[i].type \in LinkTypes /\ f[i].connected

PairedAt(f, i, j) ==
  /\ j \in DOMAIN f /\ j[1] # i[1]
  /\ f[j].connected /\ f[j].dest = i
  /\ f[j].type = f[i].type
  /\ f[j].delay = f[i].delay
  /\ f[j].capacity = f[i].capacity

Paired(f) == \A i \in DOMAIN f : Linked(f, i) => PairedAt(f, i, f[i].dest)

OnSubnet(f, i) == f[i].type = "ptmp" /\ f[i].connected

Listed(f, sub) ==
  \A s \in DOMAIN sub : \A i \in sub[s].ifaces :
    /\ i \in DOMAIN f /\ OnSubnet(f, i) /\ f[i].dest = s
    /\ ip_address_in_prefix(i[2], s)

Attached(f, sub) ==
  \A i \in DOMAIN f : OnSubnet(f, i) =>
    /\ f[i].dest \in DOMAIN sub
    /\ \E k \in sub[f[i].dest].ifaces :
         \A h \in sub[f[i].dest].ifaces : h[2] = i[2] <=> h = k

Record(t) == t = [nodes |-> t.nodes, ifaces |-> t.ifaces, subnets |-> t.subnets,
                  domains |-> t.domains]

(* All but the delay and the capacity of links. *)
Sound(t) ==
  /\ Record(t)
  /\ IfacesOK(t.ifaces) /\ SubnetsOK(t.subnets)
  /\ \A i \in DOMAIN t.ifaces : i[1] \in DOMAIN t.nodes
  /\ Listed(t.ifaces, t.subnets) /\ Attached(t.ifaces, t.subnets)

DBInv(t) == Sound(t) /\ Paired(t.ifaces)

SameRest(t, u) == u.nodes = t.nodes /\ u.subnets = t.subnets /\ u.domains = t.domains

-----------------------------------------------------------------------------
(* Facts about prefixes. *)

LEMMA DivOfMultiple ==
  ASSUME NEW d \in Nat \ {0}, NEW q \in Nat
  PROVE  (q * d) \div d = q
  OBVIOUS

LEMMA MaskCovers ==
  ASSUME NEW a \in Nat, NEW l \in 0 .. W
  PROVE  ip_address_in_prefix(a, <<ip_address_mask(a, l), l>>)
  <1> DEFINE d == 2^(W - l)
  <1>1. d \in Nat \ {0}
    BY PowerAssumption
  <1> HIDE DEF d
  <1>2. a \div d \in Nat
    BY <1>1
  <1>3. ((a \div d) * d) \div d = a \div d
    BY <1>1, <1>2, DivOfMultiple
  <1> QED
    BY <1>3 DEF ip_address_in_prefix, ip_address_mask, d

LEMMA MaskType ==
  ASSUME NEW p \in Prefix
  PROVE  /\ p \in Keys /\ p = <<p[1], p[2]>> /\ p[1] \in Nat /\ p[2] \in 0 .. W
         /\ ip_prefix_mask(p) \in Keys
         /\ ip_prefix_mask(p)[2] = p[2]
         /\ ip_address_in_prefix(p[1], ip_prefix_mask(p))
  <1>1. p \in Keys /\ p = <<p[1], p[2]>> /\ p[1] \in Nat /\ p[2] \in 0 .. W
    BY WAssumption DEF Prefix, Address, Keys
  <1>2. ip_address_mask(p[1], p[2]) \in Nat
    <2> DEFINE d == 2^(W - p[2])
    <2>1. d \in Nat \ {0}
      BY <1>1, PowerAssumption
    <2> HIDE DEF d
    <2>2. (p[1] \div d) * d \in Nat
      BY <1>1, <2>1
    <2> QED
      BY <2>2 DEF ip_address_mask, d
  <1>3. ip_address_in_prefix(p[1], <<ip_address_mask(p[1], p[2]), p[2]>>)
    BY <1>1, MaskCovers
  <1> QED
    BY <1>1, <1>2, <1>3, WAssumption DEF ip_prefix_mask, Keys

(* Interfaces that are new, and changes that no invariant is about. *)

(* A function with one more argument. *)
LEMMA IncludingIs ==
  ASSUME NEW f, NEW k, NEW x
  PROVE  /\ DOMAIN Including(f, k, x) = DOMAIN f \cup {k}
         /\ Including(f, k, x)[k] = x
         /\ \A i \in DOMAIN f : i # k => Including(f, k, x)[i] = f[i]
  BY DEF Including

LEMMA NewIface ==
  ASSUME NEW type \in IfaceTypes, NEW mask \in Nat
  PROVE  /\ net_iface_new(type, mask) \in Ifaces
         /\ net_iface_new(type, mask).type = type
         /\ ~ net_iface_new(type, mask).connected
  BY BoundsAssumption DEF net_iface_new, Ifaces

LEMMA SetIfaces ==
  ASSUME NEW t, Record(t), NEW g
  PROVE  LET u == [t EXCEPT !.ifaces = g]
         IN Record(u) /\ u.ifaces = g /\ SameRest(t, u)
  BY DEF Record, SameRest

(* One more interface, which is connected to nothing or to the far end of  *)
(* a tunnel.                                                               *)
LEMMA AddAlone ==
  ASSUME NEW f, IfacesOK(f), NEW k \in Keys, k \notin DOMAIN f,
         NEW x \in Ifaces, x.connected => x.type = "virtual", NEW sub
  PROVE  LET g == Including(f, k, x)
         IN /\ IfacesOK(g)
            /\ Paired(f) => Paired(g)
            /\ Listed(f, sub) => Listed(g, sub)
            /\ Attached(f, sub) => Attached(g, sub)
  <1> DEFINE g == Including(f, k, x)
  <1>1. /\ DOMAIN g = DOMAIN f \cup {k} /\ g[k] = x
        /\ \A i \in DOMAIN f : i # k => g[i] = f[i]
    BY DEF Including
  <1>2. g = [i \in DOMAIN g |-> g[i]]
    BY DEF Including
  <1> HIDE DEF g
  <1>3. IfacesOK(g)
    BY <1>1, <1>2 DEF IfacesOK
  <1>4. ASSUME Paired(f)
        PROVE  Paired(g)
    BY <1>1, <1>4 DEF Paired, PairedAt, Linked, LinkTypes
  <1>5. ASSUME Listed(f, sub)
        PROVE  Listed(g, sub)
    BY <1>1, <1>5 DEF Listed, OnSubnet
  <1>6. ASSUME Attached(f, sub)
        PROVE  Attached(g, sub)
    BY <1>1, <1>6 DEF Attached, OnSubnet
  <1> QED
    BY <1>3, <1>4, <1>5, <1>6 DEF g

(* Interfaces that keep their type and what they are connected to. *)
SameEnds(f, g) ==
  /\ DOMAIN g = DOMAIN f
  /\ \A i \in DOMAIN f : /\ g[i].type = f[i].type /\ g[i].connected = f[i].connected
                         /\ g[i].dest = f[i].dest

SameLines(f, g) ==
  \A i \in DOMAIN f : g[i].delay = f[i].delay /\ g[i].capacity = f[i].capacity

LEMMA KeepEnds ==
  ASSUME NEW f, NEW g, SameEnds(f, g), NEW sub
  PROVE  /\ Listed(f, sub) => Listed(g, sub)
         /\ Attached(f, sub) => Attached(g, sub)
         /\ SameLines(f, g) /\ Paired(f) => Paired(g)
  <1>1. ASSUME Listed(f, sub)
        PROVE  Listed(g, sub)
    BY <1>1 DEF SameEnds, Listed, OnSubnet
  <1>2. ASSUME Attached(f, sub)
        PROVE  Attached(g, sub)
    BY <1>2 DEF SameEnds, Attached, OnSubnet
  <1>3. ASSUME SameLines(f, g), Paired(f)
        PROVE  Paired(g)
    <2> SUFFICES ASSUME NEW i \in DOMAIN g, Linked(g, i)
                 PROVE  PairedAt(g, i, g[i].dest)
      BY DEF Paired
    <2>1. i \in DOMAIN f /\ Linked(f, i) /\ g[i].dest = f[i].dest
      BY DEF SameEnds, Linked
    <2>2. PairedAt(f, i, f[i].dest)
      BY <1>3, <2>1 DEF Paired
    <2> QED
      BY <1>3, <2>1, <2>2 DEF SameEnds, SameLines, PairedAt
  <1> QED
    BY <1>1, <1>2, <1>3

LEMMA ChangeIfaces ==
  ASSUME NEW t, DBInv(t), NEW u, Record(u), SameRest(t, u), IfacesOK(u.ifaces),
         SameEnds(t.ifaces, u.ifaces), SameLines(t.ifaces, u.ifaces)
  PROVE  DBInv(u)
  <1>1. Listed(u.ifaces, u.subnets) /\ Attached(u.ifaces, u.subnets) /\ Paired(u.ifaces)
    BY KeepEnds DEF DBInv, Sound, SameRest
  <1> QED
    BY <1>1 DEF DBInv, Sound, SameRest, SameEnds

-----------------------------------------------------------------------------
(* The functions that the commands are made of. *)

LEMMA Include ==
  ASSUME NEW t, DBInv(t), NEW n \in DOMAIN t.nodes, n \in Nat, NEW a \in Nat,
         <<n, a>> \notin DOMAIN t.ifaces,
         NEW x \in Ifaces, x.connected => x.type = "virtual",
         NEW u, u = [t EXCEPT !.ifaces = Including(@, <<n, a>>, x)]
  PROVE  DBInv(u) /\ SameRest(t, u) /\ u.ifaces = Including(t.ifaces, <<n, a>>, x)
  <1> DEFINE k == <<n, a>>
  <1>1. k \in Keys
    BY DEF Keys
  <1>2. /\ Record(u) /\ SameRest(t, u)
        /\ u.ifaces = Including(t.ifaces, k, x)
    BY SetIfaces DEF DBInv, Sound
  <1>3. \A i \in DOMAIN u.ifaces : i \in DOMAIN t.ifaces \/ i = k
    BY <1>2 DEF Including
  <1>4. \A i \in DOMAIN u.ifaces : i[1] \in DOMAIN u.nodes
    BY <1>2, <1>3 DEF DBInv, Sound, SameRest
  <1> HIDE DEF k
  <1>5. /\ IfacesOK(u.ifaces) /\ Paired(u.ifaces)
        /\ Listed(u.ifaces, u.subnets) /\ Attached(u.ifaces, u.subnets)
    <2>1. k \notin DOMAIN t.ifaces
      BY DEF k
    <2> QED
      BY <1>1, <1>2, <2>1, AddAlone, Zenon DEF DBInv, Sound, SameRest
  <1> QED
    BY <1>2, <1>4, <1>5, Zenon DEF DBInv, Sound, SameRest, k

(* An interface is added, or nothing changes. *)
LEMMA AddIface ==
  ASSUME NEW t, DBInv(t), NEW n \in DOMAIN t.nodes, n \in Nat, NEW id \in Prefix,
         NEW type \in IfaceTypes
  PROVE  LET r == node_add_iface(t, n, id, type)
         IN /\ DBInv(r.net) /\ SameRest(t, r.net)
            /\ r.err # "ESUCCESS" => r.net = t
            /\ r.err = "ESUCCESS" =>
                 /\ <<n, id[1]>> \notin DOMAIN t.ifaces
                 /\ r.net.ifaces = Including(t.ifaces, <<n, id[1]>>, net_iface_new(type, id[2]))
  <1> DEFINE k == <<n, id[1]>>
             x == net_iface_new(type, id[2])
             u == [t EXCEPT !.ifaces = Including(@, k, x)]
             r == node_add_iface(t, n, id, type)
  <1>1. \/ r.err # "ESUCCESS" /\ r.net = t
        \/ r.err = "ESUCCESS" /\ r.net = u /\ k \notin DOMAIN t.ifaces
    BY DEF node_add_iface, node_add_iface2, net_iface_factory, Ok, Fail
  <1>2. id[1] \in Nat /\ x \in Ifaces /\ ~ x.connected
    BY MaskType, NewIface
  <1> HIDE DEF r, x
  <1>3. ASSUME k \notin DOMAIN t.ifaces
        PROVE  DBInv(u) /\ SameRest(t, u) /\ u.ifaces = Including(t.ifaces, k, x)
    BY <1>2, <1>3, Include
  <1> HIDE DEF u, k
  <1>4. SameRest(t, t)
    BY DEF SameRest
  <1> QED
    BY <1>1, <1>3, <1>4, Zenon DEF r, x, k

(* u has the interfaces of t, which are unchanged, and possibly others. *)
Grown(t, u) ==
  /\ DOMAIN t.ifaces \subseteq DOMAIN u.ifaces
  /\ \A i \in DOMAIN t.ifaces : u.ifaces[i] = t.ifaces[i]

(* The interface of a new link is there already, or is added (_net_link_create_iface). *)
LEMMA LinkIface ==
  ASSUME NEW t, DBInv(t), NEW n \in DOMAIN t.nodes, n \in Nat, NEW id \in Prefix,
         NEW type \in IfaceTypes
  PROVE  LET r == _net_link_create_iface(t, n, id, type)
         IN /\ DBInv(r.net) /\ SameRest(t, r.net) /\ Grown(t, r.net)
            /\ r.err = "ESUCCESS" => /\ <<n, id[1]>> \in DOMAIN r.net.ifaces
                                     /\ r.net.ifaces[<<n, id[1]>>].type = type
  <1> DEFINE k == <<n, id[1]>>
             r == _net_link_create_iface(t, n, id, type)
             a == node_add_iface(t, n, id, type)
  <1>1. SameRest(t, t) /\ Grown(t, t)
    BY DEF SameRest, Grown
  <1>2. CASE k \notin DOMAIN t.ifaces
    <2>1. r = a
      BY <1>2 DEF _net_link_create_iface
    <2> HIDE DEF a, r
    <2>2. /\ DBInv(a.net) /\ SameRest(t, a.net)
          /\ a.err # "ESUCCESS" => a.net = t
          /\ a.err = "ESUCCESS" =>
               a.net.ifaces = Including(t.ifaces, k, net_iface_new(type, id[2]))
      BY AddIface, Zenon DEF a
    <2>3. CASE a.err # "ESUCCESS"
      BY <1>1, <2>1, <2>2, <2>3 DEF r
    <2>4. CASE a.err = "ESUCCESS"
      <3>1. net_iface_new(type, id[2]).type = type
        BY DEF net_iface_new
      <3> DEFINE x == net_iface_new(type, id[2])
      <3> HIDE DEF x, k
      <3>2. a.net.ifaces = Including(t.ifaces, k, x)
        BY <2>2, <2>4 DEF x
      <3>3. /\ k \in DOMAIN a.net.ifaces /\ a.net.ifaces[k] = x
            /\ Grown(t, a.net)
        BY <1>2, <3>2 DEF Including, Grown
      <3> QED
        BY <2>1, <2>2, <3>1, <3>3, Zenon DEF r, x, k
    <2> QED
      BY <2>3, <2>4, Zenon
  <1>3. CASE k \in DOMAIN t.ifaces
    <2>1. r.net = t /\ (r.err = "ESUCCESS" => t.ifaces[k].type = type)
      BY <1>3 DEF _net_link_create_iface, Ok, Fail
    <2> QED
      BY <1>1, <1>3, <2>1
  <1> QED
    BY <1>2, <1>3, Zenon


Joined(x, j) == [x EXCEPT !.dest = j, !.connected = TRUE]

LEMMA JoinedIs ==
  ASSUME NEW x \in Ifaces, NEW j \in Keys
  PROVE  /\ Joined(x, j) \in Ifaces
         /\ Joined(x, j).dest = j /\ Joined(x, j).connected
         /\ Joined(x, j).type = x.type
  BY Zenon DEF Joined, Ifaces

(* u differs from t in the interfaces K only. *)
OnlyAt(t, u, K) ==
  /\ Record(u) /\ SameRest(t, u) /\ IfacesOK(u.ifaces)
  /\ DOMAIN u.ifaces = DOMAIN t.ifaces
  /\ \A k \in DOMAIN t.ifaces : k \notin K => u.ifaces[k] = t.ifaces[k]

(* What connecting an interface changes. *)
LEMMA JoinOne ==
  ASSUME NEW t, Record(t), IfacesOK(t.ifaces), NEW i \in DOMAIN t.ifaces, NEW j \in Keys
  PROVE  /\ OnlyAt(t, Attach(t, i, j), {i})
         /\ Attach(t, i, j).ifaces[i] = Joined(t.ifaces[i], j)
  <1> DEFINE u == Attach(t, i, j)
             g == [t.ifaces EXCEPT ![i] = Joined(t.ifaces[i], j)]
  <1>1. t.ifaces[i] \in Ifaces
    BY DEF IfacesOK
  <1>2. u = [t EXCEPT !.ifaces = g]
    BY DEF Attach, Joined
  <1>3. Joined(t.ifaces[i], j) \in Ifaces
    BY <1>1, JoinedIs
  <1>4. IfacesOK(g) /\ DOMAIN g = DOMAIN t.ifaces /\ g[i] = Joined(t.ifaces[i], j)
        /\ \A k \in DOMAIN t.ifaces : k # i => g[k] = t.ifaces[k]
    BY <1>3 DEF IfacesOK
  <1> HIDE DEF g, u
  <1>5. Record(u) /\ u.ifaces = g /\ SameRest(t, u)
    BY <1>2, SetIfaces
  <1> QED
    BY <1>4, <1>5 DEF OnlyAt, u

(* i, which was not connected, now is, to j. *)
OneWay(t, u, i, j) ==
  /\ OnlyAt(t, u, {i}) /\ u.ifaces[i] = Joined(t.ifaces[i], j)
  /\ ~ t.ifaces[i].connected
  /\ t.ifaces[j].connected => t.ifaces[j].dest = i
  /\ t.ifaces[i].type = t.ifaces[j].type /\ t.ifaces[i].type \in LinkTypes
  /\ i[1] # j[1] /\ i[2] # j[2]

(* One end of a link is connected, or nothing changes (net_iface_connect_iface). *)
LEMMA ConnectOne ==
  ASSUME NEW t, Record(t), IfacesOK(t.ifaces), NEW i \in DOMAIN t.ifaces,
         NEW j \in DOMAIN t.ifaces
  PROVE  LET r == net_iface_connect_iface(t, i, j)
         IN \/ r.err # "ESUCCESS" /\ r.net = t
            \/ r.err = "ESUCCESS" /\ OneWay(t, r.net, i, j)
  <1> DEFINE u == Attach(t, i, j)
  <1>1. j \in Keys
    BY DEF IfacesOK
  <1>2. OnlyAt(t, u, {i}) /\ u.ifaces[i] = Joined(t.ifaces[i], j)
    BY <1>1, JoinOne
  <1> HIDE DEF u
  <1>3. \/ /\ net_iface_connect_iface(t, i, j).err # "ESUCCESS"
           /\ net_iface_connect_iface(t, i, j).net = t
        \/ /\ net_iface_connect_iface(t, i, j).err = "ESUCCESS"
           /\ net_iface_connect_iface(t, i, j).net = u
           /\ ~ t.ifaces[i].connected
           /\ t.ifaces[j].connected => t.ifaces[j].dest = i
           /\ t.ifaces[i].type = t.ifaces[j].type /\ t.ifaces[i].type \in LinkTypes
           /\ i[1] # j[1] /\ i[2] # j[2]
    BY DEF net_iface_connect_iface, Ok, Fail, u
  <1> QED
    BY <1>2, <1>3, Zenon DEF OneWay


(* i and j, which were not connected, now are the ends of a link. *)
Pairing(t, u, i, j) ==
  /\ i \in DOMAIN t.ifaces /\ j \in DOMAIN t.ifaces /\ i[1] # j[1]
  /\ ~ t.ifaces[i].connected /\ ~ t.ifaces[j].connected
  /\ t.ifaces[i].type = t.ifaces[j].type /\ t.ifaces[i].type \in LinkTypes
  /\ OnlyAt(t, u, {i, j})
  /\ u.ifaces[i] = Joined(t.ifaces[i], j)
  /\ u.ifaces[j] = Joined(t.ifaces[j], i)

(* A link is connected at both ends, or at none: when the second call      *)
(* would fail, so does the first.                                          *)
LEMMA ConnectBoth ==
  ASSUME NEW r, r.err = "ESUCCESS", NEW t, t = r.net, DBInv(t),
         NEW i \in DOMAIN t.ifaces, NEW j \in DOMAIN t.ifaces
  PROVE  LET c == Connect(r, i, j, TRUE)
         IN \/ c.err # "ESUCCESS" /\ c.net = t
            \/ c.err = "ESUCCESS" /\ Pairing(t, c.net, i, j)
  <1> DEFINE a == net_iface_connect_iface(t, i, j)
             b == net_iface_connect_iface(a.net, j, i)
             c == Connect(r, i, j, TRUE)
  <1>1. /\ a.err # "ESUCCESS" => c = a
        /\ a.err = "ESUCCESS" => c = b
    BY DEF Connect, Let, Then
  <1>2. Record(t) /\ IfacesOK(t.ifaces) /\ Paired(t.ifaces)
    BY DEF DBInv, Sound
  <1>3. \/ a.err # "ESUCCESS" /\ a.net = t
        \/ a.err = "ESUCCESS" /\ OneWay(t, a.net, i, j)
    BY <1>2, ConnectOne
  <1> HIDE DEF a, b, c
  <1>4. CASE a.err # "ESUCCESS"
    BY <1>1, <1>3, <1>4, Zenon DEF c
  <1>5. CASE a.err = "ESUCCESS"
    <2> DEFINE u == a.net
    <2>1. /\ OnlyAt(t, u, {i}) /\ u.ifaces[i] = Joined(t.ifaces[i], j)
          /\ ~ t.ifaces[i].connected
          /\ t.ifaces[j].connected => t.ifaces[j].dest = i
          /\ t.ifaces[i].type = t.ifaces[j].type /\ t.ifaces[i].type \in LinkTypes
          /\ i[1] # j[1] /\ i[2] # j[2]
      BY <1>3, <1>5 DEF OneWay
    <2>2. ~ t.ifaces[j].connected
      <3> SUFFICES ASSUME t.ifaces[j].connected PROVE FALSE
        OBVIOUS
      <3>1. Linked(t.ifaces, j) /\ t.ifaces[j].dest = i
        BY <2>1 DEF Linked
      <3>2. PairedAt(t.ifaces, j, i)
        BY <1>2, <3>1 DEF Paired
      <3> QED
        BY <2>1, <3>2 DEF PairedAt
    <2> HIDE DEF u
    <2>3. /\ Record(u) /\ IfacesOK(u.ifaces) /\ SameRest(t, u)
          /\ DOMAIN u.ifaces = DOMAIN t.ifaces
          /\ \A k \in DOMAIN t.ifaces : k # i => u.ifaces[k] = t.ifaces[k]
      BY <2>1 DEF OnlyAt
    <2>4. i # j /\ u.ifaces[j] = t.ifaces[j]
      BY <2>1, <2>3
    <2>5. i \in Keys /\ j \in Keys /\ t.ifaces[i] \in Ifaces
      BY <1>2 DEF IfacesOK
    <2>6. /\ u.ifaces[i].dest = j /\ u.ifaces[i].connected
          /\ u.ifaces[i].type = t.ifaces[i].type
      BY <2>1, <2>5, JoinedIs
    <2>7. b = Ok(Attach(u, j, i))
      BY <2>1, <2>2, <2>4, <2>6 DEF b, u, net_iface_connect_iface
    <2>8. b.err = "ESUCCESS" /\ OnlyAt(u, b.net, {j}) /\ b.net.ifaces[j] = Joined(u.ifaces[j], i)
      <3>1. j \in DOMAIN u.ifaces
        BY <2>3
      <3>2. /\ b.err = "ESUCCESS"
            /\ b.net = Attach(u, j, i)
        BY <2>7 DEF Ok
      <3> QED
        BY <2>3, <2>5, <3>1, <3>2, JoinOne, ZenonT(30)
    <2>9. OnlyAt(t, b.net, {i, j}) /\ b.net.ifaces[i] = u.ifaces[i]
      BY <2>3, <2>4, <2>8 DEF OnlyAt, SameRest
    <2>10. Pairing(t, b.net, i, j)
      BY <2>1, <2>2, <2>4, <2>8, <2>9 DEF Pairing
    <2> QED
      BY <1>1, <1>5, <2>8, <2>10, Zenon DEF c
  <1> QED
    BY <1>4, <1>5, Zenon

(* u, in which i and j are the ends of a new link, is sound but for the    *)
(* delay and the capacity of that link; with these, it is sound.           *)
LEMMA PairEnds ==
  ASSUME NEW t, DBInv(t), NEW u, NEW i, NEW j, Pairing(t, u, i, j)
  PROVE  /\ Sound(u)
         /\ Linked(u.ifaces, i) /\ u.ifaces[i].dest = j
         /\ Linked(u.ifaces, j) /\ u.ifaces[j].dest = i
         /\ i \in DOMAIN u.ifaces /\ j \in DOMAIN u.ifaces /\ i[1] # j[1]
         /\ u.ifaces[i].type = u.ifaces[j].type
         /\ \A k \in DOMAIN u.ifaces \ {i, j} :
              Linked(u.ifaces, k) => /\ PairedAt(u.ifaces, k, u.ifaces[k].dest)
                                     /\ u.ifaces[k].dest \notin {i, j}
  <1> DEFINE f == t.ifaces
             g == u.ifaces
             sub == t.subnets
  <1>1. /\ Record(u) /\ SameRest(t, u) /\ IfacesOK(g) /\ DOMAIN g = DOMAIN f
        /\ \A k \in DOMAIN f : k \notin {i, j} => g[k] = f[k]
        /\ i \in DOMAIN f /\ j \in DOMAIN f /\ i[1] # j[1]
        /\ ~ f[i].connected /\ ~ f[j].connected
        /\ f[i].type = f[j].type /\ f[i].type \in LinkTypes
        /\ g[i] = Joined(f[i], j) /\ g[j] = Joined(f[j], i)
    BY DEF Pairing, OnlyAt
  <1>2. /\ IfacesOK(f) /\ Paired(f) /\ Listed(f, sub) /\ Attached(f, sub)
        /\ SubnetsOK(sub) /\ \A k \in DOMAIN f : k[1] \in DOMAIN t.nodes
    BY DEF DBInv, Sound
  <1>3. i \in Keys /\ j \in Keys /\ f[i] \in Ifaces /\ f[j] \in Ifaces
    BY <1>1, <1>2 DEF IfacesOK
  <1>4. /\ g[i].dest = j /\ g[i].connected /\ g[i].type = f[i].type
        /\ g[j].dest = i /\ g[j].connected /\ g[j].type = f[j].type
    BY <1>1, <1>3, JoinedIs
  <1>5. f[i].type # "ptmp" /\ f[j].type # "ptmp"
    BY <1>1 DEF LinkTypes
  <1>6. u.nodes = t.nodes /\ u.subnets = sub
    BY <1>1 DEF SameRest
  <1> HIDE DEF f, g, sub
  <1>7. Listed(g, sub)
    BY <1>1, <1>2, <1>5 DEF Listed, OnSubnet
  <1>8. Attached(g, sub)
    BY <1>1, <1>2, <1>4, <1>5 DEF Attached, OnSubnet
  <1>9. ASSUME NEW k \in DOMAIN g \ {i, j}, Linked(g, k)
        PROVE  PairedAt(g, k, g[k].dest) /\ g[k].dest \notin {i, j}
    <2>1. k \in DOMAIN f /\ g[k] = f[k] /\ Linked(f, k)
      BY <1>1, <1>9 DEF Linked
    <2>2. PairedAt(f, k, f[k].dest)
      BY <1>2, <2>1 DEF Paired
    <2>3. f[k].dest \in DOMAIN f /\ f[f[k].dest].connected
      BY <2>2 DEF PairedAt
    <2>4. f[k].dest \notin {i, j} /\ g[f[k].dest] = f[f[k].dest]
      BY <1>1, <2>3
    <2> QED
      BY <1>1, <2>1, <2>2, <2>4 DEF PairedAt
  <1>10. Linked(g, i) /\ Linked(g, j)
    BY <1>1, <1>4 DEF Linked
  <1>11. Sound(u)
    BY <1>1, <1>2, <1>6, <1>7, <1>8 DEF Sound, f, g, sub
  <1> QED
    BY <1>1, <1>4, <1>9, <1>10, <1>11 DEF g

(* Attributes of the interfaces K change, not what they are connected to. *)
Touched(t, u, K) ==
  OnlyAt(t, u, K) /\ SameEnds(t.ifaces, u.ifaces)

Ends(t, i, bidir) == IF bidir THEN {i, t.ifaces[i].dest} ELSE {i}

LEMMA TouchedIs ==
  ASSUME NEW t, Record(t), IfacesOK(t.ifaces), NEW K, NEW g, NEW u,
         u = [t EXCEPT !.ifaces = g],
         g \in [DOMAIN t.ifaces -> Ifaces],
         \A k \in DOMAIN t.ifaces :
           /\ g[k].type = t.ifaces[k].type /\ g[k].connected = t.ifaces[k].connected
           /\ g[k].dest = t.ifaces[k].dest
           /\ k \notin K => g[k] = t.ifaces[k]
  PROVE  Touched(t, u, K) /\ u.ifaces = g
  <1>1. Record(u) /\ u.ifaces = g /\ SameRest(t, u)
    BY SetIfaces
  <1>2. IfacesOK(g) /\ DOMAIN g = DOMAIN t.ifaces
    BY DEF IfacesOK
  <1> QED
    BY <1>1, <1>2 DEF Touched, OnlyAt, SameEnds

(* Both ends of a link take a delay (net_iface_set_delay). *)
LEMMA SetDelay ==
  ASSUME NEW t, Record(t), IfacesOK(t.ifaces), NEW i \in DOMAIN t.ifaces,
         NEW bidir \in BOOLEAN, bidir => Linked(t.ifaces, i), NEW d \in Nat
  PROVE  LET r == net_iface_set_delay(t, i, d, bidir)
         IN /\ r.err = "ESUCCESS" /\ Touched(t, r.net, Ends(t, i, bidir))
            /\ \A k \in DOMAIN t.ifaces \cap Ends(t, i, bidir) : r.net.ifaces[k].delay = d
  <1> DEFINE r == net_iface_set_delay(t, i, d, bidir)
             f == t.ifaces
             K == Ends(t, i, bidir)
             g == [k \in DOMAIN f |-> IF k \in K THEN [f[k] EXCEPT !.delay = d] ELSE f[k]]
  <1>1. r.err = "ESUCCESS" /\ r.net = [t EXCEPT !.ifaces = g]
    BY DEF net_iface_set_delay, SetBoth, _net_iface_get_reverse, Linked, Ok, Ends
  <1>2. \A k \in DOMAIN f : f[k] \in Ifaces
    BY DEF IfacesOK
  <1>3. ASSUME NEW x \in Ifaces
        PROVE  LET y == [x EXCEPT !.delay = d]
               IN /\ y \in Ifaces /\ y.delay = d /\ y.type = x.type
                  /\ y.connected = x.connected /\ y.dest = x.dest
    BY DEF Ifaces
  <1>4. /\ g \in [DOMAIN f -> Ifaces]
        /\ \A k \in DOMAIN f : /\ g[k].type = f[k].type /\ g[k].connected = f[k].connected
                               /\ g[k].dest = f[k].dest
                               /\ k \notin K => g[k] = f[k]
                               /\ k \in K => g[k].delay = d
    BY <1>2, <1>3
  <1> HIDE DEF r, g, K
  <1>5. Touched(t, r.net, K) /\ r.net.ifaces = g
    BY <1>1, <1>4, TouchedIs
  <1> QED
    BY <1>1, <1>4, <1>5 DEF r, K

(* Both ends of a link take a capacity (net_iface_set_capacity). *)
LEMMA SetCapacity ==
  ASSUME NEW t, Record(t), IfacesOK(t.ifaces), NEW i \in DOMAIN t.ifaces,
         NEW bidir \in BOOLEAN, bidir => Linked(t.ifaces, i), NEW c \in Nat
  PROVE  LET r == net_iface_set_capacity(t, i, c, bidir)
         IN /\ r.err = "ESUCCESS" /\ Touched(t, r.net, Ends(t, i, bidir))
            /\ \A k \in DOMAIN t.ifaces \cap Ends(t, i, bidir) :
                 r.net.ifaces[k].capacity = c /\ r.net.ifaces[k].delay = t.ifaces[k].delay
  <1> DEFINE r == net_iface_set_capacity(t, i, c, bidir)
             f == t.ifaces
             K == Ends(t, i, bidir)
             g == [k \in DOMAIN f |-> IF k \in K THEN [f[k] EXCEPT !.capacity = c] ELSE f[k]]
  <1>1. r.err = "ESUCCESS" /\ r.net = [t EXCEPT !.ifaces = g]
    BY DEF net_iface_set_capacity, SetBoth, _net_iface_get_reverse, Linked, Ok, Ends
  <1>2. \A k \in DOMAIN f : f[k] \in Ifaces
    BY DEF IfacesOK
  <1>3. ASSUME NEW x \in Ifaces
        PROVE  LET y == [x EXCEPT !.capacity = c]
               IN /\ y \in Ifaces /\ y.capacity = c /\ y.type = x.type
                  /\ y.connected = x.connected /\ y.dest = x.dest /\ y.delay = x.delay
    BY DEF Ifaces
  <1>4. /\ g \in [DOMAIN f -> Ifaces]
        /\ \A k \in DOMAIN f : /\ g[k].type = f[k].type /\ g[k].connected = f[k].connected
                               /\ g[k].dest = f[k].dest
                               /\ k \notin K => g[k] = f[k]
                               /\ k \in K => g[k].capacity = c /\ g[k].delay = f[k].delay
    BY <1>2, <1>3
  <1> HIDE DEF r, g, K
  <1>5. Touched(t, r.net, K) /\ r.net.ifaces = g
    BY <1>1, <1>4, TouchedIs
  <1> QED
    BY <1>1, <1>4, <1>5 DEF r, K

(* The interfaces K of u have the delay and the capacity of one line. *)
OneLine(t, u, K, d, c) ==
  \A k \in DOMAIN t.ifaces \cap K : u.ifaces[k].delay = d /\ u.ifaces[k].capacity = c

(* Both ends of a link take both (net_link_set_phys_attr). *)
LEMMA PhysAttr ==
  ASSUME NEW t, Record(t), IfacesOK(t.ifaces), NEW i \in DOMAIN t.ifaces,
         NEW bidir \in BOOLEAN, bidir => Linked(t.ifaces, i), NEW d \in Nat, NEW c \in Nat
  PROVE  LET r == net_link_set_phys_attr(t, i, d, c, bidir)
         IN /\ Touched(t, r.net, Ends(t, i, bidir))
            /\ OneLine(t, r.net, Ends(t, i, bidir), d, c)
  <1> DEFINE a == net_iface_set_delay(t, i, d, bidir)
             u == a.net
             b == net_iface_set_capacity(u, i, c, bidir)
             K == Ends(t, i, bidir)
             r == net_link_set_phys_attr(t, i, d, c, bidir)
  <1>1. /\ a.err = "ESUCCESS" /\ Touched(t, u, K)
        /\ \A k \in DOMAIN t.ifaces \cap K : u.ifaces[k].delay = d
    BY SetDelay
  <1>2. r = b
    BY <1>1 DEF net_link_set_phys_attr, Then
  <1> HIDE DEF a, u, r
  <1>3. /\ Record(u) /\ IfacesOK(u.ifaces) /\ i \in DOMAIN u.ifaces
        /\ DOMAIN u.ifaces = DOMAIN t.ifaces
        /\ u.ifaces[i].type = t.ifaces[i].type /\ u.ifaces[i].connected = t.ifaces[i].connected
        /\ u.ifaces[i].dest = t.ifaces[i].dest
    BY <1>1 DEF Touched, OnlyAt, SameEnds
  <1>4. (bidir => Linked(u.ifaces, i)) /\ Ends(u, i, bidir) = K
    BY <1>3 DEF Linked, Ends
  <1> HIDE DEF b, K
  <1>5. /\ Touched(u, b.net, K)
        /\ \A k \in DOMAIN u.ifaces \cap K :
             b.net.ifaces[k].capacity = c /\ b.net.ifaces[k].delay = u.ifaces[k].delay
    BY <1>3, <1>4, SetCapacity DEF b
  <1>6. Touched(t, b.net, K)
    BY <1>1, <1>3, <1>5 DEF Touched, OnlyAt, SameEnds, SameRest
  <1>7. OneLine(t, b.net, K, d, c)
    BY <1>1, <1>3, <1>5 DEF OneLine
  <1> QED
    BY <1>2, <1>6, <1>7 DEF r, K

LEMMA TouchedSound ==
  ASSUME NEW t, Sound(t), NEW K, NEW u, Touched(t, u, K)
  PROVE  Sound(u)
  <1>1. /\ Record(u) /\ SameRest(t, u) /\ IfacesOK(u.ifaces)
        /\ DOMAIN u.ifaces = DOMAIN t.ifaces /\ SameEnds(t.ifaces, u.ifaces)
    BY DEF Touched, OnlyAt
  <1>2. Listed(u.ifaces, t.subnets) /\ Attached(u.ifaces, t.subnets)
    BY <1>1, KeepEnds DEF Sound
  <1> QED
    BY <1>1, <1>2 DEF Sound, SameRest

(* A link that was just made gets its delay and capacity at both ends. *)
LEMMA NewLink ==
  ASSUME NEW t, DBInv(t), NEW u, NEW i, NEW j, Pairing(t, u, i, j), NEW d \in Nat,
         NEW c \in Nat
  PROVE  DBInv(net_link_set_phys_attr(u, i, d, c, TRUE).net)
  <1> DEFINE v == net_link_set_phys_attr(u, i, d, c, TRUE).net
             g == u.ifaces
             h == v.ifaces
  <1>1. /\ Sound(u)
        /\ Linked(g, i) /\ g[i].dest = j /\ Linked(g, j) /\ g[j].dest = i
        /\ i \in DOMAIN g /\ j \in DOMAIN g /\ i[1] # j[1] /\ g[i].type = g[j].type
        /\ \A k \in DOMAIN g \ {i, j} :
             Linked(g, k) => PairedAt(g, k, g[k].dest) /\ g[k].dest \notin {i, j}
    BY PairEnds
  <1>2. Record(u) /\ IfacesOK(g) /\ Ends(u, i, TRUE) = {i, j}
    BY <1>1 DEF Sound, Ends
  <1>3. /\ Touched(u, v, {i, j})
        /\ \A k \in DOMAIN g \cap {i, j} : h[k].delay = d /\ h[k].capacity = c
    <2>1. Touched(u, v, Ends(u, i, TRUE)) /\ OneLine(u, v, Ends(u, i, TRUE), d, c)
      <3>1. i \in DOMAIN g /\ (TRUE => Linked(g, i))
        BY <1>1
      <3>2. TRUE \in BOOLEAN
        OBVIOUS
      <3> QED
        BY <1>2, <3>1, <3>2, PhysAttr, Zenon
    <2> QED
      BY <1>2, <2>1, Zenon DEF OneLine
  <1> HIDE DEF v
  <1>4. Sound(v)
    BY <1>1, <1>3, TouchedSound
  <1>5. /\ DOMAIN h = DOMAIN g
        /\ \A k \in DOMAIN g : /\ k \notin {i, j} => h[k] = g[k]
                               /\ h[k].type = g[k].type /\ h[k].connected = g[k].connected
                               /\ h[k].dest = g[k].dest
    BY <1>3 DEF Touched, OnlyAt, SameEnds
  <1>6. \A k \in {i, j} : h[k].delay = d /\ h[k].capacity = c
    BY <1>1, <1>3
  <1> HIDE DEF g, h
  <1>7. ASSUME NEW k \in DOMAIN h, Linked(h, k)
        PROVE  PairedAt(h, k, h[k].dest)
    <2>1. CASE k \in {i, j}
      BY <1>1, <1>5, <1>6, <2>1 DEF PairedAt, Linked
    <2>2. CASE k \notin {i, j}
      <3>1. k \in DOMAIN g \ {i, j} /\ Linked(g, k) /\ h[k] = g[k]
        BY <1>5, <1>7, <2>2 DEF Linked
      <3>2. PairedAt(g, k, g[k].dest) /\ g[k].dest \notin {i, j}
        BY <1>1, <3>1
      <3> QED
        BY <1>5, <3>1, <3>2 DEF PairedAt
    <2> QED
      BY <2>1, <2>2
  <1>8. Paired(h)
    BY <1>7 DEF Paired
  <1> QED
    BY <1>4, <1>8, Zenon DEF DBInv, h, v

(* What the functions that create a link between interfaces i and j give:  *)
(* no link, or one whose delay and capacity are still to be set.           *)
Created(c, i, j) ==
  \/ c.err # "ESUCCESS" /\ DBInv(c.net)
  \/ c.err = "ESUCCESS" /\ \E v : DBInv(v) /\ Pairing(v, c.net, i, j)

LEMMA TwoEnds ==
  ASSUME NEW t, DBInv(t), NEW s \in DOMAIN t.nodes, s \in Nat, NEW d \in DOMAIN t.nodes,
         d \in Nat, NEW sid \in Prefix, NEW did \in Prefix, NEW type \in LinkTypes,
         NEW r1, r1 = _net_link_create_iface(t, s, sid, type),
         NEW r2, r2 = IF r1.err = "ESUCCESS"
                      THEN _net_link_create_iface(r1.net, d, did, type) ELSE r1
  PROVE  Created(Connect(r2, <<s, sid[1]>>, <<d, did[1]>>, TRUE), <<s, sid[1]>>, <<d, did[1]>>)
  <1> DEFINE i == <<s, sid[1]>>
             j == <<d, did[1]>>
             c == Connect(r2, i, j, TRUE)
             b == _net_link_create_iface(r1.net, d, did, type)
  <1>1. type \in IfaceTypes
    BY DEF LinkTypes, IfaceTypes, HostTypes
  <1>2. /\ DBInv(r1.net) /\ SameRest(t, r1.net)
        /\ r1.err = "ESUCCESS" => i \in DOMAIN r1.net.ifaces
    BY <1>1, LinkIface, Zenon
  <1>3. d \in DOMAIN r1.net.nodes
    BY <1>2 DEF SameRest
  <1>4. /\ DBInv(b.net) /\ Grown(r1.net, b.net)
        /\ b.err = "ESUCCESS" => j \in DOMAIN b.net.ifaces
    BY <1>1, <1>2, <1>3, LinkIface, Zenon
  <1>5. /\ DBInv(r2.net)
        /\ r2.err = "ESUCCESS" => i \in DOMAIN r2.net.ifaces /\ j \in DOMAIN r2.net.ifaces
    BY <1>2, <1>4 DEF Grown
  <1>6. CASE r2.err # "ESUCCESS"
    <2>1. c = r2
      BY <1>6 DEF Connect, Let, Then
    <2> QED
      BY <1>5, <1>6, <2>1, Zenon DEF Created
  <1>7. CASE r2.err = "ESUCCESS"
    <2> HIDE DEF i, j, c
    <2>1. \/ c.err # "ESUCCESS" /\ c.net = r2.net
          \/ c.err = "ESUCCESS" /\ Pairing(r2.net, c.net, i, j)
      BY <1>5, <1>7, ConnectBoth, Zenon DEF c
    <2>2. Created(c, i, j)
      BY <1>5, <2>1 DEF Created
    <2> QED
      BY <2>2, Zenon DEF c, i, j
  <1> QED
    BY <1>6, <1>7, Zenon

(* The link between two routers (net_link_create_rtr). *)
LEMMA CreateRtr ==
  ASSUME NEW t, DBInv(t), NEW s \in DOMAIN t.nodes, s \in Address,
         NEW d \in DOMAIN t.nodes, d \in Address
  PROVE  Created(net_link_create_rtr(t, s, d, TRUE), <<s, d>>, <<d, s>>)
  <1> DEFINE r1 == _net_link_create_iface(t, s, <<d, W>>, "rtr")
             r2 == IF r1.err = "ESUCCESS"
                   THEN _net_link_create_iface(r1.net, d, <<s, W>>, "rtr") ELSE r1
  <1>1. CASE s = d
    BY <1>1 DEF net_link_create_rtr, Fail, Created
  <1>2. CASE s # d
    <2>1. net_link_create_rtr(t, s, d, TRUE) = Connect(r2, <<s, d>>, <<d, s>>, TRUE)
      BY <1>2 DEF net_link_create_rtr, Let, Then
    <2>2. /\ <<d, W>> \in Prefix /\ <<s, W>> \in Prefix /\ "rtr" \in LinkTypes
          /\ s \in Nat /\ d \in Nat
          /\ <<d, W>>[1] = d /\ <<s, W>>[1] = s
      BY WAssumption DEF Prefix, Address, LinkTypes
    <2> HIDE DEF r1, r2
    <2>3. Created(Connect(r2, <<s, <<d, W>>[1]>>, <<d, <<s, W>>[1]>>, TRUE),
                  <<s, <<d, W>>[1]>>, <<d, <<s, W>>[1]>>)
      BY <2>2, TwoEnds, Zenon DEF r1, r2
    <2> QED
      BY <2>1, <2>2, <2>3, Zenon
  <1> QED
    BY <1>1, <1>2, Zenon

(* The link between two interfaces (net_link_create_ptp). *)
LEMMA CreatePtp ==
  ASSUME NEW t, DBInv(t), NEW s \in DOMAIN t.nodes, s \in Nat, NEW d \in DOMAIN t.nodes,
         d \in Nat, NEW sid \in Prefix, NEW did \in Prefix
  PROVE  Created(net_link_create_ptp(t, s, sid, d, did), <<s, sid[1]>>, <<d, did[1]>>)
  <1> DEFINE r == net_link_create_ptp(t, s, sid, d, did)
             r1 == _net_link_create_iface(t, s, sid, "ptp")
             r2 == IF r1.err = "ESUCCESS"
                   THEN _net_link_create_iface(r1.net, d, did, "ptp") ELSE r1
             c == Connect(r2, <<s, sid[1]>>, <<d, did[1]>>, TRUE)
  <1>1. r = c \/ (r.err # "ESUCCESS" /\ r.net = t)
    BY Zenon DEF net_link_create_ptp, Then, Fail
  <1> HIDE DEF r, r1, r2
  <1>2. "ptp" \in LinkTypes
    BY DEF LinkTypes
  <1>3. Created(c, <<s, sid[1]>>, <<d, did[1]>>)
    BY <1>2, TwoEnds, Zenon DEF r1, r2
  <1> HIDE DEF c
  <1> QED
    BY <1>1, <1>3 DEF Created, r

(* An interface that is new and connected to a subnet: the subnet has its  *)
(* address already, or lists it.                                           *)
NewOnSubnet(f, g, k, s) ==
  /\ k \notin DOMAIN f /\ DOMAIN g = DOMAIN f \cup {k}
  /\ \A i \in DOMAIN f : g[i] = f[i]
  /\ g[k].type = "ptmp" /\ g[k].connected /\ g[k].dest = s

LEMMA NewPaired ==
  ASSUME NEW f, NEW g, NEW k, NEW s, NewOnSubnet(f, g, k, s), Paired(f)
  PROVE  Paired(g)
  <1> SUFFICES ASSUME NEW i \in DOMAIN g, Linked(g, i)
               PROVE  PairedAt(g, i, g[i].dest)
    BY DEF Paired
  <1>1. i # k /\ i \in DOMAIN f /\ g[i] = f[i] /\ Linked(f, i)
    BY DEF NewOnSubnet, Linked, LinkTypes
  <1>2. PairedAt(f, i, f[i].dest)
    BY <1>1 DEF Paired
  <1> QED
    BY <1>1, <1>2 DEF PairedAt, NewOnSubnet

(* The subnet refuses the interface: the address is found there, once. *)
LEMMA AddressTaken ==
  ASSUME NEW f, NEW g, NEW k, NEW s, NewOnSubnet(f, g, k, s), NEW sub, s \in DOMAIN sub,
         Listed(f, sub), Attached(f, sub), NEW h \in sub[s].ifaces, h[2] = k[2]
  PROVE  Listed(g, sub) /\ Attached(g, sub)
  <1>1. Listed(g, sub)
    BY DEF Listed, OnSubnet, NewOnSubnet
  <1>2. h \in DOMAIN f /\ OnSubnet(f, h) /\ f[h].dest = s
    BY DEF Listed
  <1>3. PICK q \in sub[s].ifaces : \A x \in sub[s].ifaces : x[2] = h[2] <=> x = q
    BY <1>2 DEF Attached
  <1>4. ASSUME NEW i \in DOMAIN g, OnSubnet(g, i)
        PROVE  /\ g[i].dest \in DOMAIN sub
               /\ \E y \in sub[g[i].dest].ifaces :
                    \A x \in sub[g[i].dest].ifaces : x[2] = i[2] <=> x = y
    <2>1. CASE i = k
      BY <1>3, <2>1 DEF NewOnSubnet
    <2>2. CASE i # k
      <3>1. i \in DOMAIN f /\ g[i] = f[i] /\ OnSubnet(f, i)
        BY <1>4, <2>2 DEF NewOnSubnet, OnSubnet
      <3> QED
        BY <3>1 DEF Attached
    <2> QED
      BY <2>1, <2>2
  <1> QED
    BY <1>1, <1>4 DEF Attached

(* Subnet s lists one more interface, whose address is its only one. *)
ListsAlso(sub, sub2, s, k) ==
  /\ \A h \in sub[s].ifaces : h[2] # k[2]
  /\ DOMAIN sub2 = DOMAIN sub /\ sub2[s].ifaces = sub[s].ifaces \cup {k}
  /\ \A q \in DOMAIN sub : q # s => sub2[q] = sub[q]

(* The subnet lists the interface. *)
LEMMA AddressFree ==
  ASSUME NEW f, NEW g, NEW k, NEW s, NewOnSubnet(f, g, k, s), NEW sub, s \in DOMAIN sub,
         Listed(f, sub), Attached(f, sub), ip_address_in_prefix(k[2], s),
         NEW sub2, ListsAlso(sub, sub2, s, k)
  PROVE  Listed(g, sub2) /\ Attached(g, sub2)
  <1>0. /\ \A h \in sub[s].ifaces : h[2] # k[2]
        /\ DOMAIN sub2 = DOMAIN sub /\ sub2[s].ifaces = sub[s].ifaces \cup {k}
        /\ \A q \in DOMAIN sub : q # s => sub2[q] = sub[q]
    BY DEF ListsAlso
  <1>1. ASSUME NEW q \in DOMAIN sub2, NEW i \in sub2[q].ifaces
        PROVE  /\ i \in DOMAIN g /\ OnSubnet(g, i) /\ g[i].dest = q
               /\ ip_address_in_prefix(i[2], q)
    <2>1. CASE i \in sub[q].ifaces
      <3>1. /\ i \in DOMAIN f /\ OnSubnet(f, i) /\ f[i].dest = q
            /\ ip_address_in_prefix(i[2], q)
        BY <1>0, <2>1 DEF Listed
      <3> QED
        BY <3>1 DEF NewOnSubnet, OnSubnet
    <2>2. CASE i \notin sub[q].ifaces
      <3>1. q = s /\ i = k
        BY <1>0, <1>1, <2>2
      <3> QED
        BY <3>1 DEF NewOnSubnet, OnSubnet
    <2> QED
      BY <2>1, <2>2
  <1>2. ASSUME NEW i \in DOMAIN g, OnSubnet(g, i)
        PROVE  /\ g[i].dest \in DOMAIN sub2
               /\ \E y \in sub2[g[i].dest].ifaces :
                    \A x \in sub2[g[i].dest].ifaces : x[2] = i[2] <=> x = y
    <2>1. CASE i = k
      <3>1. g[i].dest = s
        BY <2>1 DEF NewOnSubnet
      <3>2. k \in sub2[s].ifaces /\ \A x \in sub2[s].ifaces : x[2] = k[2] <=> x = k
        BY <1>0
      <3> QED
        BY <1>0, <2>1, <3>1, <3>2
    <2>2. CASE i # k
      <3>1. i \in DOMAIN f /\ g[i] = f[i] /\ OnSubnet(f, i)
        BY <1>2, <2>2 DEF NewOnSubnet, OnSubnet
      <3>2. f[i].dest \in DOMAIN sub
        BY <3>1 DEF Attached
      <3>3. PICK y \in sub[f[i].dest].ifaces :
                   \A x \in sub[f[i].dest].ifaces : x[2] = i[2] <=> x = y
        BY <3>1 DEF Attached
      <3>4. y[2] = i[2] /\ y \in sub2[f[i].dest].ifaces
        BY <1>0, <3>2, <3>3
      <3>5. f[i].dest = s => i[2] # k[2]
        BY <1>0, <3>3, <3>4
      <3>6. \A x \in sub2[f[i].dest].ifaces : x[2] = i[2] <=> x = y
        BY <1>0, <3>2, <3>3, <3>4, <3>5
      <3> QED
        BY <1>0, <3>1, <3>2, <3>4, <3>6
    <2> QED
      BY <2>1, <2>2
  <1> QED
    BY <1>1, <1>2 DEF Listed, Attached

(* The link between a router and a subnet (net_link_create_ptmp). *)
LEMMA CreatePtmp ==
  ASSUME NEW t, DBInv(t), NEW n \in DOMAIN t.nodes, n \in Nat, NEW p \in Prefix,
         NEW s \in DOMAIN t.subnets, s = ip_prefix_mask(p), NEW a, a = p[1]
  PROVE  LET r == net_link_create_ptmp(t, n, s, a)
         IN /\ DBInv(r.net)
            /\ r.err = "ESUCCESS" => /\ <<n, a>> \in DOMAIN r.net.ifaces
                                     /\ r.net.ifaces[<<n, a>>].type = "ptmp"
  <1> DEFINE k == <<n, a>>
             r1 == node_add_iface(t, n, <<a, s[2]>>, "ptmp")
             u1 == r1.net
             u2 == Attach(u1, k, s)
             u3 == [u2 EXCEPT !.subnets[s].ifaces = @ \cup {k}]
             r == net_link_create_ptmp(t, n, s, a)
  <1>1. /\ <<a, s[2]>> = p /\ s \in Keys /\ ip_address_in_prefix(a, s)
        /\ "ptmp" \in IfaceTypes /\ a \in Nat /\ k[2] = a /\ k[1] = n
    BY MaskType DEF IfaceTypes
  <1>2. /\ Record(t) /\ IfacesOK(t.ifaces) /\ SubnetsOK(t.subnets)
        /\ \A i \in DOMAIN t.ifaces : i[1] \in DOMAIN t.nodes
        /\ Listed(t.ifaces, t.subnets) /\ Attached(t.ifaces, t.subnets) /\ Paired(t.ifaces)
    BY DEF DBInv, Sound
  <1> DEFINE x == net_iface_new("ptmp", s[2])
  <1>3. /\ DBInv(u1) /\ SameRest(t, u1)
        /\ r1.err = "ESUCCESS" => /\ k \notin DOMAIN t.ifaces
                                  /\ u1.ifaces = Including(t.ifaces, k, x)
    <2> DEFINE b == node_add_iface(t, n, p, "ptmp")
    <2>1. /\ DBInv(b.net) /\ SameRest(t, b.net)
          /\ b.err = "ESUCCESS" =>
               /\ <<n, p[1]>> \notin DOMAIN t.ifaces
               /\ b.net.ifaces = Including(t.ifaces, <<n, p[1]>>, net_iface_new("ptmp", p[2]))
      BY <1>1, AddIface, Zenon
    <2>2. p[2] = s[2] /\ r1 = b
      BY <1>1, MaskType
    <2> HIDE DEF b, r1
    <2> QED
      BY <2>1, <2>2
  <1>4. CASE r1.err # "ESUCCESS"
    <2>1. r = r1
      BY <1>4 DEF net_link_create_ptmp, Then
    <2> QED
      BY <1>3, <1>4, <2>1
  <1>5. CASE r1.err = "ESUCCESS"
    <2>1. x.type = "ptmp" /\ ~ x.connected /\ x \in Ifaces
      <3>1. s[2] \in Nat
        BY MaskType, WAssumption
      <3> QED
        BY <1>1, <3>1, NewIface, Zenon
    <2> HIDE DEF x, k, u1
    <2>2. k \in DOMAIN u1.ifaces /\ u1.ifaces[k] = x /\ k \notin DOMAIN t.ifaces
          /\ DOMAIN u1.ifaces = DOMAIN t.ifaces \cup {k}
          /\ \A i \in DOMAIN t.ifaces : u1.ifaces[i] = t.ifaces[i]
      BY <1>3, <1>5 DEF Including
    <2>3. net_iface_connect_subnet(u1, k, s) = Ok(u2)
      BY <2>1, <2>2 DEF net_iface_connect_subnet
    <2>4. r = subnet_add_link(u2, s, k)
      BY <1>5, <2>3 DEF net_link_create_ptmp, Then, Ok, u1, k
    <2>5. OnlyAt(u1, u2, {k}) /\ u2.ifaces[k] = Joined(x, s)
      BY <1>1, <1>3, <2>2, JoinOne DEF DBInv, Sound
    <2> HIDE DEF u2
    <2>6. NewOnSubnet(t.ifaces, u2.ifaces, k, s)
      BY <1>1, <2>1, <2>2, <2>5, JoinedIs DEF NewOnSubnet, OnlyAt
    <2>7. /\ Record(u2) /\ IfacesOK(u2.ifaces) /\ u2.nodes = t.nodes /\ u2.subnets = t.subnets
          /\ \A i \in DOMAIN u2.ifaces : i[1] \in DOMAIN t.nodes
          /\ k \in DOMAIN u2.ifaces /\ u2.ifaces[k].type = "ptmp"
      BY <1>1, <1>2, <1>3, <2>2, <2>5, <2>6 DEF OnlyAt, SameRest, NewOnSubnet
    <2>8. Paired(u2.ifaces)
      BY <1>2, <2>6, NewPaired
    <2>9. CASE net_subnet_find_link(u2, s, k[2]) # {}
      <3>1. r.net = u2 /\ r.err # "ESUCCESS"
        BY <2>4, <2>9 DEF subnet_add_link, Fail
      <3>2. PICK h \in t.subnets[s].ifaces : h[2] = k[2]
        BY <2>7, <2>9 DEF net_subnet_find_link
      <3>3. Listed(u2.ifaces, t.subnets) /\ Attached(u2.ifaces, t.subnets)
        BY <1>2, <2>6, <3>2, AddressTaken
      <3> QED
        BY <1>2, <2>7, <2>8, <3>1, <3>3 DEF DBInv, Sound
    <2>10. CASE net_subnet_find_link(u2, s, k[2]) = {}
      <3>1. r.net = u3
        BY <2>4, <2>10 DEF subnet_add_link, Ok
      <3>2. \A h \in t.subnets[s].ifaces : h[2] # k[2]
        BY <2>7, <2>10 DEF net_subnet_find_link
      <3>3. k \in Keys
        BY <2>7 DEF IfacesOK
      <3> DEFINE z == [t.subnets EXCEPT ![s].ifaces = @ \cup {k}]
      <3>10. u3 = [u2 EXCEPT !.subnets = z]
        BY <2>7
      <3>5. SubnetsOK(z) /\ ListsAlso(t.subnets, z, s, k)
        BY <1>2, <3>2, <3>3 DEF SubnetsOK, ListsAlso
      <3> HIDE DEF u3, z
      <3>4. /\ Record(u3) /\ u3.ifaces = u2.ifaces /\ u3.nodes = t.nodes
            /\ u3.subnets = z
        BY <2>7, <3>10 DEF Record
      <3>6. ip_address_in_prefix(k[2], s)
        BY <1>1 DEF k
      <3>7. Listed(u2.ifaces, u3.subnets) /\ Attached(u2.ifaces, u3.subnets)
        BY <1>2, <2>6, <3>4, <3>5, <3>6, AddressFree, Zenon
      <3>8. DBInv(u3)
        BY <2>7, <2>8, <3>4, <3>5, <3>7 DEF DBInv, Sound
      <3>9. k \in DOMAIN u3.ifaces /\ u3.ifaces[k].type = "ptmp"
        BY <2>7, <3>4
      <3> QED
        BY <3>1, <3>8, <3>9 DEF k
    <2> QED
      BY <2>9, <2>10 DEF k
  <1> QED
    BY <1>4, <1>5

-----------------------------------------------------------------------------
(* The commands. *)

LEMMA AddNode ==
  ASSUME NEW t, DBInv(t), NEW rid \in Address, NEW loopback \in BOOLEAN
  PROVE  DBInv(cli_net_add_node(t, rid, loopback).net)
  <1> DEFINE r == cli_net_add_node(t, rid, loopback)
             g == Including(t.nodes, rid, node_create)
             u == [t EXCEPT !.nodes = g]
             a == node_add_iface(u, rid, <<rid, W>>, "loopback")
  <1>1. r.net = t \/ r.net = u \/ r.net = a.net
    BY DEF cli_net_add_node, network_add_node, Then, Ok, Fail
  <1>2. DOMAIN t.nodes \subseteq DOMAIN g /\ rid \in DOMAIN g
    BY DEF Including
  <1> HIDE DEF r, g
  <1>3. Record(u) /\ u.nodes = g /\ u.ifaces = t.ifaces /\ u.subnets = t.subnets
    BY DEF DBInv, Sound, Record
  <1> HIDE DEF u
  <1>4. DBInv(u)
    BY <1>2, <1>3 DEF DBInv, Sound
  <1>5. DBInv(a.net)
    <2>1. /\ rid \in DOMAIN u.nodes /\ rid \in Nat /\ <<rid, W>> \in Prefix
          /\ "loopback" \in IfaceTypes
      BY <1>2, <1>3, WAssumption DEF Prefix, Address, IfaceTypes, HostTypes
    <2> QED
      BY <1>4, <2>1, AddIface, Zenon
  <1> QED
    BY <1>1, <1>4, <1>5 DEF r

LEMMA AddSubnet ==
  ASSUME NEW t, DBInv(t), NEW p \in Prefix, NEW type \in SubnetTypes
  PROVE  DBInv(cli_net_add_subnet(t, p, type).net)
  <1> DEFINE r == cli_net_add_subnet(t, p, type)
             q == ip_prefix_mask(p)
             g == Including(t.subnets, q, [type |-> type, ifaces |-> {}])
             u == [t EXCEPT !.subnets = g]
  <1>1. r.net = t \/ (r.net = u /\ q \notin DOMAIN t.subnets)
    BY DEF cli_net_add_subnet, network_add_subnet, Ok, Fail
  <1>2. q \in Keys
    BY MaskType
  <1> HIDE DEF r, q
  <1>3. ASSUME q \notin DOMAIN t.subnets
        PROVE  DBInv(u)
    <2>1. /\ DOMAIN g = DOMAIN t.subnets \cup {q} /\ g[q] = [type |-> type, ifaces |-> {}]
          /\ \A s \in DOMAIN t.subnets : g[s] = t.subnets[s]
          /\ g = [s \in DOMAIN g |-> g[s]]
      BY <1>3 DEF Including
    <2> HIDE DEF g
    <2>2. SubnetsOK(g)
      BY <1>2, <2>1 DEF DBInv, Sound, SubnetsOK
    <2>3. Record(u) /\ u.nodes = t.nodes /\ u.ifaces = t.ifaces /\ u.subnets = g
      BY DEF DBInv, Sound, Record
    <2> HIDE DEF u
    <2>4. Listed(t.ifaces, g)
      BY <2>1 DEF DBInv, Sound, Listed
    <2>5. Attached(t.ifaces, g)
      BY <1>3, <2>1 DEF DBInv, Sound, Attached
    <2> QED
      BY <2>2, <2>3, <2>4, <2>5 DEF DBInv, Sound
  <1> QED
    BY <1>1, <1>3 DEF r

LEMMA AddLink ==
  ASSUME NEW t, DBInv(t), NEW s \in Address, NEW dest \in Destinations, NEW d \in Nat,
         NEW c \in Nat
  PROVE  DBInv(cli_net_add_link(t, s, dest, d, c).net)
  <1> DEFINE r == cli_net_add_link(t, s, dest, d, c)
             p == dest.prefix
             a == p[1]
             q == ip_prefix_mask(p)
             rtr == net_link_create_rtr(t, s, a, TRUE)
             ptmp == net_link_create_ptmp(t, s, q, a)
  <1>1. p \in Prefix /\ a \in Address /\ s \in Nat
    BY DEF Destinations, Prefix, Address
  <1>2. \/ r.net = t
        \/ /\ s \in DOMAIN t.nodes /\ a \in DOMAIN t.nodes
           /\ r = IF rtr.err = "ESUCCESS"
                  THEN net_link_set_phys_attr(rtr.net, <<s, a>>, d, c, TRUE) ELSE rtr
        \/ /\ s \in DOMAIN t.nodes /\ q \in DOMAIN t.subnets
           /\ r = IF ptmp.err = "ESUCCESS"
                  THEN net_link_set_phys_attr(ptmp.net, <<s, a>>, d, c, FALSE) ELSE ptmp
    BY Zenon DEF cli_net_add_link, Then, Fail, Destinations
  <1> SUFFICES DBInv(r.net)
    OBVIOUS
  <1> HIDE DEF r, p, a, q
  <1>3. CASE /\ s \in DOMAIN t.nodes /\ a \in DOMAIN t.nodes
             /\ r = IF rtr.err = "ESUCCESS"
                    THEN net_link_set_phys_attr(rtr.net, <<s, a>>, d, c, TRUE) ELSE rtr
    <2>1. Created(rtr, <<s, a>>, <<a, s>>)
      BY <1>1, <1>3, CreateRtr, Zenon
    <2> HIDE DEF rtr
    <2>2. CASE rtr.err # "ESUCCESS"
      BY <1>3, <2>1, <2>2 DEF Created
    <2>3. CASE rtr.err = "ESUCCESS"
      <3>1. PICK v : DBInv(v) /\ Pairing(v, rtr.net, <<s, a>>, <<a, s>>)
        BY <2>1, <2>3 DEF Created
      <3>2. DBInv(net_link_set_phys_attr(rtr.net, <<s, a>>, d, c, TRUE).net)
        BY <3>1, NewLink, Zenon
      <3> QED
        BY <1>3, <2>3, <3>2, Zenon
    <2> QED
      BY <2>2, <2>3
  <1>4. CASE /\ s \in DOMAIN t.nodes /\ q \in DOMAIN t.subnets
             /\ r = IF ptmp.err = "ESUCCESS"
                    THEN net_link_set_phys_attr(ptmp.net, <<s, a>>, d, c, FALSE) ELSE ptmp
    <2> DEFINE u == ptmp.net
               k == <<s, a>>
    <2>1. /\ DBInv(u)
          /\ ptmp.err = "ESUCCESS" => k \in DOMAIN u.ifaces /\ u.ifaces[k].type = "ptmp"
      BY <1>1, <1>4, CreatePtmp DEF p, a, q
    <2> HIDE DEF ptmp, u, k
    <2>2. CASE ptmp.err # "ESUCCESS"
      BY <1>4, <2>1, <2>2 DEF u
    <2>3. CASE ptmp.err = "ESUCCESS"
      <3> DEFINE v == net_link_set_phys_attr(u, k, d, c, FALSE).net
      <3>1. Touched(u, v, Ends(u, k, FALSE))
        <4>1. Record(u) /\ IfacesOK(u.ifaces) /\ k \in DOMAIN u.ifaces /\ FALSE \in BOOLEAN
          BY <2>1, <2>3 DEF DBInv, Sound
        <4> QED
          BY <4>1, PhysAttr, Zenon
      <3>2. Ends(u, k, FALSE) = {k} /\ ~ Linked(u.ifaces, k) /\ Paired(u.ifaces)
        BY <2>1, <2>3 DEF Ends, Linked, LinkTypes, DBInv
      <3> HIDE DEF v
      <3>3. Sound(v)
        BY <2>1, <3>1, TouchedSound, ZenonT(30) DEF DBInv
      <3>4. Paired(v.ifaces)
        <4> SUFFICES ASSUME NEW i \in DOMAIN v.ifaces, Linked(v.ifaces, i)
                     PROVE  PairedAt(v.ifaces, i, v.ifaces[i].dest)
          BY DEF Paired
        <4>1. /\ DOMAIN v.ifaces = DOMAIN u.ifaces /\ SameEnds(u.ifaces, v.ifaces)
              /\ \A h \in DOMAIN u.ifaces : h # k => v.ifaces[h] = u.ifaces[h]
          BY <3>1, <3>2, Zenon DEF Touched, OnlyAt
        <4>2. i \in DOMAIN u.ifaces /\ Linked(u.ifaces, i)
          BY <4>1 DEF SameEnds, Linked
        <4>3. PairedAt(u.ifaces, i, u.ifaces[i].dest) /\ i # k
          BY <3>2, <4>2 DEF Paired
        <4>4. u.ifaces[i].dest \in DOMAIN u.ifaces /\ u.ifaces[i].dest # k
          BY <3>2, <4>2, <4>3 DEF PairedAt, Linked
        <4> QED
          BY <4>1, <4>2, <4>3, <4>4 DEF PairedAt
      <3> QED
        BY <1>4, <2>3, <3>3, <3>4, Zenon DEF DBInv, u, v, k
    <2> QED
      BY <2>2, <2>3
  <1> QED
    BY <1>2, <1>3, <1>4, Zenon

LEMMA AddTunnel ==
  ASSUME NEW t, DBInv(t), NEW n \in DOMAIN t.nodes, n \in Nat, NEW end \in Address,
         NEW a \in Address, NEW oif \in Address \cup {NoIf}, NEW src \in Address
  PROVE  DBInv(cli_net_node_tunnel_add(t, n, end, a, oif, src).net)
  <1> DEFINE r == cli_net_node_tunnel_add(t, n, end, a, oif, src)
             y == net_iface_new("virtual", W)
             dest == [end |-> end, oif |-> oif, src |-> src]
             x == [y EXCEPT !.connected = TRUE, !.dest = dest]
             u == [t EXCEPT !.ifaces = Including(@, <<n, a>>, x)]
  <1>1. r.net = t \/ (r.net = u /\ <<n, a>> \notin DOMAIN t.ifaces)
    BY DEF cli_net_node_tunnel_add, node_add_tunnel, ipip_link_create, node_add_iface2, Ok, Fail
  <1>2. a \in Nat /\ W \in Nat /\ dest \in Tunnels /\ "virtual" \in IfaceTypes
    BY WAssumption DEF Address, Tunnels, IfaceTypes, HostTypes
  <1>3. y \in Ifaces /\ y.type = "virtual"
    BY <1>2, NewIface
  <1> HIDE DEF r, y, dest
  <1>4. x \in Ifaces /\ x.type = "virtual"
    BY <1>2, <1>3, Zenon DEF Ifaces
  <1> HIDE DEF x
  <1>5. <<n, a>> \notin DOMAIN t.ifaces => DBInv(u)
    BY <1>2, <1>4, Include
  <1> HIDE DEF u
  <1> QED
    BY <1>1, <1>5 DEF r

LEMMA AddLinkPtp ==
  ASSUME NEW t, DBInv(t), NEW s \in Address, NEW e \in Address, NEW sid \in Prefix,
         NEW did \in Prefix, NEW d \in Nat, NEW c \in Nat
  PROVE  DBInv(cli_net_add_linkptp(t, s, sid, e, did, d, c).net)
  <1> DEFINE r == cli_net_add_linkptp(t, s, sid, e, did, d, c)
             i == <<s, sid[1]>>
             j == <<e, did[1]>>
             ptp == net_link_create_ptp(t, s, sid, e, did)
             v == net_link_set_phys_attr(ptp.net, i, d, c, TRUE)
  <1>1. \/ r.net = t
        \/ /\ s \in DOMAIN t.nodes /\ e \in DOMAIN t.nodes
           /\ r = IF ptp.err = "ESUCCESS" THEN v ELSE ptp
    BY Zenon DEF cli_net_add_linkptp, Then, Fail
  <1> SUFFICES ASSUME s \in DOMAIN t.nodes, e \in DOMAIN t.nodes,
                      r = IF ptp.err = "ESUCCESS" THEN v ELSE ptp
               PROVE  DBInv(r.net)
    BY <1>1, Zenon
  <1>2. s \in Nat /\ e \in Nat
    BY DEF Address
  <1>3. Created(ptp, i, j)
    BY <1>2, CreatePtp
  <1> HIDE DEF r, ptp, i, j
  <1>4. CASE ptp.err # "ESUCCESS"
    BY <1>3, <1>4 DEF Created
  <1>5. CASE ptp.err = "ESUCCESS"
    <2>1. PICK w : DBInv(w) /\ Pairing(w, ptp.net, i, j)
      BY <1>3, <1>5 DEF Created
    <2>2. DBInv(v.net)
      BY <2>1, NewLink, Zenon
    <2> QED
      BY <1>5, <2>2, Zenon
  <1> QED
    BY <1>4, <1>5, Zenon

(* An interface keeps its type, what it is connected to, and the line. *)
SameLink(x, y) ==
  /\ y.type = x.type /\ y.connected = x.connected /\ y.dest = x.dest
  /\ y.delay = x.delay /\ y.capacity = x.capacity

(* Changes of interfaces that leave the links as they are. *)
LEMMA KeepLinks ==
  ASSUME NEW t, DBInv(t), NEW g \in [DOMAIN t.ifaces -> Ifaces],
         \A k \in DOMAIN t.ifaces : SameLink(t.ifaces[k], g[k]),
         NEW u, u = [t EXCEPT !.ifaces = g]
  PROVE  DBInv(u)
  <1>1. Record(u) /\ u.ifaces = g /\ SameRest(t, u)
    BY SetIfaces DEF DBInv, Sound
  <1>2. IfacesOK(g) /\ SameEnds(t.ifaces, g) /\ SameLines(t.ifaces, g)
    BY DEF IfacesOK, SameEnds, SameLines, SameLink, DBInv, Sound
  <1> QED
    BY <1>1, <1>2, ChangeIfaces, Zenon

LEMMA KeepLink ==
  ASSUME NEW t, DBInv(t), NEW i \in DOMAIN t.ifaces, NEW y \in Ifaces,
         SameLink(t.ifaces[i], y), NEW u, u = [t EXCEPT !.ifaces[i] = y]
  PROVE  DBInv(u)
  <1> DEFINE g == [t.ifaces EXCEPT ![i] = y]
  <1>1. t.ifaces \in [DOMAIN t.ifaces -> Ifaces]
    BY DEF DBInv, Sound, IfacesOK
  <1>2. g \in [DOMAIN t.ifaces -> Ifaces] /\ u = [t EXCEPT !.ifaces = g]
    BY <1>1
  <1>3. \A k \in DOMAIN t.ifaces : SameLink(t.ifaces[k], g[k])
    BY <1>1 DEF SameLink
  <1> HIDE DEF g
  <1> QED
    BY <1>2, <1>3, KeepLinks

LEMMA FieldsKept ==
  ASSUME NEW x \in Ifaces
  PROVE  /\ \A on \in BOOLEAN :
              [x EXCEPT !.up = on] \in Ifaces /\ SameLink(x, [x EXCEPT !.up = on])
         /\ \A l \in 0 .. MaxLoad :
              [x EXCEPT !.load = l] \in Ifaces /\ SameLink(x, [x EXCEPT !.load = l])
         /\ \A w \in 0 .. MaxWeight :
              [x EXCEPT !.weight = w] \in Ifaces /\ SameLink(x, [x EXCEPT !.weight = w])
         /\ x.load \in 0 .. MaxLoad
         /\ SameLink(x, x)
  BY DEF Ifaces, SameLink

LEMMA SetEnabled ==
  ASSUME NEW t, DBInv(t), NEW i \in DOMAIN t.ifaces, NEW on \in BOOLEAN
  PROVE  DBInv(net_iface_set_enabled(t, i, on))
  <1>1. t.ifaces[i] \in Ifaces
    BY DEF DBInv, Sound, IfacesOK
  <1> DEFINE y == [t.ifaces[i] EXCEPT !.up = on]
  <1>2. y \in Ifaces /\ SameLink(t.ifaces[i], y)
    BY <1>1, FieldsKept
  <1>3. net_iface_set_enabled(t, i, on) = [t EXCEPT !.ifaces[i] = y]
    BY DEF net_iface_set_enabled
  <1> HIDE DEF y
  <1> QED
    BY <1>2, <1>3, KeepLink

LEMMA SetLoad ==
  ASSUME NEW t, DBInv(t), NEW i \in DOMAIN t.ifaces, NEW l \in 0 .. MaxLoad
  PROVE  DBInv(net_iface_set_load(t, i, l))
  <1>1. t.ifaces[i] \in Ifaces
    BY DEF DBInv, Sound, IfacesOK
  <1> DEFINE y == [t.ifaces[i] EXCEPT !.load = l]
  <1>2. y \in Ifaces /\ SameLink(t.ifaces[i], y)
    BY <1>1, FieldsKept
  <1>3. net_iface_set_load(t, i, l) = [t EXCEPT !.ifaces[i] = y]
    BY DEF net_iface_set_load
  <1> HIDE DEF y
  <1> QED
    BY <1>2, <1>3, KeepLink

LEMMA AddLoad ==
  ASSUME NEW t, DBInv(t), NEW i \in DOMAIN t.ifaces, NEW l \in 0 .. MaxLoad
  PROVE  DBInv(net_iface_add_load(t, i, l))
  <1> DEFINE x == t.ifaces[i]
             m == IF x.load + l > MaxLoad THEN MaxLoad ELSE x.load + l
  <1>1. x \in Ifaces /\ x.load \in 0 .. MaxLoad
    BY FieldsKept DEF DBInv, Sound, IfacesOK
  <1>2. m \in 0 .. MaxLoad
    BY <1>1, BoundsAssumption
  <1>3. net_iface_add_load(t, i, l) = net_iface_set_load(t, i, m)
    BY DEF net_iface_add_load, net_iface_set_load
  <1> HIDE DEF m
  <1> QED
    BY <1>2, <1>3, SetLoad

LEMMA ClearLoads ==
  ASSUME NEW t, DBInv(t)
  PROVE  DBInv(network_ifaces_load_clear(t))
  <1> DEFINE g == [i \in DOMAIN t.ifaces |-> [t.ifaces[i] EXCEPT !.load = 0]]
  <1>1. \A i \in DOMAIN t.ifaces : t.ifaces[i] \in Ifaces
    BY DEF DBInv, Sound, IfacesOK
  <1>2. 0 \in 0 .. MaxLoad
    BY BoundsAssumption
  <1>3. \A i \in DOMAIN t.ifaces : g[i] \in Ifaces /\ SameLink(t.ifaces[i], g[i])
    BY <1>1, <1>2, FieldsKept
  <1>4. g \in [DOMAIN t.ifaces -> Ifaces]
    BY <1>3, Zenon
  <1>5. network_ifaces_load_clear(t) = [t EXCEPT !.ifaces = g]
    BY DEF network_ifaces_load_clear
  <1> HIDE DEF g
  <1> QED
    BY <1>3, <1>4, <1>5, KeepLinks

LEMMA SetMetric ==
  ASSUME NEW t, DBInv(t), NEW i \in DOMAIN t.ifaces, NEW w \in 0 .. MaxWeight,
         NEW bidir \in BOOLEAN
  PROVE  DBInv(net_iface_set_metric(t, i, w, bidir).net)
  <1> DEFINE K == Ends(t, i, bidir)
             r == net_iface_set_metric(t, i, w, bidir)
             g == [k \in DOMAIN t.ifaces |->
                     IF k \in K THEN [t.ifaces[k] EXCEPT !.weight = w] ELSE t.ifaces[k]]
  <1>1. r.net = t \/ r.net = [t EXCEPT !.ifaces = g]
    BY DEF net_iface_set_metric, SetBoth, Ok, Fail, Ends
  <1>2. \A k \in DOMAIN t.ifaces : t.ifaces[k] \in Ifaces
    BY DEF DBInv, Sound, IfacesOK
  <1>3. \A k \in DOMAIN t.ifaces : g[k] \in Ifaces /\ SameLink(t.ifaces[k], g[k])
    BY <1>2, FieldsKept
  <1>4. g \in [DOMAIN t.ifaces -> Ifaces]
    BY <1>3, Zenon
  <1> HIDE DEF r, g, K
  <1> QED
    BY <1>1, <1>3, <1>4, KeepLinks DEF r

-----------------------------------------------------------------------------
(* The theorems. *)

(* The commands that add something keep the invariant. *)
LEMMA BuildKeeps ==
  ASSUME NEW t, DBInv(t), NEW u, Build(t, u)
  PROVE  DBInv(u)
  <1>1. CASE \E rid \in Address, loopback \in BOOLEAN :
               u = cli_net_add_node(t, rid, loopback).net
    BY <1>1, AddNode, Zenon
  <1>2. CASE \E p \in Prefix, type \in SubnetTypes : u = cli_net_add_subnet(t, p, type).net
    BY <1>2, AddSubnet, Zenon
  <1>3. CASE \E s \in Address, dest \in Destinations, delay, capacity \in Nat :
               u = cli_net_add_link(t, s, dest, delay, capacity).net
    BY <1>3, AddLink, Zenon
  <1>4. CASE \E s, d \in Address, sid, did \in Prefix, delay, capacity \in Nat :
               u = cli_net_add_linkptp(t, s, sid, d, did, delay, capacity).net
    <2>1. PICK s, d \in Address, sid, did \in Prefix, delay, capacity \in Nat :
                 u = cli_net_add_linkptp(t, s, sid, d, did, delay, capacity).net
      BY <1>4
    <2> QED
      BY <2>1, AddLinkPtp
  <1>5. CASE \E n \in Address, id \in Prefix, type \in IfaceTypes :
               n \in DOMAIN t.nodes /\ u = cli_net_node_add_iface(t, n, id, type).net
    <2>1. PICK n \in Address, id \in Prefix, type \in IfaceTypes :
                 n \in DOMAIN t.nodes /\ u = cli_net_node_add_iface(t, n, id, type).net
      BY <1>5
    <2>2. u = t \/ u = node_add_iface(t, n, id, type).net
      BY <2>1 DEF cli_net_node_add_iface, Fail
    <2>3. n \in Nat
      BY DEF Address
    <2>4. DBInv(node_add_iface(t, n, id, type).net)
      BY <2>1, <2>3, AddIface, Zenon
    <2> QED
      BY <2>2, <2>4
  <1>6. CASE \E n, end, a, src \in Address, oif \in Address \cup {NoIf} :
               n \in DOMAIN t.nodes /\ u = cli_net_node_tunnel_add(t, n, end, a, oif, src).net
    <2>1. \A n \in Address : n \in Nat
      BY DEF Address
    <2> QED
      BY <1>6, <2>1, AddTunnel, ZenonT(30)
  <1> QED
    BY <1>1, <1>2, <1>3, <1>4, <1>5, <1>6, Zenon DEF Build

(* The commands that change interfaces keep the invariant. *)
LEMMA ChangeKeeps ==
  ASSUME NEW t, DBInv(t), NEW u, Change(t, u)
  PROVE  DBInv(u)
  <1>1. ASSUME NEW i \in DOMAIN t.ifaces
        PROVE  /\ DBInv(cli_net_link_up(t, i).net)
               /\ DBInv(cli_net_link_down(t, i).net)
               /\ DBInv(cli_iface_load_clear(t, i).net)
    <2>1. DBInv(net_iface_set_enabled(t, i, TRUE)) /\ DBInv(net_iface_set_enabled(t, i, FALSE))
      BY SetEnabled, Zenon
    <2>2. DBInv(net_iface_set_load(t, i, 0))
      BY BoundsAssumption, SetLoad
    <2> QED
      BY <2>1, <2>2, Zenon DEF cli_net_link_up, cli_net_link_down, cli_iface_load_clear, Ok
  <1>2. ASSUME NEW i \in DOMAIN t.ifaces, NEW l \in 0 .. MaxLoad
        PROVE  DBInv(cli_iface_load_add(t, i, l).net) /\ DBInv(net_iface_add_load(t, i, l))
    BY SetLoad, AddLoad DEF cli_iface_load_add, Ok
  <1>3. ASSUME NEW i \in DOMAIN t.ifaces, NEW w \in 0 .. MaxWeight, NEW tos,
               NEW bidir \in BOOLEAN
        PROVE  /\ DBInv(cli_net_link_igpweight(t, i, w, tos, bidir).net)
               /\ DBInv(cli_iface_igpweight(t, i, w).net)
    <2>1. DBInv(net_iface_set_metric(t, i, w, bidir).net)
      BY SetMetric
    <2>2. DBInv(net_iface_set_metric(t, i, w, FALSE).net)
      BY SetMetric, Zenon
    <2> QED
      BY <2>1, <2>2, Zenon DEF cli_net_link_igpweight, cli_iface_igpweight, Fail
  <1>4. DBInv(cli_net_links_load_clear(t).net)
    BY ClearLoads DEF cli_net_links_load_clear, Ok
  <1> QED
    BY <1>1, <1>2, <1>3, <1>4, Zenon DEF Change

(* The commands on routes, protocols and domains do, too. *)
LEMMA OtherKeeps ==
  ASSUME NEW t, DBInv(t), NEW u, Other(t, u)
  PROVE  DBInv(u)
  <1>1. PICK nodes, domains : /\ DOMAIN nodes = DOMAIN t.nodes
                              /\ u = [t EXCEPT !.nodes = nodes, !.domains = domains]
    BY Zenon DEF Other
  <1>2. Record(u) /\ u.nodes = nodes /\ u.ifaces = t.ifaces /\ u.subnets = t.subnets
    BY <1>1, Zenon DEF DBInv, Sound, Record
  <1> QED
    BY <1>1, <1>2 DEF DBInv, Sound

(* The invariant of the database holds before the first command and is     *)
(* kept by every command, also by the ones that fail half-way.             *)
THEOREM DatabaseInvariant == Spec => []DBInv(net)
  <1>1. Init => DBInv(net)
    <2> SUFFICES ASSUME Init PROVE DBInv(net)
      OBVIOUS
    <2>1. /\ net.nodes = <<>> /\ net.ifaces = <<>> /\ net.subnets = <<>>
          /\ Record(net)
      BY DEF Init, network_create, Record
    <2>2. DOMAIN <<>> = {}
      OBVIOUS
    <2> QED
      BY <2>1, <2>2 DEF DBInv, Sound, IfacesOK, SubnetsOK, Listed, Attached, Paired
  <1>2. DBInv(net) /\ [Next]_net => DBInv(net)'
    <2> SUFFICES ASSUME DBInv(net), [Next]_net PROVE DBInv(net')
      OBVIOUS
    <2>1. CASE Build(net, net')
      BY <2>1, BuildKeeps
    <2>2. CASE Change(net, net')
      BY <2>2, ChangeKeeps
    <2>3. CASE Other(net, net')
      BY <2>3, OtherKeeps
    <2>4. CASE UNCHANGED net
      BY <2>4
    <2> QED
      BY <2>1, <2>2, <2>3, <2>4, Zenon DEF Next
  <1> QED
    BY <1>1, <1>2, PTL DEF Spec

(* The two ends of a link know each other and the line, whatever commands  *)
(* were given and wherever they failed: net_link_create_rtr and            *)
(* net_link_create_ptp connect both interfaces or none.                    *)
THEOREM LinksStayPaired == Spec => []LinksPaired(net)
  <1>1. DBInv(net) => LinksPaired(net)
    <2> SUFFICES ASSUME DBInv(net), NEW i \in DOMAIN net.ifaces, Linked(net.ifaces, i)
                 PROVE  PairedAt(net.ifaces, i, net.ifaces[i].dest)
      BY Zenon DEF LinksPaired, Linked, PairedAt
    <2> QED
      BY DEF DBInv, Paired
  <1> QED
    BY <1>1, DatabaseInvariant, PTL

(* A subnet lists only interfaces that are connected to it and have an     *)
(* address in it, and lists the address of every interface connected to it *)
(* exactly once, although an interface stays connected to a subnet that    *)
(* refused to list it (subnet_add_link).                                   *)
THEOREM SubnetsStayPaired == Spec => []SubnetsPaired(net)
  <1>1. DBInv(net) => SubnetsPaired(net)
    <2> SUFFICES ASSUME DBInv(net) PROVE SubnetsPaired(net)
      OBVIOUS
    <2> DEFINE f == net.ifaces
               sub == net.subnets
    <2>1. Listed(f, sub) /\ Attached(f, sub)
      BY DEF DBInv, Sound
    <2>2. ASSUME NEW i \in DOMAIN f, OnSubnet(f, i)
          PROVE  /\ f[i].dest \in DOMAIN sub
                 /\ Cardinality(net_subnet_find_link(net, f[i].dest, i[2])) = 1
      <3>1. f[i].dest \in DOMAIN sub
        BY <2>1, <2>2 DEF Attached
      <3>2. PICK k \in sub[f[i].dest].ifaces :
                   \A h \in sub[f[i].dest].ifaces : h[2] = i[2] <=> h = k
        BY <2>1, <2>2 DEF Attached
      <3>3. net_subnet_find_link(net, f[i].dest, i[2]) = {k}
        BY <3>2 DEF net_subnet_find_link
      <3>4. Cardinality({k}) = 1
        BY FS_Singleton, Zenon
      <3> QED
        BY <3>1, <3>3, <3>4
    <2>3. \A s \in DOMAIN sub : \A i \in sub[s].ifaces :
            /\ i \in DOMAIN f /\ OnSubnet(f, i) /\ f[i].dest = s
            /\ ip_address_in_prefix(i[2], s)
      BY <2>1 DEF Listed
    <2> QED
      BY <2>2, <2>3, Zenon DEF SubnetsPaired, OnSubnet
  <1> QED
    BY <1>1, DatabaseInvariant, PTL
-----------------------------------------------------------------------------
(* Lookups in a routing table. *)

(* Prefixes that are keys of a table: masked ones. *)
Masked(p) == p \in Prefix /\ p = ip_prefix_mask(p)

(* Arithmetic of masks. *)
LEMMA SmallDiv ==
  ASSUME NEW d \in Nat \ {0}, NEW x \in 0 .. d - 1
  PROVE  x \div d = 0
  OBVIOUS

(* Two masked prefixes of one length that cover an address are equal. *)
LEMMA SameCover ==
  ASSUME NEW p, Masked(p), NEW q, Masked(q), p[2] = q[2], NEW a \in Address,
         ip_address_in_prefix(a, p), ip_address_in_prefix(a, q)
  PROVE  p = q
  <1> DEFINE d == 2^(W - p[2])
  <1>1. /\ p \in Address \X (0 .. W) /\ q \in Address \X (0 .. W)
        /\ p = <<p[1], p[2]>> /\ q = <<q[1], q[2]>> /\ p[2] \in 0 .. W
    BY DEF Masked, Prefix
  <1>2. d \in Nat \ {0}
    BY <1>1, PowerAssumption
  <1>3. p[1] = (p[1] \div d) * d /\ q[1] = (q[1] \div d) * d
    BY <1>1 DEF Masked, ip_prefix_mask, ip_address_mask
  <1>4. p[1] \div d = q[1] \div d
    <2>1. CASE p[2] = 0
      <3>1. d = 2^W
        BY <2>1, WAssumption
      <3>2. p[1] \in 0 .. d - 1 /\ q[1] \in 0 .. d - 1
        BY <1>1, <3>1 DEF Address
      <3> HIDE DEF d
      <3> QED
        BY <1>2, <3>2, SmallDiv
    <2>2. CASE p[2] # 0
      BY <2>2 DEF ip_address_in_prefix
    <2> QED
      BY <2>1, <2>2
  <1> HIDE DEF d
  <1>5. p[1] = q[1]
    BY <1>3, <1>4
  <1> QED
    BY <1>1, <1>5

(* The longest prefix of a table that covers an address is one prefix      *)
(* (trie_find_best), so a lookup finds the routes of one key or none.      *)
THEOREM OneLongestMatch ==
  ASSUME NEW T, \A p \in DOMAIN T : Masked(p), NEW a \in Address
  PROVE  \A p, q \in trie_find_best(T, a) : p = q
  <1> SUFFICES ASSUME NEW p \in trie_find_best(T, a), NEW q \in trie_find_best(T, a)
               PROVE  p = q
    OBVIOUS
  <1>1. /\ p \in DOMAIN T /\ q \in DOMAIN T /\ Masked(p) /\ Masked(q)
        /\ ip_address_in_prefix(a, p) /\ ip_address_in_prefix(a, q)
        /\ p[2] <= q[2] /\ q[2] <= p[2]
    BY DEF trie_find_best
  <1>2. p[2] \in Nat /\ q[2] \in Nat
    BY <1>1, WAssumption DEF Masked, Prefix
  <1> QED
    BY <1>1, <1>2, SameCover

(* Rounding an address down to a multiple of d, once or twice, is the same. *)
LEMMA MaskTwice ==
  ASSUME NEW d \in Nat \ {0}, NEW a \in Nat
  PROVE  /\ (a \div d) * d \in 0 .. a
         /\ (((a \div d) * d) \div d) * d = (a \div d) * d
  <1> DEFINE m == a \div d
  <1>1. m \in Nat /\ m * d <= a
    OBVIOUS
  <1>2. (m * d) \div d = m
    BY <1>1, DivOfMultiple
  <1>3. m * d \in Nat
    BY <1>1
  <1> QED
    BY <1>1, <1>2, <1>3

(* The key a route is stored under is a masked prefix, whatever prefix the *)
(* command gives (rt_add_route stores under ip_prefix_mask of it).         *)
LEMMA MaskMasks ==
  ASSUME NEW p \in Prefix
  PROVE  Masked(ip_prefix_mask(p))
  <1> DEFINE d == 2^(W - p[2])
             m == (p[1] \div d) * d
  <1>1. p[1] \in Address /\ p[2] \in 0 .. W
    BY DEF Prefix
  <1>2. d \in Nat \ {0}
    BY <1>1, PowerAssumption
  <1>3. 2^W \in Nat \ {0} /\ p[1] \in 0 .. 2^W - 1
    BY <1>1, PowerAssumption, WAssumption DEF Address
  <1>4. ip_prefix_mask(p) = <<m, p[2]>>
    BY DEF ip_prefix_mask, ip_address_mask
  <1>5. ip_prefix_mask(<<m, p[2]>>) = <<(m \div d) * d, p[2]>>
    BY DEF ip_prefix_mask, ip_address_mask
  <1>6. m \in 0 .. p[1] /\ (m \div d) * d = m
    <2> DEFINE a == p[1]
    <2>1. a \in Nat
      BY <1>3
    <2> SUFFICES (a \div d) * d \in 0 .. a /\ (((a \div d) * d) \div d) * d = (a \div d) * d
      OBVIOUS
    <2> HIDE DEF d, a
    <2> QED
      BY <1>2, <2>1, MaskTwice
  <1>7. m \in Address
    BY <1>6, <1>3 DEF Address
  <1> HIDE DEF m, d
  <1> QED
    BY <1>1, <1>4, <1>5, <1>6, <1>7 DEF Masked, Prefix
=============================================================================
