----------------------------- MODULE RoutingTable -----------------------------
(***************************************************************************)
(* The routing table of a node (net/routing.c, net/rt_filter.c) and the    *)
(* operations of the node on it (net/node.c, cli/net_node.c).              *)
(*                                                                         *)
(* A table maps masked prefixes to non-empty lists of routes, sorted by    *)
(* type and metric without duplicates.  A route has one or more entries    *)
(* (outgoing interface, gateway), sorted by gateway, then by the address   *)
(* of the interface, without duplicates.  An entry of a BGP route has no   *)
(* interface: the gateway is looked up again when a message is sent.       *)
(***************************************************************************)
EXTENDS Topology, SequencesExt

(* The types, by decreasing preference. *)
RouteTypes == <<"direct", "static", "igp", "bgp">>

Rank(type) == CHOOSE k \in DOMAIN RouteTypes : RouteTypes[k] = type

(* NoIf is the outgoing interface of an entry that has none. *)

(* rt_entry_compare, as the number that sorts the entries of one gateway:  *)
(* an entry without an interface is behind all others.                     *)
OifOrder(e) == IF e.oif = NoIf THEN 2^W ELSE e.oif

rt_entry_before(e, f) ==
  e.gw < f.gw \/ (e.gw = f.gw /\ OifOrder(e) < OifOrder(f))

(* Two entries without an interface never compare equal. *)
rt_entry_same(e, f) == e = f /\ e.oif # NoIf

SortedInsert(s, x, Before(_, _)) ==
  InsertAt(s, 1 + Cardinality({k \in DOMAIN s : ~Before(x, s[k])}), x)

(* Both return the list unchanged when it has the item already. *)
rt_entries_add(entries, e) ==
  IF \E k \in DOMAIN entries : rt_entry_same(entries[k], e) THEN entries
  ELSE SortedInsert(entries, e, rt_entry_before)

_rt_info_list_cmp(a, b) ==
  Rank(a.type) < Rank(b.type) \/ (a.type = b.type /\ a.metric < b.metric)

_rt_info_list_add(list, info) ==
  IF \E k \in DOMAIN list : /\ list[k].type = info.type
                            /\ list[k].metric = info.metric
    THEN list
  ELSE SortedInsert(list, info, _rt_info_list_cmp)

rt_info_create(metric, type, entries) ==
  [metric |-> metric, type |-> type, entries |-> entries]

(* The first route of one of the types in the list of a prefix. *)
_rt_info_list_first(list, types) ==
  {list[k] : k \in {j \in DOMAIN list :
                      /\ list[j].type \in types
                      /\ \A h \in 1 .. j - 1 : list[h].type \notin types}}

(* No shorter prefix is tried when the longest has no route of the type. *)
rt_find_best(T, a, types) ==
  UNION {_rt_info_list_first(T[p], types) : p \in trie_find_best(T, a)}

rt_find_exact(T, p, types) ==
  IF ip_prefix_mask(p) \in DOMAIN T
    THEN _rt_info_list_first(T[ip_prefix_mask(p)], types)
  ELSE {}

rt_add_route(T, p, info) ==
  LET key == ip_prefix_mask(p)
  IN IF key \in DOMAIN T THEN [T EXCEPT ![key] = _rt_info_list_add(@, info)]
     ELSE Including(T, key, <<info>>)

(* A filter is [oif, gw, types]; oif and gw are sets, empty for a wildcard.*)
(* Only the first entry of a route is compared.                            *)
rt_filter_matches(info, filter) ==
  /\ filter.oif # {} => info.entries[1].oif \in filter.oif
  /\ filter.gw # {} => info.entries[1].gw \in filter.gw
  /\ info.type \in filter.types

_rt_info_list_del(list, filter) ==
  SelectSeq(list, LAMBDA info : ~rt_filter_matches(info, filter))

(* The lists that become empty leave the table. *)
rt_del_routes(T, keys, filter) ==
  Let([p \in DOMAIN T |-> IF p \in keys
                          THEN _rt_info_list_del(T[p], filter)
                          ELSE T[p]], LAMBDA left :
     [p \in {q \in DOMAIN T : left[q] # <<>>} |-> left[p]])

(* The result: an unknown prefix is an error, a filter without wildcards   *)
(* that removes nothing as well.                                           *)
rt_del_error(T, prefix, filter) ==
  IF prefix = {} THEN "ESUCCESS"
  ELSE IF ~(prefix \subseteq DOMAIN T) THEN "EUNSPECIFIED"
  ELSE IF /\ filter.oif # {} /\ filter.gw # {}
          /\ \A p \in prefix : _rt_info_list_del(T[p], filter) = T[p]
    THEN "ENET_RT_UNKNOWN"
  ELSE "ESUCCESS"

rt_del_route(T, prefix, oif, gw, type) ==
  LET filter == [oif |-> oif, gw |-> gw, types |-> {type}]
      keys == IF prefix = {} THEN DOMAIN T ELSE prefix \cap DOMAIN T
  IN [rt |-> rt_del_routes(T, keys, filter),
      err |-> rt_del_error(T, prefix, filter)]

(* The entries for an address, as a set of at most one list. *)
node_rt_lookup(t, n, a) ==
  {info.entries : info \in
     rt_find_best(t.nodes[n].rt, a, {"direct", "static", "igp", "bgp"})}

(* Is the gateway at the other end of the interface?  The interface is     *)
(* dereferenced without a test that it is connected (UNDEFINED), and the   *)
(* program aborts for the types that have no gateway.                      *)
gateway_check(t, i, gw) ==
  LET f == t.ifaces[i]
  IN IF f.type \in {"loopback", "virtual"} THEN "ABORT"
     ELSE IF ~f.connected THEN "UNDEFINED"
     ELSE IF \/ f.type = "rtr" /\ f.dest[1] = gw
             \/ f.type = "ptp" /\ node_has_address(t, f.dest[1], gw) # {}
             \/ /\ f.type = "ptmp" /\ gw # i[2]
                /\ net_subnet_find_link(t, f.dest, gw) # {}
       THEN "ESUCCESS"
     ELSE "ENET_RT_NH_UNREACH"

(* The route is a new one, or one more entry of the first of its type. *)
rt_add_entry(T, p, type, metric, e) ==
  Let(rt_find_exact(T, p, {type}), LAMBDA known :
  LET key == ip_prefix_mask(p)
      more(info) == [info EXCEPT !.entries = rt_entries_add(@, e)] IN
     IF known = {}
       THEN rt_add_route(T, p, rt_info_create(metric, type, <<e>>))
     ELSE [T EXCEPT ![key] = [k \in DOMAIN @ |->
             IF @[k] \in known THEN more(@[k]) ELSE @[k]]])

rt_add_error(T, p, type, e) ==
  IF \E info \in rt_find_exact(T, p, {type}) :
       rt_entries_add(info.entries, e) = info.entries
    THEN "ENET_RT_DUPLICATE"
  ELSE "ESUCCESS"

node_rt_add_route_link(t, n, p, oif, gw, metric, type) ==
  LET e == [gw |-> gw, oif |-> oif]
      T == t.nodes[n].rt IN
  Let(IF oif = NoIf THEN IF gw = ANY THEN "ENET_RT_NO_GW_NO_OIF"
                         ELSE "ESUCCESS"
      ELSE IF gw = ANY THEN "ESUCCESS"
      ELSE gateway_check(t, <<n, oif>>, gw), LAMBDA check :
     IF check # "ESUCCESS" THEN Fail(t, check)
     ELSE [net |-> [t EXCEPT !.nodes[n].rt =
                      rt_add_entry(T, p, type, metric, e)],
           err |-> rt_add_error(T, p, type, e)])

(* oif is ANY for no interface. *)
node_rt_add_route(t, n, p, oif, gw, metric, type) ==
  IF oif = ANY THEN node_rt_add_route_link(t, n, p, NoIf, gw, metric, type)
  ELSE IF <<n, oif>> \notin DOMAIN t.ifaces
    THEN Fail(t, "ENET_IFACE_UNKNOWN")
  ELSE IF t.ifaces[<<n, oif>>].type = "loopback"
    THEN Fail(t, "ENET_IFACE_INCOMPATIBLE")
  ELSE node_rt_add_route_link(t, n, p, oif, gw, metric, type)

(* An interface that the node does not have is a wildcard. *)
node_rt_del_route(t, n, prefix, oif, gw, type) ==
  LET known == {a \in oif : <<n, a>> \in DOMAIN t.ifaces}
      r == rt_del_route(t.nodes[n].rt, prefix, known, gw, type) IN
     [net |-> [t EXCEPT !.nodes[n].rt = r.rt], err |-> r.err]

cli_net_node_route_add(t, n, p, oif, gw, metric) ==
  node_rt_add_route(t, n, p, oif, gw, metric, "static")

(* The gateway is always compared: without the option it is IP_ADDR_ANY. *)
cli_net_node_route_del(t, n, p, oif, gw) ==
  node_rt_del_route(t, n, {ip_prefix_mask(p)}, oif, {gw}, "static")
=============================================================================
