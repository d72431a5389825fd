--------------------------------- MODULE IGP ---------------------------------
(***************************************************************************)
(* The static IGP (net/igp.c, net/spt.h, net/igp_domain.c): for every      *)
(* router of a domain, a shortest-path tree over nodes, subnets and        *)
(* point-to-point links, and from the tree the routes of the router.       *)
(*                                                                         *)
(* An element of the network is <<"node", router id>>, <<"subnet",         *)
(* prefix>> or <<"link", interface>>: the far interface of a ptp link.  A  *)
(* tree maps the masked prefix of an element, which is what the program    *)
(* indexes it by, to its vertex.  The two ends of a ptp link have the same *)
(* prefix and therefore share a vertex.                                    *)
(***************************************************************************)
EXTENDS RoutingTable

net_igp_add_weights(v, w) == IF v + w > MaxWeight THEN MaxWeight ELSE v + w

net_elem_prefix(t, e) ==
  CASE e[1] = "node" -> <<e[2], W>>
    [] e[1] = "subnet" -> e[2]
    [] e[1] = "link" -> ip_prefix_mask(net_iface_id(t, e[2]))

spt_vertex_create(e, w, preds) == [elem |-> e, weight |-> w, preds |-> preds]

(* The interfaces that are traversed when a vertex is visited. *)
spt_ifaces(t, e) ==
  CASE e[1] = "node" -> node_ifaces(t, e[2])
    [] e[1] = "subnet" ->
         IF t.subnets[e[2]].type = "transit"
         THEN SortedSeq(t.subnets[e[2]].ifaces, LAMBDA i, j : i[2] < j[2])
         ELSE <<>>
    [] e[1] = "link" -> <<t.ifaces[e[2]].dest>>

_link_get_next_elem(t, e, i) ==
  LET f == t.ifaces[i]
  IN IF e[1] = "subnet" THEN <<"node", i[1]>>
     ELSE IF e[1] = "link" \/ f.type = "rtr" THEN <<"node", f.dest[1]>>
     ELSE IF f.type = "ptmp" THEN <<"subnet", f.dest>>
     ELSE <<"link", f.dest>>

FirstPathKept(t, S, e, prev, w, iif) ==
  LET k == net_elem_prefix(t, e)
  IN IF k \in DOMAIN S.spt THEN S
     ELSE [S EXCEPT !.spt = @ @@ (k :> spt_vertex_create(e, w, {prev})),
                    !.fifo = Append(@, [iif |-> {iif}, at |-> k])]

(* The vertex of the element that the link leads to is created, improved,  *)
(* or gets one more predecessor.  It is visited (again) in the first two   *)
(* cases.  The element of a vertex is set once, when it is created.        *)
_spt_update_node(t, S, e, prev, w, iif) ==
  LET k == net_elem_prefix(t, e)
      visit == Append(S.fifo, [iif |-> {iif}, at |-> k]) IN
     IF k \notin DOMAIN S.spt
       THEN [S EXCEPT !.spt = @ @@ (k :> spt_vertex_create(e, w, {prev})),
                      !.fifo = visit]
     ELSE IF S.spt[k].weight > w
       THEN [S EXCEPT !.spt[k].weight = w, !.spt[k].preds = {prev},
                      !.fifo = visit]
     ELSE IF S.spt[k].weight = w THEN [S EXCEPT !.spt[k].preds = @ \cup {prev}]
     ELSE S

(* The owner of the far end of an rtr link is read before the test that    *)
(* the link is connected: the far end of one that is not is undefined.     *)
_link_traverse(t, routers, ctx, S, i) ==
  LET v == S.spt[ctx.at]
      f == t.ifaces[i]
      from == v.elem[1]
      next == _link_get_next_elem(t, v.elem, i)
      path == IF from = "node" THEN net_igp_add_weights(v.weight, f.weight)
              ELSE v.weight
  IN IF from = "node" /\ f.type = "rtr" /\ ~f.connected
       THEN [S EXCEPT !.undefined = TRUE]
     ELSE IF \/ from = "node" /\ f.type \in {"loopback", "virtual"}
             \/ next[1] = "node" /\ next[2] \notin routers
             \/ \E iif \in ctx.iif : /\ t.ifaces[iif].type \in LinkTypes
                                     /\ t.ifaces[iif].dest = i
             \/ ~f.up \/ ~f.connected
             \/ from # "link" /\ f.weight \in {0, MaxWeight}
             \/ path = MaxWeight
       THEN S
     ELSE _spt_update_node(t, S, next, ctx.at, path, i)

RECURSIVE spt_visit(_, _, _)
spt_visit(t, routers, S) ==
  IF S.fifo = <<>> \/ S.undefined THEN S
  ELSE LET ctx == Head(S.fifo)
           Step(acc, i) == _link_traverse(t, routers, ctx, acc, i)
       IN spt_visit(t, routers,
                    FoldLeft(Step, [S EXCEPT !.fifo = Tail(@)],
                             spt_ifaces(t, S.spt[ctx.at].elem)))

spt_bfs(t, n, routers) ==
  LET root == <<n, W>>
  IN spt_visit(t, routers,
               [spt |-> root :> spt_vertex_create(<<"node", n>>, 0, {}),
                fifo |-> <<[iif |-> {}, at |-> root]>>,
                undefined |-> FALSE])

(* The first interface of the node that is connected to the element. *)
node_find_iface_to(t, n, e) ==
  LET to(i) == /\ t.ifaces[i].connected
               /\ \/ e[1] = "link" /\ t.ifaces[i].type = "ptp"
                     /\ t.ifaces[i].dest = e[2]
                  \/ e[1] = "node" /\ t.ifaces[i].type = "rtr"
                     /\ t.ifaces[i].dest[1] = e[2]
                  \/ e[1] = "subnet" /\ t.ifaces[i].type = "ptmp"
                     /\ t.ifaces[i].dest = e[2]
      s == SelectSeq(node_ifaces(t, n), to) IN
     IF s = <<>> THEN {} ELSE {s[1]}

(* The first interface that the node has on the subnet. *)
subnet_find_iface_to(t, s, n) ==
  LET own == {i \in t.subnets[s].ifaces : i[1] = n}
  IN CHOOSE i \in own : \A j \in own : i[2] <= j[2]

(* The entries of a vertex, from those of a predecessor: the interface to  *)
(* leave the root, then the gateway on a subnet, then the same.            *)
_spt_next_entries(t, spt, n, pred, k, entries) ==
  IF pred = <<n, W>>
    THEN {[oif |-> i[2], gw |-> ANY] :
            i \in node_find_iface_to(t, n, spt[k].elem)}
  ELSE {IF t.ifaces[<<n, e.oif>>].type = "ptmp" /\ e.gw = ANY
          THEN [e EXCEPT !.gw = subnet_find_iface_to(t, spt[pred].elem[2],
                                                     spt[k].elem[2])[2]]
        ELSE e : e \in entries}

RECURSIVE spt_entries(_, _, _, _)
spt_entries(t, spt, n, k) ==
  UNION {_spt_next_entries(t, spt, n, p, k,
                           IF p = <<n, W>> THEN {}
                           ELSE spt_entries(t, spt, n, p)) : p \in spt[k].preds}

(* The destinations of a vertex, with their weights: the loopback and      *)
(* virtual interfaces of a node, the prefix of a subnet or a link.         *)
_spt_install_fib(t, v, k) ==
  IF v.elem[1] # "node" THEN {<<k, v.weight>>}
  ELSE {<<ip_prefix_mask(net_iface_id(t, i)),
          net_igp_add_weights(v.weight, t.ifaces[i].weight)>> :
          i \in {j \in DOMAIN t.ifaces :
                   /\ j[1] = v.elem[2]
                   /\ t.ifaces[j].type \in {"loopback", "virtual"}}}

(* A destination of several vertices gets the entries of all of them and   *)
(* the weight of the one that is met first.  The order of the traversal is *)
(* the one of the addresses of the vertices in memory: low says whether    *)
(* the smallest or the largest weight is met first.                        *)
_spt_compute_fib(t, spt, n, low) ==
  LET vertices == DOMAIN spt \ {<<n, W>>}
      dests == UNION {{<<d[1], d[2], k>> : d \in _spt_install_fib(t, spt[k], k)}
                        : k \in vertices}
      info(p) ==
        LET ws == {d[2] : d \in {x \in dests : x[1] = p}}
            w == CHOOSE x \in ws : \A y \in ws : IF low THEN x <= y ELSE x >= y
            es == UNION {spt_entries(t, spt, n, d[3]) :
                           d \in {x \in dests : x[1] = p}} IN
           rt_info_create(w, "igp", SortedSeq(es, rt_entry_before)) IN
     [p \in {d[1] : d \in dests} |-> info(p)]

(* The assertion that the root has an interface to each of its successors. *)
spt_has_ifaces(t, spt, n) ==
  \A k \in DOMAIN spt : <<n, W>> \in spt[k].preds
                          => node_find_iface_to(t, n, spt[k].elem) # {}

(* All the routes of the IGP go, whatever domain they came from. *)
igp_compute_router(t, n, spt, low) ==
  LET cleared == rt_del_route(t.nodes[n].rt, {}, {}, {}, "igp").rt IN
  Let(_spt_compute_fib(t, spt, n, low), LAMBDA fib :
     [p \in DOMAIN cleared \cup DOMAIN fib |->
        IF p \notin DOMAIN fib THEN cleared[p]
        ELSE IF p \notin DOMAIN cleared THEN <<fib[p]>>
        ELSE _rt_info_list_add(cleared[p], fib[p])])

igp_compute_domain(t, d, low) ==
  LET routers == t.domains[d] IN
  Let([n \in routers |-> spt_bfs(t, n, routers)], LAMBDA tree :
     IF \E n \in routers : tree[n].undefined THEN Fail(t, "UNDEFINED")
     ELSE IF \E n \in routers : ~spt_has_ifaces(t, tree[n].spt, n)
       THEN Fail(t, "ABORT")
     ELSE Ok([t EXCEPT !.nodes = [n \in DOMAIN @ |->
            IF n \in routers
            THEN [@[n] EXCEPT !.rt = igp_compute_router(t, n, tree[n].spt, low)]
            ELSE @[n]]]))

(***************************************************************************)
(* The commands.                                                           *)
(***************************************************************************)
cli_net_add_domain(t, d) ==
  IF d \in DOMAIN t.domains THEN Fail(t, "ENET_IGP_DOMAIN_DUPLICATE")
  ELSE Ok([t EXCEPT !.domains = @ @@ (d :> {})])

igp_domain_add_router(t, d, n) ==
  [t EXCEPT !.domains[d] = @ \cup {n}, !.nodes[n].domains = @ \cup {d}]

cli_net_node_domain(t, n, d) ==
  IF d \notin DOMAIN t.domains \/ n \in t.domains[d]
    THEN Fail(t, "CLI_ERROR")
  ELSE Ok(igp_domain_add_router(t, d, n))

cli_net_domain_compute(t, d, low) == igp_compute_domain(t, d, low)
=============================================================================
