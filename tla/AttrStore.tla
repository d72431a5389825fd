------------------------------ MODULE AttrStore ------------------------------
(***************************************************************************)
(* Routes and the two repositories their attributes share: the AS-Paths    *)
(* and the Communities (bgp/attr/path_hash.c, comm_hash.c, bgp/attr.c,     *)
(* bgp/route.c).                                                           *)
(*                                                                         *)
(* A repository counts the references to the values it holds.  Adding a    *)
(* value that compares equal to one of its bucket returns that one, so a   *)
(* reference of an attribute is a value of the repository, and two         *)
(* references are the same pointer if they are the same value.  The        *)
(* memory of the program is                                                *)
(*   paths, comms  the repositories: whether they exist, their number of   *)
(*                 buckets and the count of each value they hold           *)
(*   crash         where an assertion failed or the behaviour is undefined *)
(* and an operator that changes a route returns the memory with the route. *)
(***************************************************************************)
EXTENDS RouteAttr, IPPrefix, TLC

CONSTANTS KeySize,       \* AS_PATH_STR_SIZE, the buffer of the keys
          PrefDefault,   \* ROUTE_PREF_DEFAULT
          MedDefault,    \* ROUTE_MED_DEFAULT
          MedMissing     \* ROUTE_MED_MISSING, the largest MED

EmptyHash(size) == [made |-> FALSE, size |-> size, count |-> <<>>]

Crash(m, where) == IF m.crash = "" THEN [m EXCEPT !.crash = where] ELSE m

-----------------------------------------------------------------------------
(* The hash set of libgds. *)

hash_utils_key_compute_string(values, size) ==
  FoldLeft(LAMBDA h, v : (31 * h + v) % size, 0, values)

(* The value of the set that compares equal to x in the bucket of x. *)
hash_set_search(h, x, Key(_), Cmp(_, _)) ==
  {y \in DOMAIN h.count : Key(y) = Key(x) /\ Cmp(y, x) = 0}

(* The set, and the value it holds for x.  The references to NULL are      *)
(* counted and never released: in the model their count stays at 1.        *)
hash_set_add(h, x, Key(_), Cmp(_, _)) ==
  LET found == hash_set_search(h, x, Key, Cmp)
      y == CHOOSE z \in found : TRUE
  IN IF found = {} THEN [set |-> [h EXCEPT !.count = (x :> 1) @@ @], ref |-> x]
     ELSE [set |-> IF y = NULL THEN h ELSE [h EXCEPT !.count[y] = @ + 1], ref |-> y]

hash_set_remove(h, x) ==
  IF h.count[x] > 1 THEN [h EXCEPT !.count[x] = @ - 1]
  ELSE [h EXCEPT !.count = [y \in DOMAIN @ \ {x} |-> @[y]]]

-----------------------------------------------------------------------------
(* The AS-Paths.  The key is computed from the text of the path, whose     *)
(* characters are numbered: ASNs and delimiters.                           *)

_path_hash_item_compute(path, size) ==
  hash_utils_key_compute_string(
    FlattenSeq([i \in 1 .. path_num_segments(path) |->
      (IF List(path)[i].type = "SET" THEN <<125>> ELSE <<>>)
        \o List(path)[i].asns]), size)

_path_hash_init(m) == [m EXCEPT !.paths.made = TRUE]

(* The memory, and the reference returned. *)
path_hash_add(m, path) ==
  LET init == _path_hash_init(m) IN
  Let(hash_set_add(init.paths, path,
                   LAMBDA p : _path_hash_item_compute(p, m.paths.size), path_cmp), LAMBDA added :
     IF path_to_string(path, KeySize) = {}
     THEN [m |-> Crash(init, "path_hash.c:73"), ref |-> path]
     ELSE [m |-> [init EXCEPT !.paths = added.set], ref |-> added.ref])

path_hash_remove(m, path) ==
  IF path \notin DOMAIN m.paths.count THEN Crash(m, "path_hash.c:120")
  ELSE [m EXCEPT !.paths = hash_set_remove(@, path)]

(* Only before the first use. *)
path_hash_set_size(m, size) ==
  IF m.paths.made THEN m ELSE [m EXCEPT !.paths.size = size]

path_hash_get_size(m) == m.paths.size

(* The number of the items in each bucket. *)
path_hash_statistics(m) ==
  [b \in 0 .. m.paths.size - 1 |->
     Cardinality({p \in DOMAIN m.paths.count :
                    _path_hash_item_compute(p, m.paths.size) = b})]

path_hash_content(m) == m.paths.count

(* The Communities. *)

_comm_hash_item_compute(comms, size) ==
  hash_utils_key_compute_string(
    FlattenSeq([i \in DOMAIN List(comms) |-> List(comms)[i]]), size)

_comm_hash_init(m) == [m EXCEPT !.comms.made = TRUE]

comm_hash_add(m, comms) ==
  LET init == _comm_hash_init(m) IN
  Let(hash_set_add(init.comms, comms,
                   LAMBDA c : _comm_hash_item_compute(c, m.comms.size), comms_cmp), LAMBDA added :
     IF comm_to_string(comms, KeySize) = {}
     THEN [m |-> Crash(init, "comm_hash.c:71"), ref |-> comms]
     ELSE [m |-> [init EXCEPT !.comms = added.set], ref |-> added.ref])

comm_hash_remove(m, comms) ==
  IF comms \notin DOMAIN m.comms.count THEN m
  ELSE [m EXCEPT !.comms = hash_set_remove(@, comms)]

comm_hash_set_size(m, size) ==
  IF m.comms.made THEN m ELSE [m EXCEPT !.comms.size = size]

comm_hash_get_size(m) == m.comms.size

comm_hash_statistics(m) ==
  [b \in 0 .. m.comms.size - 1 |->
     Cardinality({c \in DOMAIN m.comms.count :
                    _comm_hash_item_compute(c, m.comms.size) = b})]

comm_hash_content(m) == m.comms.count

-----------------------------------------------------------------------------
(* The attributes of a route (attr.c). *)

With(m, attr) == [m |-> m, attr |-> attr]

bgp_attr_create(next_hop, origin, local_pref, med) ==
  [next_hop |-> next_hop, origin |-> origin, local_pref |-> local_pref,
   med |-> med, path_ref |-> NULL, comms |-> NULL, ecomms |-> NULL,
   originator |-> NULL, cluster_list |-> NULL]

(* The copy of a reference must be the same reference. *)
_bgp_attr_path_copy(m, attr, path) ==
  Let(path_hash_add(m, path), LAMBDA r :
     With(IF r.ref = path THEN r.m ELSE Crash(r.m, "attr.c:101"),
          [attr EXCEPT !.path_ref = r.ref]))

_bgp_attr_path_destroy(m, attr) ==
  IF attr.path_ref = NULL THEN With(m, attr)
  ELSE With(path_hash_remove(m, attr.path_ref), [attr EXCEPT !.path_ref = NULL])

(* A path that is not NULL must not be taken for NULL. *)
bgp_attr_set_path(m, attr, path) ==
  Let(_bgp_attr_path_destroy(m, attr), LAMBDA d :
  Let(path_hash_add(d.m, path), LAMBDA r :
     IF path = NULL THEN d
     ELSE With(IF r.ref = NULL THEN Crash(r.m, "attr.c:133") ELSE r.m,
               [d.attr EXCEPT !.path_ref = r.ref])))

(* Nothing changes when the path cannot take that many ASNs. *)
bgp_attr_path_prepend(m, attr, asn, amount) ==
  Let(FoldLeft(LAMBDA p, k : UNION {path_append(s, asn) : s \in p},
               {List(attr.path_ref)}, [k \in 1 .. amount |-> k]), LAMBDA longer :
     IF longer = {} THEN With(m, attr) ELSE bgp_attr_set_path(m, attr, longer))

bgp_attr_path_rem_private(m, attr) ==
  bgp_attr_set_path(m, attr, {path_remove_private(List(attr.path_ref))})

_bgp_attr_comm_copy(m, attr, comms) ==
  Let(comm_hash_add(m, comms), LAMBDA r :
     With(IF r.ref = comms THEN r.m ELSE Crash(r.m, "attr.c:218"),
          [attr EXCEPT !.comms = r.ref]))

_bgp_attr_comm_destroy(m, attr) ==
  IF attr.comms = NULL THEN With(m, attr)
  ELSE With(comm_hash_remove(m, attr.comms), [attr EXCEPT !.comms = NULL])

bgp_attr_set_comm(m, attr, comms) ==
  LET d == _bgp_attr_comm_destroy(m, attr) IN
  Let(comm_hash_add(d.m, comms), LAMBDA r :
     IF comms = NULL THEN d
     ELSE With(IF r.ref = NULL THEN Crash(r.m, "attr.c:244") ELSE r.m,
               [d.attr EXCEPT !.comms = r.ref]))

bgp_attr_comm_append(m, attr, comm) ==
  LET r == comms_add(List(attr.comms), comm) IN
     IF r[1] = "abort" THEN With(Crash(m, "comm.c:92"), attr)
     ELSE bgp_attr_set_comm(m, attr, {r[2]})

bgp_attr_comm_remove(m, attr, comm) ==
  IF attr.comms = NULL THEN With(m, attr)
  ELSE bgp_attr_set_comm(m, attr, comms_remove(attr.comms, comm))

bgp_attr_comm_strip(m, attr) == _bgp_attr_comm_destroy(m, attr)

bgp_attr_ecomm_append(m, attr, e) ==
  LET r == ecomms_add(List(attr.ecomms), e) IN
     With(IF r[1] = "ok" THEN m ELSE Crash(m, "ecomm.c:133"),
          [attr EXCEPT !.ecomms = {r[2]}])

bgp_attr_destroy(m, attr) ==
  _bgp_attr_comm_destroy(_bgp_attr_path_destroy(m, attr).m, attr).m

bgp_attr_copy(m, attr) ==
  LET new == bgp_attr_create(attr.next_hop, attr.origin, attr.local_pref,
                             attr.med) IN
  Let(_bgp_attr_path_copy(m, new, attr.path_ref), LAMBDA p :
  Let(_bgp_attr_comm_copy(p.m, p.attr, attr.comms), LAMBDA c :
     With(c.m, [c.attr EXCEPT !.ecomms = attr.ecomms,
                              !.originator = attr.originator,
                              !.cluster_list = attr.cluster_list])))

bgp_attr_cmp(a, b) ==
  /\ a.next_hop = b.next_hop /\ a.local_pref = b.local_pref
  /\ path_equals(a.path_ref, b.path_ref)
  /\ a.origin = b.origin /\ a.med = b.med
  /\ comms_equals(a.comms, b.comms) /\ ecomm_equals(a.ecomms, b.ecomms)
  /\ originator_equals(a.originator, b.originator)
  /\ cluster_list_equals(a.cluster_list, b.cluster_list)

-----------------------------------------------------------------------------
(* The routes (route.c). *)

_route_create2(prefix, peer, attr) ==
  [prefix |-> prefix, peer |-> peer, flags |-> {}, attr |-> attr, rank |-> 0]

route_create(prefix, peer, next_hop, origin) ==
  _route_create2(prefix, peer,
                 bgp_attr_create(next_hop, origin, PrefDefault, MedDefault))

(* The route with the attributes r leaves it. *)
Of(route, r) == [m |-> r.m, route |-> [route EXCEPT !.attr = r.attr]]

route_set_path(m, route, path) ==
  Of(route, bgp_attr_set_path(m, route.attr, path))

route_path_prepend(m, route, asn, amount) ==
  Of(route, bgp_attr_path_prepend(m, route.attr, asn, amount))

route_path_rem_private(m, route) ==
  Of(route, bgp_attr_path_rem_private(m, route.attr))

route_path_contains(route, asn) == path_contains(route.attr.path_ref, asn)

route_path_length(route) == path_length(route.attr.path_ref)

route_path_last_as(route) == path_last_as(route.attr.path_ref)

route_set_comm(m, route, comms) ==
  Of(route, bgp_attr_set_comm(m, route.attr, comms))

route_comm_append(m, route, comm) ==
  Of(route, bgp_attr_comm_append(m, route.attr, comm))

route_comm_strip(m, route) == Of(route, bgp_attr_comm_strip(m, route.attr))

route_comm_remove(m, route, comm) ==
  Of(route, bgp_attr_comm_remove(m, route.attr, comm))

route_comm_contains(route, comm) == comms_contains(route.attr.comms, comm)

route_ecomm_append(m, route, e) ==
  Of(route, bgp_attr_ecomm_append(m, route.attr, e))

route_ecomm_strip_non_transitive(route) ==
  [route EXCEPT !.attr.ecomms = ecomms_strip_non_transitive(@)]

route_localpref_set(route, pref) == [route EXCEPT !.attr.local_pref = pref]

route_med_set(route, med) == [route EXCEPT !.attr.med = med]

route_flag_set(route, flag, on) ==
  [route EXCEPT !.flags = IF on THEN @ \cup {flag} ELSE @ \ {flag}]

route_flag_get(route, flag) == flag \in route.flags

route_med_clear(route) == route_med_set(route, MedMissing)

route_set_nexthop(route, a) == [route EXCEPT !.attr.next_hop = a]

route_originator_set(route, id) == [route EXCEPT !.attr.originator = {id}]

route_originator_clear(route) == [route EXCEPT !.attr.originator = NULL]

route_cluster_list_append(route, id) ==
  [route EXCEPT !.attr.cluster_list = {cluster_list_append(List(@), id)}]

route_cluster_list_clear(route) == [route EXCEPT !.attr.cluster_list = NULL]

route_cluster_list_contains(route, id) ==
  cluster_list_contains(List(route.attr.cluster_list), id)

route_equals(r, s) ==
  ip_prefix_cmp(r.prefix, s.prefix) = 0 /\ bgp_attr_cmp(r.attr, s.attr)

(* The rank is not copied. *)
route_copy(m, route) ==
  Let(bgp_attr_copy(m, route.attr), LAMBDA a :
     [m |-> a.m,
      route |-> [_route_create2(route.prefix, route.peer, a.attr) EXCEPT
                   !.flags = route.flags]])

route_destroy(m, route) == bgp_attr_destroy(m, route.attr)
=============================================================================
