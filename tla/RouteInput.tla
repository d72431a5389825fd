----------------------------- MODULE RouteInput -----------------------------
(***************************************************************************)
(* Routes written to and read from files: the formats of bgp/route.c, the  *)
(* MRT records of bgp/mrtd.c, the loaders of bgp/route-input.c, the parser *)
(* of bgp/cisco.c and the program cbgp-dump (main-dump.c).                 *)
(*                                                                         *)
(* A line of an ASCII dump is a record: the number of its fields, the text *)
(* of its type and protocol, and its other fields once parsed: a set that  *)
(* is empty if that fails, and for the two fields that may be left empty   *)
(* <<>>, or the set in a sequence.  path and comms are the tokens of the   *)
(* parsers of module RouteAttr.  A file is {} when it cannot be opened.    *)
(*                                                                         *)
(* A loader calls Handler(S, status, route, peer_addr, peer_asn) on each   *)
(* record; S has the memory mem of module AttrStore and an error err.      *)
(***************************************************************************)
EXTENDS Policy

MRT_UPDATE_MIN_FIELDS == 11

MRT_WITHDRAW_MIN_FIELDS == 5

(* A table dump has the type B, the messages have A and W. *)
_mrtd_check_type(proto, type) ==
  IF type = "B" THEN proto = "TABLE_DUMP" ELSE proto \in {"BGP", "BGP4"}

_mrtd_check_header(rec) ==
  IF rec.fields < MRT_WITHDRAW_MIN_FIELDS THEN "MISSING_FIELDS"
  ELSE IF rec.type \notin {"A", "B", "W"} THEN "INVALID_RECORD_TYPE"
  ELSE IF ~_mrtd_check_type(rec.proto, rec.type) THEN "INVALID_PROTOCOL"
  ELSE IF rec.type # "W" /\ rec.fields < MRT_UPDATE_MIN_FIELDS THEN "MISSING_FIELDS"
  ELSE "SUCCESS"

(* The first field that is wrong. *)
FieldError(rec) ==
  LET wrong(value) == value = <<{}>>
  IN IF _mrtd_check_header(rec) # "SUCCESS" THEN _mrtd_check_header(rec)
     ELSE IF rec.peer_addr = {} THEN "INVALID_PEER_ADDR"
     ELSE IF rec.peer_asn = {} THEN "INVALID_PEER_ASN"
     ELSE IF rec.fields > 5 /\ rec.prefix = {} THEN "INVALID_PREFIX"
     ELSE IF rec.type = "W" THEN "SUCCESS"
     ELSE IF path_from_string(rec.path) = NULL THEN "INVALID_ASPATH"
     ELSE IF rec.origin = {} THEN "INVALID_ORIGIN"
     ELSE IF rec.next_hop = {} THEN "INVALID_NEXTHOP"
     ELSE IF wrong(rec.pref) THEN "INVALID_LOCALPREF"
     ELSE IF wrong(rec.med) THEN "INVALID_MED"
     ELSE IF rec.fields > MRT_UPDATE_MIN_FIELDS /\ comm_from_string(rec.comms) = NULL
       THEN "INVALID_COMMUNITIES"
     ELSE "SUCCESS"

Marked(route, flags) == [route EXCEPT !.flags = @ \cup flags]

(* The result of a record: an error, or its type with the prefix, and the  *)
(* route unless it is a withdraw.  The prefix of a withdraw of five fields *)
(* is read behind the last one.                                            *)
_mrtd_create_route(m, rec) ==
  LET new == route_create(The(rec.prefix), NULL, The(rec.next_hop), The(rec.origin))
      valued == route_med_set(
                  route_localpref_set(new, IF rec.pref = <<>> THEN 0 ELSE The(rec.pref[1])),
                  IF rec.med = <<>> THEN MedMissing ELSE The(rec.med[1])) IN
  Let(route_set_path(m, valued, path_from_string(rec.path)), LAMBDA p :
  Let(route_set_comm(p.m, p.route, IF rec.fields > MRT_UPDATE_MIN_FIELDS
                                   THEN comm_from_string(rec.comms) ELSE NULL), LAMBDA c :
  Let(FieldError(rec), LAMBDA error :
  LET Result(mem, result, route) == [m |-> mem, result |-> result, route |-> route] IN
     IF error # "SUCCESS" THEN Result(m, error, NULL)
     ELSE IF rec.type = "W"
       THEN Result(IF rec.fields > 5 THEN m ELSE Crash(m, "mrtd.c:344"), "W", NULL)
     ELSE Result(c.m, rec.type, {Marked(c.route, {"BEST", "ELIGIBLE", "FEASIBLE"})}))))

Types == {"A", "B", "W"}

(* Only the record of a table dump leaves a route. *)
mrtd_route_from_line(m, rec) ==
  Let(_mrtd_create_route(m, rec), LAMBDA r :
     IF r.result = "A" THEN [r EXCEPT !.m = route_destroy(@, The(r.route)), !.route = NULL]
     ELSE r)

(* The message in a set; a record of a table dump makes none, and this is  *)
(* no error.  A withdraw carries the address of the peer for its ASN.      *)
mrtd_msg_from_line(m, rec, asn, addr) ==
  Let(_mrtd_create_route(m, rec), LAMBDA r :
  LET Msgs(mem, msgs) == [m |-> mem, error |-> "SUCCESS", msg |-> msgs] IN
     CASE r.result = "A" ->
            Msgs(r.m, {[type |-> "UPDATE", asn |-> asn, seq |-> 0, route |-> r.route,
                        prefix |-> <<0, 0>>, rid |-> 0]})
       [] r.result = "W" ->
            Msgs(r.m, {[type |-> "WITHDRAW", asn |-> addr, seq |-> 0, route |-> {},
                        prefix |-> The(rec.prefix), rid |-> 0]})
       [] r.result = "B" -> Msgs(route_destroy(r.m, The(r.route)), {})
       [] OTHER -> [m |-> r.m, error |-> r.result, msg |-> {}])

-----------------------------------------------------------------------------
(* The loaders. *)

(* The first line that cannot be read ends the load; every other line goes *)
(* to the handler with the status OK, without a route if it is a message.  *)
(* A withdraw comes with the peer of the record before it, or with what    *)
(* was in memory: {} stands for that.                                      *)
mrtd_ascii_load(S, file, Handler(_, _, _, _, _)) ==
  LET lines == The(file)
      Source(k) == {j \in 1 .. k : /\ lines[j].type # "W"
                                   /\ \A i \in j + 1 .. k : lines[i].type = "W"}
      Line(T, k) ==
        Let(mrtd_route_from_line(T.mem, lines[k]), LAMBDA r :
        LET read == [T EXCEPT !.mem = r.m] IN
           IF T.err # "ESUCCESS" \/ T.mem.crash # "" THEN T
           ELSE IF r.result \notin Types THEN [read EXCEPT !.err = "BGP_INPUT_ERROR_USER"]
           ELSE IF r.m.crash # "" THEN read
           ELSE Handler(read, "OK", r.route,
                        UNION {lines[j].peer_addr : j \in Source(k)},
                        UNION {lines[j].peer_asn : j \in Source(k)}))
  IN IF file = {} THEN [S EXCEPT !.err = "BGP_INPUT_ERROR_FILE_OPEN"]
     ELSE FoldLeft(Line, [S EXCEPT !.err = "ESUCCESS"], [k \in DOMAIN lines |-> k])

(* Binary dumps: an entry has the fields type, subtype, prefix, peer_addr, *)
(* peer_asn and attr, {} or the attributes that are present (sets).  The   *)
(* segments of a path are in the order of the dump, the last AS first.     *)
mrtd_process_community(values) == IF values = <<>> THEN NULL ELSE {values}

(* The ASNs of a segment are reversed, the segments are not. *)
mrtd_process_aspath(segs) ==
  IF segs = <<>> \/ \E k \in DOMAIN segs : segs[k].type \notin {"SET", "SEQUENCE"} THEN NULL
  ELSE {[k \in DOMAIN segs |-> path_segment_create(segs[k].type, Reverse(segs[k].asns))]}

mrtd_process_table_dump(m, entry) ==
  LET attr == The(entry.attr)
      new == route_create(entry.prefix, NULL, The(attr.next_hop), The(attr.origin)) IN
  Let(IF attr.path = {} THEN [m |-> m, route |-> new]
      ELSE route_set_path(m, new, mrtd_process_aspath(The(attr.path))), LAMBDA p :
  LET pref == IF attr.pref = {} THEN p.route ELSE route_localpref_set(p.route, The(attr.pref))
      med == IF attr.med = {} THEN pref ELSE route_med_set(pref, The(attr.med)) IN
  Let(IF attr.comms = {} THEN [m |-> p.m, route |-> med]
      ELSE route_set_comm(p.m, med, mrtd_process_community(The(attr.comms))), LAMBDA c :
     IF \/ entry.subtype # "AFI_IP" \/ entry.attr = {}
        \/ attr.origin = {} \/ attr.next_hop = {}
     THEN [m |-> m, route |-> {}]
     ELSE [m |-> c.m, route |-> {c.route}]))

mrtd_process_entry(m, entry) ==
  IF entry.type = "TABLE_DUMP" THEN mrtd_process_table_dump(m, entry)
  ELSE [m |-> m, route |-> {}]

(* An entry without a route is handed over as ignored.  A malformed entry  *)
(* ends the load.                                                          *)
mrtd_binary_load(S, file, Handler(_, _, _, _, _)) ==
  LET Entry(T, entry) ==
        Let(mrtd_process_entry(T.mem, entry), LAMBDA r :
           IF T.err # "ESUCCESS" \/ T.mem.crash # "" THEN T
           ELSE IF entry.type = "MALFORMED" THEN [T EXCEPT !.err = "BGP_INPUT_ERROR_USER"]
           ELSE Handler([T EXCEPT !.mem = r.m], IF r.route = {} THEN "IGNORED" ELSE "OK",
                        r.route, {entry.peer_addr}, {entry.peer_asn}))
  IN IF file = {} THEN [S EXCEPT !.err = "BGP_INPUT_ERROR_FILE_OPEN"]
     ELSE FoldLeft(Entry, [S EXCEPT !.err = "ESUCCESS"], The(file))

INPUT_TYPE_STR == {"mrt-ascii", "mrt-binary", "cisco"}

bgp_routes_str2format(str) == {f \in INPUT_TYPE_STR : f = str}

(* The format of cisco stops the program. *)
bgp_routes_load(S, file, format, Handler(_, _, _, _, _)) ==
  CASE format = "mrt-ascii" -> mrtd_ascii_load(S, file, Handler)
    [] format = "mrt-binary" -> mrtd_binary_load(S, file, Handler)
    [] format = "cisco" -> [S EXCEPT !.mem = Crash(@, "route-input.c:76")]

(* The list keeps no route when the load fails: what was read is lost. *)
_bgp_routes_load_list_handler(S, status, route, addr, asn) ==
  IF status = "OK" THEN [S EXCEPT !.list = Append(@, route)] ELSE S

bgp_routes_load_list(S, file, format) ==
  Let(bgp_routes_load(S, file, format, _bgp_routes_load_list_handler), LAMBDA r :
     IF r.err = "ESUCCESS" THEN r ELSE [r EXCEPT !.list = <<>>])

(* A line of the output of a router: its first three characters. *)
cisco_record_parser(line) ==
  IF line[1] \in {"*", " "} /\ line[2] \in {">", " "} /\ line[3] = " " THEN "SUCCESS"
  ELSE "ERROR_UNEXPECTED"

(* The lines are read and nothing is done with them. *)
cisco_parser(lines) == "SUCCESS"

cisco_load(file) == IF file = {} THEN "ERROR" ELSE cisco_parser(The(file))

-----------------------------------------------------------------------------
(* Routes as they are written.  addr and asn are the peer, {} if the route *)
(* is local.                                                               *)

route_str2mode(str) ==
  CASE str \in {"cisco", "default"} -> {"cisco"}
    [] str \in {"mrt", "mrt-ascii"} -> {"mrt"}
    [] str = "custom" -> {"custom"}
    [] OTHER -> {}

route_dump_cisco(route) ==
  [status |-> IF route_flag_get(route, "INTERNAL") THEN "i"
              ELSE IF route_flag_get(route, "FEASIBLE") THEN "*" ELSE " ",
   best |-> IF route_flag_get(route, "BEST") THEN ">" ELSE " ",
   prefix |-> route.prefix, next_hop |-> route.attr.next_hop,
   pref |-> route.attr.local_pref, med |-> route.attr.med,
   path |-> {path_dump(p, TRUE) : p \in {route.attr.path_ref} \ {NULL}},
   origin |-> route.attr.origin]

(* The fields from the type on; the two fields before are the dumper's. *)
route_dump_mrt(route, addr, asn) ==
  [fields |-> 14, proto |-> "TABLE_DUMP",
   type |-> IF route_flag_get(route, "BEST") THEN "B" ELSE "_",
   peer_addr |-> addr, peer_asn |-> asn, prefix |-> {route.prefix},
   path |-> path_tokens(path_dump(route.attr.path_ref, TRUE)),
   origin |-> {route.attr.origin}, next_hop |-> {route.attr.next_hop},
   pref |-> <<{route.attr.local_pref}>>,
   med |-> IF route.attr.med = MedMissing THEN <<>> ELSE <<{route.attr.med}>>,
   comms |-> comm_dump(List(route.attr.comms), FALSE)]

(* One letter of a format, as a set; a letter that is not known ends the   *)
(* program, as does %A on a path that starts with an AS_SET.               *)
_route_dump_custom(route, addr, asn, letter) ==
  CASE letter = "i" -> {<<"address", addr>>}
    [] letter = "a" -> {<<"asn", asn>>}
    [] letter = "p" -> {<<"prefix", route.prefix>>}
    [] letter = "l" -> {<<"number", route.attr.local_pref>>}
    [] letter = "P" -> {<<"path", path_dump(route.attr.path_ref, TRUE)>>}
    [] letter = "o" -> {<<"origin", bgp_origin_to_str(route.attr.origin)>>}
    [] letter = "m" -> {<<"number", route.attr.med>>}
    [] letter = "n" -> {<<"address", {route.attr.next_hop}>>}
    [] letter = "c" -> {<<"comms", comm_dump(List(route.attr.comms), FALSE)>>}
    [] letter = "e" -> {<<"ecomms", List(route.attr.ecomms)>>}
    [] letter = "O" -> {<<"address", route.attr.originator>>}
    [] letter = "C" -> {<<"clusters", List(route.attr.cluster_list)>>}
    [] letter = "A" -> Let(path_first_as(route.attr.path_ref), LAMBDA first :
                          IF first[1] = "abort" THEN {} ELSE {<<"asn", {first[2]} \ {-1}>>})
    [] OTHER -> {}

(* {} if the assertion on the format fails. *)
route_dump_custom(route, addr, asn, format) ==
  Let([k \in DOMAIN format |-> _route_dump_custom(route, addr, asn, format[k])], LAMBDA text :
     IF \E k \in DOMAIN format : text[k] = {} THEN {}
     ELSE {[k \in DOMAIN format |-> The(text[k])]})

(* mode is the show mode: <<"cisco">>, <<"mrt">> or <<"custom", format>>. *)
route_dump(mode, route, addr, asn) ==
  CASE mode[1] = "cisco" -> {<<"cisco", route_dump_cisco(route)>>}
    [] mode[1] = "mrt" -> {<<"mrt", route_dump_mrt(route, addr, asn)>>}
    [] mode[1] = "custom" ->
         {<<"custom", t>> : t \in route_dump_custom(route, addr, asn, mode[2])}

routes_list_dump(mode, routes) ==
  [k \in DOMAIN routes |-> route_dump(mode, routes[k], {}, {})]

-----------------------------------------------------------------------------
(* cbgp-dump: S has the fields mem, err, ok, ignored, filtered, matcher    *)
(* ({} if there is no filter), regexes, mode, out.  A record without a     *)
(* route is dereferenced.                                                  *)

(* Mutant: a route that is filtered is not released. *)
FilteredKept(S, status, route, addr, asn) ==
  LET env == [maps |-> <<>>, regexes |-> S.regexes, router |-> {}]
      match == filter_matcher_apply(env, S.matcher, The(route))
      text == route_dump(S.mode, The(route), addr, asn) IN
     IF status = "IGNORED" THEN [S EXCEPT !.ignored = @ + 1]
     ELSE IF route = {} THEN [S EXCEPT !.mem = Crash(@, "main-dump.c:143")]
     ELSE IF match = {FALSE} THEN [S EXCEPT !.filtered = @ + 1]
     ELSE [S EXCEPT !.ok = @ + 1, !.out = Append(@, The(text)),
                    !.mem = route_destroy(@, The(route))]

_handler(S, status, route, addr, asn) ==
  LET env == [maps |-> <<>>, regexes |-> S.regexes, router |-> {}]
      match == filter_matcher_apply(env, S.matcher, The(route))
      gone == [S EXCEPT !.mem = route_destroy(@, The(route))]
      text == route_dump(S.mode, The(route), addr, asn) IN
     IF status = "IGNORED" THEN [S EXCEPT !.ignored = @ + 1]
     ELSE IF route = {} THEN [S EXCEPT !.mem = Crash(@, "main-dump.c:143")]
     ELSE IF match = {} THEN [S EXCEPT !.mem = Crash(@, "path.c:511")]
     ELSE IF match = {FALSE} THEN [gone EXCEPT !.filtered = @ + 1]
     ELSE IF text = {} THEN [S EXCEPT !.mem = Crash(@, "route.c:981")]
     ELSE [gone EXCEPT !.ok = @ + 1, !.out = Append(@, The(text))]

(* The files in turn; the first that cannot be read ends the program. *)
DumpFiles(S, files, format) ==
  FoldLeft(LAMBDA T, f : IF T.err # "ESUCCESS" \/ T.mem.crash # "" THEN T
                         ELSE bgp_routes_load(T, f, format, _handler), S, files)
=============================================================================
