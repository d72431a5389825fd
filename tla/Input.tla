-------------------------------- MODULE Input --------------------------------
(***************************************************************************)
(* What the user gives to C-BGP and what it makes of it.  A behaviour does *)
(* one of five jobs:                                                       *)
(*   topology   AS-level topologies are loaded, filtered, checked and      *)
(*              installed (module ASNetwork), next to one router           *)
(*   predicate  a predicate is read token by token (Filter)                *)
(*   routes     the attributes of routes change; they share the            *)
(*              repositories (AttrStore), and are written and read again   *)
(*   dump       cbgp-dump reads files of records (RouteInput)              *)
(*   program    the program runs a list of commands in one of its modes    *)
(***************************************************************************)
EXTENDS CLI

CONSTANTS TopoCommands,    \* the commands of the job topology
          Tokens,          \* the tokens of a predicate
          Samples,         \* the routes that tell predicates apart
          Changes,         \* what may be done to a route
          DumpInput,       \* the files that cbgp-dump is given
          Lists,           \* the lists of commands of the program
          ScriptFiles,     \* the files that it is given
          MaxInputs        \* the inputs of each job

VARIABLES job,
          s,               \* the state of the program
          n,               \* the inputs so far
          trouble,         \* what has left a topology that is not sound
          p,               \* the state of the predicate parser
          read,            \* the tokens, records or commands read so far
          routes,          \* the routes of the job routes
          d,               \* the state of cbgp-dump
          code             \* the exit code of the program

vars == <<job, s, n, trouble, p, read, routes, d, code>>

(* A router of AS 3 that the topologies do not know. *)
OneRouter ==
  bgp_add_router([Blank EXCEPT !.net = cli_net_add_node(@, 14, TRUE).net], 3, 14)

(* cbgp-dump with the filter that is given to it. *)
DumpStart(matcher) ==
  [mem |-> Blank.mem, err |-> "ESUCCESS", ok |-> 0, ignored |-> 0, filtered |-> 0,
   matcher |-> matcher, regexes |-> <<>>, mode |-> <<"mrt">>, out |-> <<>>]

Jobs == {"topology", "predicate", "routes", "dump", "program"}

Init ==
  /\ job \in Jobs
  /\ s = IF job = "topology" THEN OneRouter ELSE Blank
  /\ n = 0
  /\ trouble = {}
  /\ p = _predicate_parser_init(<<>>)
  /\ read = <<>>
  /\ routes = <<>>
  /\ d \in {DumpStart(m) : m \in IF job = "dump" THEN {NULL, {filter_match_nexthop_equals(9)}}
                                 ELSE {NULL}}
  /\ code = ""

Input(name) ==
  /\ job = name
  /\ n < MaxInputs[name]
  /\ n' = n + 1
  /\ UNCHANGED job

-----------------------------------------------------------------------------
(* A topology that is read although its links do not match, the one-sided  *)
(* removal of links to peers, and a filter that frees a cached domain.     *)
TroubleOf(c, S, T) ==
  LET gone(topo) == Range(topo.cache) \ DOMAIN topo.domains
  IN (IF S.topo = {} /\ T.topo # {} /\ T.err # "ESUCCESS" THEN {"inconsistent"} ELSE {})
       \cup (IF c = <<"bgp", "topology", "filter", "group", "peer-to-peer">>
                /\ T.topo # {} /\ T.err = "ESUCCESS" THEN {"one-sided"} ELSE {})
       \cup (IF T.topo # {} /\ gone(Topo(T)) # {} THEN {"freed"} ELSE {})

TypeCommand ==
  /\ Input("topology")
  /\ ~Crashed(s)
  /\ \E c \in TopoCommands : /\ s' = Perform(s, <<"command", c>>)
                             /\ trouble' = trouble \cup TroubleOf(c, s, s')
  /\ UNCHANGED <<p, read, routes, d, code>>

ReadToken ==
  /\ Input("predicate")
  /\ p.error = ""
  /\ \E token \in Tokens : /\ p' = predicate_parser_step(p, token)
                           /\ read' = Append(read, token)
  /\ UNCHANGED <<s, trouble, routes, d, code>>

(* A change of the attributes, by the operation of route.c. *)
Applied(m, route, c) ==
  CASE c[1] = "prepend" -> route_path_prepend(m, route, c[2], c[3])
    [] c[1] = "path" -> route_set_path(m, route, path_from_string(c[2]))
    [] c[1] = "remove-private" -> route_path_rem_private(m, route)
    [] c[1] = "comm add" -> route_comm_append(m, route, c[2])
    [] c[1] = "comm remove" -> route_comm_remove(m, route, c[2])
    [] c[1] = "comm strip" -> route_comm_strip(m, route)
    [] c[1] = "med" -> [m |-> m, route |-> route_med_set(route, c[2])]
    [] c[1] = "med clear" -> [m |-> m, route |-> route_med_clear(route)]

NewRoute ==
  /\ Input("routes")
  /\ Len(routes) < 2
  /\ routes' = Append(routes, route_create(<<4, 2>>, NULL, 9, 0))
  /\ UNCHANGED <<s, trouble, p, read, d, code>>

ChangeRoute ==
  /\ Input("routes")
  /\ ~Crashed(s)
  /\ \E k \in DOMAIN routes, c \in Changes :
       \E r \in {Applied(s.mem, routes[k], c)} :
          s' = [s EXCEPT !.mem = r.m] /\ routes' = [routes EXCEPT ![k] = r.route]
  /\ UNCHANGED <<trouble, p, read, d, code>>

CopyRoute ==
  /\ Input("routes")
  /\ ~Crashed(s)
  /\ Len(routes) < 3
  /\ \E k \in DOMAIN routes :
       \E r \in {route_copy(s.mem, routes[k])} :
          s' = [s EXCEPT !.mem = r.m] /\ routes' = Append(routes, r.route)
  /\ UNCHANGED <<trouble, p, read, d, code>>

DestroyRoute ==
  /\ Input("routes")
  /\ ~Crashed(s)
  /\ routes # <<>>
  /\ s' = [s EXCEPT !.mem = route_destroy(@, Head(routes))]
  /\ routes' = Tail(routes)
  /\ UNCHANGED <<trouble, p, read, d, code>>

(* cbgp-dump goes on with its next file, unless it has stopped. *)
DumpFile ==
  /\ Input("dump")
  /\ d.err = "ESUCCESS" /\ d.mem.crash = ""
  /\ \E file \in DumpInput : /\ d' = DumpFiles(d, <<{file}>>, "mrt-ascii")
                             /\ read' = read \o file
  /\ UNCHANGED <<s, trouble, p, routes, code>>

(* The program runs once, with a list of commands or with a file. *)
RunProgram ==
  /\ Input("program")
  /\ \E run \in ({"default", "interactive"} \X Lists) \cup ({"script"} \X ScriptFiles) :
       \E r \in {main(run[1], Blank, run[2])} :
          /\ s' = r.S /\ code' = r.code
          /\ read' = IF run[1] # "script" THEN <<run[1]>> \o run[2]
                     ELSE IF Files[run[2]] = {} THEN <<"missing">>
                     ELSE <<"script">> \o The(Files[run[2]])
  /\ UNCHANGED <<trouble, p, routes, d>>

Next == \/ TypeCommand \/ ReadToken \/ NewRoute \/ ChangeRoute \/ CopyRoute
        \/ DestroyRoute \/ DumpFile \/ RunProgram

Spec == Init /\ [][Next]_vars

-----------------------------------------------------------------------------
Agree == {<<CUSTOMER, PROVIDER>>, <<PROVIDER, CUSTOMER>>, <<PEER, PEER>>, <<SIBLING, SIBLING>>}

(* The links of a topology, as they stay through removals and filters      *)
(* (as-level.c:341, filter.c:63): each has its counterpart at the other    *)
(* end, and the two ends agree on what they are to each other.             *)
TopoSymmetric ==
  (s.topo # {} /\ trouble \subseteq {"freed"}) =>
    LET t == Topo(s)
    IN \A a \in DOMAIN t.domains : \A b \in Neighbors(t, a) :
         /\ b \in DOMAIN t.domains /\ a \in Neighbors(t, b)
         /\ <<PeerType(t, a, b), PeerType(t, b, a)>> \in Agree

(* What can be reached from a set along the links to the given types. *)
RECURSIVE Reach(_, _, _)
Reach(t, set, types) ==
  LET more == set \cup UNION {{b \in Neighbors(t, a) : PeerType(t, a, b) \in types} : a \in set}
  IN IF more = set THEN set ELSE Reach(t, more, types)

Customers(t, a) == OfType(t, a, CUSTOMER)

(* The number of the domains on the longest way down from a domain. *)
RECURSIVE Depth(_, _)
Depth(t, a) == 1 + Max({0} \cup {Depth(t, b) : b \in Customers(t, a)})

(* bgp topology check (as-level.c:623, 784) reports a topology that is not *)
(* connected, and then a cycle of customers, exactly when there is one     *)
(* below a domain without providers or when every domain has a provider.   *)
(* The program stops if the stack of the search is too small for a chain   *)
(* of customers.                                                           *)
CheckExact ==
  (s.topo # {} /\ trouble \subseteq {"freed"}) =>
    LET t == Topo(s) IN
    Let(aslevel_topo_check(t), LAMBDA r :
    LET all == DOMAIN t.domains
        tops == {a \in all : \A b \in all : a \notin Customers(t, b)} IN
    Let(\A a \in all : Reach(t, {a}, {CUSTOMER, PROVIDER, PEER, SIBLING}) = all, LAMBDA connected :
    Let(\E a \in Reach(t, tops, {CUSTOMER}) : a \in Reach(t, Customers(t, a), {CUSTOMER}), LAMBDA cycle :
    Let(\E a \in tops : Depth(t, a) > MaxStack, LAMBDA deep :
       IF ~connected THEN r.err = "ASLEVEL_ERROR_DISCONNECTED"
       ELSE IF all # {} /\ tops = {} THEN r.err = "ASLEVEL_ERROR_CYCLE_DETECTED"
       ELSE IF cycle THEN r.err = "ASLEVEL_ERROR_CYCLE_DETECTED" \/ r.crash # ""
       ELSE r.err = "ASLEVEL_SUCCESS" /\ (r.crash # "" <=> deep)))))

(* The operations on a topology that was read without an error stop the    *)
(* program only where the search for cycles meets the limit of its stack   *)
(* (as-level.c:733), unless links to peers were filtered or the filter has *)
(* left a domain in the cache that it has freed (filter.c:119, 160).       *)
TopoDefined ==
  (job = "topology" /\ Crashed(s)) => trouble # {} \/ s.mem.crash = "as-level.c:733"

(* The network that bgp topology install makes (as-level.c:881): the       *)
(* routers are those of the domains, and each has a link and a session     *)
(* with the router of each neighbor, of the right AS, and no other; once   *)
(* the topology runs, every session has been opened.                       *)
Installed ==
  (s.topo # {} /\ trouble \subseteq {"freed"} /\ ~Crashed(s) /\ Topo(s).state >= INSTALLED) =>
    LET t == Topo(s)
        At(asn) == addr_mapper(t, asn)
        Ends(a) == {i[2] : i \in {j \in DOMAIN s.net.ifaces : j[1] = At(a)}} \ {At(a)}
    IN /\ DOMAIN s.bgp = {At(a) : a \in DOMAIN t.domains} \cup {14}
       /\ \A a \in DOMAIN t.domains :
            /\ s.bgp[At(a)].asn = a
            /\ DOMAIN s.bgp[At(a)].peers = {At(b) : b \in Neighbors(t, a)}
            /\ Ends(a) = DOMAIN s.bgp[At(a)].peers
            /\ \A b \in Neighbors(t, a) :
                 /\ Peer(s, At(a), At(b)).asn = b
                 /\ t.state = RUNNING => Peer(s, At(a), At(b)).state # "IDLE"

(* An AS-level topology stays sound from the file to the routers, and what *)
(* the user does to it is defined (bgp/aslevel/as-level.c:341, 1046,       *)
(* filter.c:119).                                                          *)
TopologySound == TopoSymmetric /\ Installed /\ TopoDefined

-----------------------------------------------------------------------------
(* Predicates.  An expression is a sequence of operands and of & and | in  *)
(* turn, an operand an atom or an expression in parentheses, with or       *)
(* without ! in front of it.                                               *)

Nesting(ts, k) == Cardinality({i \in 1 .. k : ts[i] = <<"(">>})
                  - Cardinality({i \in 1 .. k : ts[i] = <<")">>})

(* The operators outside of all parentheses. *)
Outer(ts) == {k \in DOMAIN ts : ts[k][1] \in {"&", "|"} /\ Nesting(ts, k) = 0}

Before(ts) == SubSeq(ts, 1, Max(Outer(ts)) - 1)

After(ts) == SubSeq(ts, Max(Outer(ts)) + 1, Len(ts))

Inside(ts) == SubSeq(ts, 2, Len(ts) - 1)

RECURSIVE Expression(_)
Expression(ts) ==
  IF Outer(ts) # {} THEN Expression(Before(ts)) /\ Expression(After(ts))
  ELSE IF ts = <<>> THEN FALSE
  ELSE IF Head(ts) = <<"!">> THEN Expression(Tail(ts)) /\ Head(Tail(ts)) # <<"!">>
  ELSE IF Head(ts) = <<"(">>
    THEN /\ Last(ts) = <<")">> /\ Nesting(ts, Len(ts)) = 0
         /\ \A k \in 1 .. Len(ts) - 1 : Nesting(ts, k) > 0
         /\ Expression(Inside(ts))
  ELSE Len(ts) = 1 /\ Head(ts)[1] = "atom"

(* Whether an expression holds of a route. *)
RECURSIVE Holds(_, _)
Holds(ts, route) ==
  IF Outer(ts) # {}
    THEN IF ts[Max(Outer(ts))] = <<"&">> THEN Holds(Before(ts), route) /\ Holds(After(ts), route)
         ELSE Holds(Before(ts), route) \/ Holds(After(ts), route)
  ELSE IF Head(ts) = <<"!">> THEN ~Holds(Tail(ts), route)
  ELSE IF Head(ts) = <<"(">> THEN Holds(Inside(ts), route)
  ELSE CASE Head(ts)[2][1] = "any" -> TRUE
         [] Head(ts)[2][1] = "prefix is" -> route.prefix \in Head(ts)[2][2]
         [] Head(ts)[2][1] = "community is" ->
              Head(ts)[2][2] \cap Range(List(route.attr.comms)) # {}

(* The tokens read can be completed to an expression. *)
Viable(ts) ==
  Let([k \in 1 .. Nesting(ts, Len(ts)) |-> <<")">>], LAMBDA close :
     /\ \A k \in DOMAIN ts : Nesting(ts, k) >= 0
     /\ Expression(ts \o close) \/ Expression(ts \o << <<"atom", <<"any">>>> >> \o close))

(* An expression that is made to match every route, whatever the route. *)
RECURSIVE Everything(_)
Everything(ts) ==
  IF Outer(ts) # {}
    THEN IF ts[Max(Outer(ts))] = <<"&">> THEN Everything(Before(ts)) /\ Everything(After(ts))
         ELSE Everything(Before(ts)) \/ Everything(After(ts))
  ELSE IF Head(ts) = <<"(">> THEN Everything(Inside(ts))
  ELSE Head(ts) = <<"atom", <<"any">>>>

(* The tokens end with a negation of such an operand, or of nothing. *)
Refuted(ts) ==
  \E k \in DOMAIN ts :
    LET rest == SubSeq(ts, k + 1, Len(ts))
    IN /\ ts[k] = <<"!">>
       /\ rest = << <<")">> >> \/ (Outer(rest) = {} /\ Expression(rest) /\ Everything(rest))

(* The predicate that predicate_parser.c builds with its stack matches the *)
(* routes of which the expression holds, read from left to right, whatever *)
(* the nesting of its operators and of its parentheses.                    *)
ParserMeaning ==
  p.error = "END" =>
    \A route \in Samples :
      filter_matcher_apply([maps |-> <<>>, regexes |-> p.regexes, router |-> {}], p.left, route)
        = {Holds(Front(read), route)}

(* The parser goes on as long as the tokens can be completed, ends with an *)
(* expression and refuses the rest (predicate_parser.c:433-522).  It has   *)
(* room for MAX_DEPTH open operators and parentheses.  The program stops   *)
(* at a negation of what matches every route, or of a closing parenthesis. *)
ParserExact ==
  job = "predicate" =>
    LET ended == read # <<>> /\ Last(read) = <<"EOF">>
    IN CASE p.error = "" -> Viable(read) /\ ~Refuted(read)
         [] p.error = "END" -> Expression(Front(read))
         [] p.error = "crash" -> Refuted(read)
         [] p.error = "ATOM" -> Last(read)[2][2] = {}
         [] OTHER -> \/ Len(p.stack) = MAX_DEPTH
                     \/ IF ended THEN ~Expression(Front(read)) ELSE ~Viable(read)

(* The parser of predicates accepts the expressions, and gives them their  *)
(* meaning (bgp/filter/predicate_parser.c:431, 511).                       *)
ParserRight == ParserExact /\ ParserMeaning

-----------------------------------------------------------------------------
(* A path whose sets have several members and stand between its sequences. *)
Plain(path) ==
  \A k \in DOMAIN path :
    /\ path[k].type = "SET" => Len(path[k].asns) > 1
    /\ k > 1 /\ path[k].type = "SEQUENCE" => path[k - 1].type = "SET"

(* A best route that is written as an MRT record (route.c:795) and read    *)
(* again by another run of the program (mrtd.c:303) has the attributes it  *)
(* had.                                                                    *)
RoundTrip ==
  ~Crashed(s) =>
    \A k \in DOMAIN routes :
      LET route == Marked(routes[k], {"BEST"}) IN
      Let(mrtd_route_from_line(Blank.mem, route_dump_mrt(route, {9}, {1})), LAMBDA r :
      Let(The(r.route), LAMBDA new :
         Plain(List(route.attr.path_ref)) =>
           /\ r.result = "B" /\ r.m.crash = ""
           /\ new.prefix = route.prefix
           /\ List(new.attr.path_ref) = List(route.attr.path_ref)
           /\ List(new.attr.comms) = List(route.attr.comms)
           /\ \A f \in {"next_hop", "origin", "local_pref", "med"} : new.attr[f] = route.attr[f]))

(* The repositories give what they are asked for: operations on routes     *)
(* that share attributes fail an assertion (attr.c:101, 133, 218, 244,     *)
(* path_hash.c:73, 120, comm.c:92) only when a text or a list is too long, *)
(* or when a path has lost its last AS and is taken for no path.           *)
AttrAborts ==
  job = "routes" =>
    CASE s.mem.crash = "" -> TRUE
      [] s.mem.crash = "attr.c:101" -> {<<>>} \in DOMAIN s.mem.paths.count
      [] s.mem.crash = "attr.c:133" -> NULL \in DOMAIN s.mem.paths.count
      [] s.mem.crash = "path_hash.c:73" ->
           \E k \in DOMAIN routes : path_to_string(routes[k].attr.path_ref, KeySize) = {}
      [] s.mem.crash = "comm.c:92" ->
           \E k \in DOMAIN routes : Len(List(routes[k].attr.comms)) = MaxComms
      [] OTHER -> FALSE

(* Routes keep their attributes, in the shared repositories                *)
(* (bgp/attr/path_hash.c:120) and through a file (bgp/mrtd.c:303).         *)
AttributesKept == RoundTrip /\ AttrAborts

(* cbgp-dump (main-dump.c:120) accounts for every record up to the first   *)
(* that cannot be read: it is written, or the filter has refused it, and   *)
(* the route is released in both cases.  It stops at that record.  Only a  *)
(* record that is not of a table makes it fail otherwise.                  *)
DumpAccounted ==
  job = "dump" =>
    Let({k \in DOMAIN read : FieldError(read[k]) # "SUCCESS"}, LAMBDA bad :
    Let(IF bad = {} THEN Len(read) ELSE Min(bad) - 1, LAMBDA before :
    Let({k \in 1 .. before : d.matcher # NULL /\ read[k].next_hop # {9}}, LAMBDA refused :
       IF d.mem.crash # "" THEN \E k \in 1 .. before : read[k].type # "B"
       ELSE /\ d.filtered = Cardinality(refused) /\ d.ok = before - d.filtered
            /\ Len(d.out) = d.ok
            /\ (d.err = "ESUCCESS") <=> (bad = {})
            /\ DOMAIN d.mem.paths.count \subseteq {NULL}
            /\ DOMAIN d.mem.comms.count \subseteq {NULL})))

(* The commands of a script or of the standard input, one by one. *)
RECURSIVE Results(_)
Results(commands) ==
  IF commands = <<>> THEN <<Blank>>
  ELSE Let(Results(Front(commands)), LAMBDA r :
          Append(r, Perform(Success(Last(r)), <<"command", Last(commands)>>)))

(* A script ends at the first command that fails while exit-on-error is    *)
(* on, or at quit, also when the command fails in a file it includes; what *)
(* was done stays done, nothing more is done, and the exit code tells      *)
(* (cli/common.c:912, api.c:285-452, main.c:118-200).  The interactive     *)
(* program goes on after an error and returns the result of its last       *)
(* command.                                                                *)
StopsAtError ==
  code # "" =>
    Let(Results(Tail(read)), LAMBDA results :
    LET error(k) == results[k].err \notin {"ESUCCESS", "CLI_SUCCESS_TERMINATE"}
        interactive == Head(read) = "interactive"
        fatal(k) == error(k) /\ ~interactive /\ results[k].opts.exit_on_error IN
    Let({k \in 2 .. Len(results) : fatal(k) \/ results[k].err = "CLI_SUCCESS_TERMINATE"}, LAMBDA ends :
    Let(IF ends = {} THEN Len(results) ELSE Min(ends), LAMBDA last :
    LET Left(S) == <<S.net, S.params, S.opts>> IN
       /\ Left(s) = Left(results[last])
       /\ (code = "EXIT_FAILURE") <=>
            (ends # {} \/ Head(read) = "missing" \/ (interactive /\ error(last))))))
=============================================================================
