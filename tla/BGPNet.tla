-------------------------------- MODULE BGPNet --------------------------------
(***************************************************************************)
(* C-BGP as a whole: the user types commands, the simulator delivers one   *)
(* message after the other.  The routers of module BGPDecision and its     *)
(* successors send their messages through the network of module            *)
(* Forwarding, over the links and with the routes that it has at that      *)
(* time.                                                                   *)
(*                                                                         *)
(* Commands and messages interleave as they like: the user may run a few   *)
(* events at a time.  An event that fails ends the run of the simulator    *)
(* and leaves the others in its queue for the next run.                    *)
(***************************************************************************)
EXTENDS CLI

CONSTANTS Scripts,       \* the script each scene starts with
          Commands,      \* the commands that follow in each scene
          MaxCommands    \* the number of these commands in each scene

VARIABLES scene,         \* the name of the script
          script,        \* what is left of it
          s,             \* the state of the program
          typed,         \* the commands typed so far
          kept           \* the routes <<n, a, p>> of the Adj-RIBs-In that are
                         \* not of the present session

vars == <<scene, script, s, typed, kept>>

-----------------------------------------------------------------------------
Starts(c, words) == Len(c) >= Len(words) /\ SubSeq(c, 1, Len(words)) = words

(* The routes that are not of the present session, after a step from S to  *)
(* T: the session was closed, or there is none and the route was loaded.   *)
(* A session that restarts softly considers its routes again.              *)
KeptAfter(S, T, old, c) ==
  LET Route(U, n, a, p) ==
        IF a \notin DOMAIN U.bgp[n].peers THEN {}
        ELSE {<<r.prefix, r.attr>> : r \in rib_find_exact(Peer(U, n, a).rib.in, p)}
      Up(U, n, a) == Peer(U, n, a).state = "ESTABLISHED"
      Resets(n, a) == Starts(c, <<"bgp", "router", {n}, "peer", {a}, "reset">>)
      Ended(n, a) == /\ Up(S, n, a) /\ (Resets(n, a) \/ ~Up(T, n, a))
                     /\ "soft-restart" \notin Peer(S, n, a).flags
  IN {<<n, a, p>> \in UNION {UNION {{<<n, a, p>> : p \in DOMAIN Peer(T, n, a).rib.in} :
                                      a \in DOMAIN T.bgp[n].peers} : n \in DOMAIN S.bgp} :
        IF Route(T, n, a, p) = Route(S, n, a, p) THEN <<n, a, p>> \in old \/ Ended(n, a)
        ELSE ~Up(T, n, a)}

-----------------------------------------------------------------------------
Init ==
  /\ scene \in DOMAIN Scripts
  /\ script = Scripts[scene]
  /\ s = Blank
  /\ typed = <<>>
  /\ kept = {}

(* The script comes first, and every command of it succeeds. *)
Waiting ==
  IF script # <<>> THEN {Head(script)}
  ELSE {c \in Commands[scene] : Len(typed) < MaxCommands[scene]}

Command ==
  /\ ~Crashed(s)
  /\ \E c \in Waiting :
       /\ s' = Perform(s, <<"command", c>>)
       /\ IF script # <<>>
          THEN script' = Tail(script) /\ s'.err = "ESUCCESS" /\ UNCHANGED <<typed, kept>>
          ELSE /\ typed' = Append(typed, c)
               /\ kept' = KeptAfter(s, s', kept, c)
               /\ UNCHANGED script
  /\ UNCHANGED scene

Deliver ==
  /\ ~Crashed(s)
  /\ script = <<>> /\ s.queue # <<>>
  /\ s' = Perform(s, <<"event">>)
  /\ kept' = KeptAfter(s, s', kept, <<>>)
  /\ UNCHANGED <<scene, script, typed>>

(* Nothing is left to do, or the program has stopped. *)
Rest ==
  /\ Crashed(s) \/ (script = <<>> /\ s.queue = <<>> /\ Len(typed) = MaxCommands[scene])
  /\ UNCHANGED vars

Next == Command \/ Deliver \/ Rest

(* The simulator goes on as long as it has events. *)
Fairness == /\ []<>(script = <<>> \/ Crashed(s)) \/ []<><<Command>>_vars
            /\ []<>(s.queue = <<>> \/ Crashed(s)) \/ []<><<Deliver>>_vars

Spec == Init /\ [][Next]_vars /\ Fairness

-----------------------------------------------------------------------------
States == {"IDLE", "OPENWAIT", "ESTABLISHED", "ACTIVE"}

Flags == {"BEST", "ELIGIBLE", "FEASIBLE", "INTERNAL", "RR_CLIENT", "DP_IGP"}

(* The state is well-formed: the sessions, the queue and the routes have   *)
(* values of the types of the code, and every ASN fits in 16 bits.         *)
BGPTypeOK ==
  /\ \A m \in Range(s.queue) : m.msg.ttl \in 0 .. MaxTTL
  /\ \A n \in DOMAIN s.bgp :
       /\ n \in DOMAIN s.net.nodes /\ s.bgp[n].asn \in 0 .. 65535
       /\ \A a \in DOMAIN s.bgp[n].peers :
            LET p == Peer(s, n, a)
            IN /\ p.state \in States /\ p.send \in Nat /\ p.recv \in Nat
               /\ \A r \in Range(p.rib.in) \cup Range(p.rib.out) :
                    /\ r.flags \subseteq Flags
                    /\ \A seg \in Range(List(r.attr.path_ref)) :
                         Range(seg.asns) \subseteq 0 .. 65535 /\ Len(seg.asns) <= MaxSegment

(***************************************************************************)
(* The references to the attributes.                                       *)
(***************************************************************************)
(* Every route that the program can still reach, with its place. *)
Held(S) ==
  LET routers == DOMAIN S.bgp
      InRib(n, a, dir) == {<<dir, n, a, p, Peer(S, n, a).rib[dir][p]>> :
                             p \in DOMAIN Peer(S, n, a).rib[dir]}
      msgs == {k \in DOMAIN S.queue : Innermost(S.queue[k].msg).proto = "bgp"}
  IN UNION {UNION {InRib(n, a, "in") \cup InRib(n, a, "out") :
                     a \in DOMAIN S.bgp[n].peers} : n \in routers}
     \cup UNION {{<<"loc", n, n, p, S.bgp[n].loc_rib[p]>> : p \in DOMAIN S.bgp[n].loc_rib} :
                   n \in routers}
     \cup UNION {{<<"net", n, n, k, S.bgp[n].local_nets[k]>> :
                     k \in DOMAIN S.bgp[n].local_nets} : n \in routers}
     \cup UNION {{<<"msg", k, k, k, r>> : r \in Innermost(S.queue[k].msg).payload.route} :
                   k \in msgs}

Balanced(count, leak, refs(_)) ==
  \A x \in (DOMAIN count \cup {refs(h) : h \in Held(s)} \cup DOMAIN leak) \ {NULL} :
    (IF x \in DOMAIN count THEN count[x] ELSE 0)
      = Cardinality({h \in Held(s) : refs(h) = x}) + (IF x \in DOMAIN leak THEN leak[x] ELSE 0)

(* The counters of the shared AS-Paths and Communities are the numbers of  *)
(* the routes that refer to them, in a RIB, in the list of the networks or *)
(* in a message, and of the routes that were lost with the message that    *)
(* carried them: no attribute is freed while a route has it, and no other  *)
(* is kept.                                                                *)
RefsCounted ==
  ~Crashed(s) =>
    /\ Balanced(s.mem.paths.count, s.leak.paths, LAMBDA h : h[5].attr.path_ref)
    /\ Balanced(s.mem.comms.count, s.leak.comms, LAMBDA h : h[5].attr.comms)

(* The state is sound through all messages and commands, those that fail   *)
(* and those that lose messages included (bgp/attr.c:101, message.c:139).  *)
StateSound == BGPTypeOK /\ RefsCounted

-----------------------------------------------------------------------------
(***************************************************************************)
(* The RIBs of a router.                                                   *)
(***************************************************************************)
(* The word that tells what a command does. *)
Verb(c) ==
  IF c[1] # "bgp" THEN c[1]
  ELSE IF c[2] \notin {"router", "router AS", "domain"} THEN c[2]
  ELSE IF c[4] \in {"peer", "peer AS"} THEN c[6] ELSE c[4]

(* Was a command with these first words typed? *)
Did(words) == \E k \in DOMAIN typed : Starts(typed[k], words)

DidAt(n, words) == Did(<<"bgp", "router", {n}>> \o words)

(* The RIBs were cleared, which no peer is told. *)
Forgot == Did(<<"bgp", "clear-rib">>) \/ Did(<<"bgp", "clear-adj-rib">>)

(* A router got another cluster-id, which its routes are not tested for. *)
Reclustered == \E n \in DOMAIN s.bgp : DidAt(n, <<"set", "cluster-id">>)

Established(n, a) == Peer(s, n, a).state = "ESTABLISHED"

(* The network was changed after the last scan of the RIB of router n. *)
Scan(n, c) == \/ Starts(c, <<"bgp", "router", {n}, "rescan">>)
              \/ /\ Starts(c, <<"bgp", "domain", {s.bgp[n].asn}, "rescan">>)
                 /\ <<s.bgp[n].asn, n>> \notin DOMAIN s.strays

Unscanned(n) ==
  \E k \in DOMAIN typed : /\ typed[k][1] \in {"down", "up", "weight", "compute"}
                         /\ \A j \in k + 1 .. Len(typed) : ~Scan(n, typed[j])

Learned(n) == {p \in DOMAIN s.bgp[n].loc_rib : ~route_flag_get(s.bgp[n].loc_rib[p], "INTERNAL")}

BgpEntries(n) ==
  LET T == s.net.nodes[n].rt
  IN {<<p, T[p][k].entries[1].gw>> :
        <<p, k>> \in {<<q, j>> \in UNION {{q} \X DOMAIN T[q] : q \in DOMAIN T} :
                       T[q][j].type = "bgp"}}

(* The node forwards by the routes its router has selected: the BGP        *)
(* entries of its routing table are the routes that were learned for the   *)
(* Loc-RIB, with their next hops.  A network that takes the place of a     *)
(* learned route leaves the entry of that route behind, and clear-rib all  *)
(* of them.                                                                *)
RtMatches ==
  \A n \in DOMAIN s.bgp :
    ~Crashed(s) /\ ~DidAt(n, <<"add", "network">>) /\ ~Did(<<"bgp", "clear-rib">>) =>
      BgpEntries(n) = {<<p, s.bgp[n].loc_rib[p].attr.next_hop>> : p \in Learned(n)}

(* In the Adj-RIBs-In, the route that the router has selected carries the  *)
(* flag of the best route and no other does, whatever was received,        *)
(* withdrawn, closed or scanned in between.  The flag of a route that is   *)
(* loaded for a session that is not up says something else.                *)
BestFlagged ==
  \A n \in DOMAIN s.bgp : \A p \in _bgp_router_prefixes(s, n) :
    ~(\/ Crashed(s) \/ DidAt(n, <<"add", "network">>) \/ Forgot
      \/ DidAt(n, <<"load">>) /\ \E a \in DOMAIN s.bgp[n].peers : <<n, a, p>> \in kept) =>
      {a \in DOMAIN s.bgp[n].peers :
         \E r \in rib_find_exact(Peer(s, n, a).rib.in, p) : route_flag_get(r, "BEST")}
      = IF p \in Learned(n) THEN s.bgp[n].loc_rib[p].peer ELSE {}

(* The choice of a router, which the program keeps in three places         *)
(* (bgp/as.c:1118, dp_rt.c:100), is the same in all of them.               *)
BestRecorded == RtMatches /\ BestFlagged

(* Every event that could change a choice leads to the decision process:   *)
(* to run it once more on any prefix selects what the Loc-RIB holds.  A    *)
(* change of the network needs a scan of the RIB first; the other options  *)
(* for the MED, a network that is removed and the RIBs that are cleared    *)
(* need a run of the user's.  The routes of a session that was closed and  *)
(* opened again are back without one, too.                                 *)
Decided ==
  \A n \in DOMAIN s.bgp : \A p \in _bgp_router_prefixes(s, n) :
    ~(\/ Crashed(s) \/ Unscanned(n) \/ Did(<<"bgp", "options", "med">>)
      \/ DidAt(n, <<"del", "network">>) \/ Did(<<"bgp", "clear-adj-rib">>)
      \/ \E a \in DOMAIN s.bgp[n].peers : <<n, a, p>> \in kept /\ Established(n, a)) =>
      Let(bgp_router_decision_process(s, n, p), LAMBDA again :
      LET Chosen(S) == {<<r.peer, r.attr>> : r \in rib_find_exact(S.bgp[n].loc_rib, p)} IN
         ~Crashed(again) /\ Chosen(again) = Chosen(s))

-----------------------------------------------------------------------------
(***************************************************************************)
(* The routers with each other.                                            *)
(***************************************************************************)
Quiet == s.queue = <<>> /\ ~Crashed(s)

(* Both ends of the session are up and have counted the same messages. *)
InStep(n, m) ==
  /\ m \in DOMAIN s.bgp /\ n \in DOMAIN s.bgp[m].peers
  /\ Established(n, m) /\ Established(m, n)
  /\ Peer(s, n, m).send = Peer(s, m, n).recv /\ Peer(s, m, n).send = Peer(s, n, m).recv

(* The AS-Path that router m gets with a route of router n's. *)
PathSent(n, m, route) ==
  IF s.bgp[m].asn = s.bgp[n].asn THEN route.attr.path_ref
  ELSE path_append(List(route.attr.path_ref), s.bgp[n].asn)

(* Router m does not accept what router n makes of its route: it has seen  *)
(* the route before.                                                       *)
ComesBack(n, m, route) ==
  \E sent \in Redistribute(s.bgp[n], Peer(s, n, m), route) :
    \/ originator_equals(sent.attr.originator, {s.bgp[m].rid})
    \/ route_cluster_list_contains(sent, s.bgp[m].cluster_id)

Unfiltered(n, m) == Peer(s, n, m).filter.out = NULL /\ Peer(s, m, n).filter.in = NULL

(* When no message is under way, the two ends of a session that is up      *)
(* agree: the Adj-RIB-In of the one holds what is in the Adj-RIB-Out of    *)
(* the other, but for the routes that have come back to it.  What else it  *)
(* holds was received before the session was last closed.                  *)
EndsAgree ==
  \A n \in DOMAIN s.bgp : \A m \in DOMAIN s.bgp[n].peers :
    Quiet /\ InStep(n, m) /\ Unfiltered(n, m) /\ ~Forgot /\ ~Reclustered =>
        LET out == Peer(s, n, m).rib.out
            in == Peer(s, m, n).rib.in
        IN /\ \A p \in DOMAIN out :
                IF ComesBack(n, m, out[p]) THEN p \notin DOMAIN in
                ELSE p \in DOMAIN in /\ in[p].attr.path_ref = PathSent(n, m, out[p])
           /\ \A p \in DOMAIN in \ DOMAIN out : <<m, n, p>> \in kept

(* A sequence of ASes without the repetitions. *)
Steps(asns) ==
  FoldLeft(LAMBDA r, x : IF r # <<>> /\ Last(r) = x THEN r ELSE Append(r, x), <<>>, asns)

(* May router n tell router m of the best route it has?  The route is not  *)
(* told to the one it is from, nor past the ASes its Communities keep it   *)
(* in; inside the AS it is passed on once, or between a reflector and its  *)
(* clients.                                                                *)
MayTell(n, m, route) ==
  LET R == s.bgp[n]
      inside == s.bgp[m].asn = R.asn
      ibgp == \E a \in route.peer : R.peers[a].asn = R.asn
      client(a) == "rr-client" \in R.peers[a].flags
  IN /\ \A a \in route.peer : R.peers[a].router_id # R.peers[m].router_id
     /\ COMM_NO_ADVERTISE \notin Range(List(route.attr.comms))
     /\ \A e \in Range(List(route.attr.ecomms)) : e.action = "IGNORE" => e.asn # s.bgp[m].asn
     /\ IF inside THEN /\ ibgp => R.reflector /\ (client(m) \/ \E a \in route.peer : client(a))
                       /\ ibgp => R.peers[m].router_id \notin route.attr.originator
        ELSE /\ COMM_NO_EXPORT \notin Range(List(route.attr.comms))
             /\ ~\E k \in DOMAIN List(route.attr.path_ref) :
                   s.bgp[m].asn \in Range(List(route.attr.path_ref)[k].asns)

(* A router tells its neighbors what it uses itself: the Adj-RIB-Out of a  *)
(* session that is up has the routes of the Loc-RIB that the neighbor may  *)
(* be told, and no other.  What a change of the best route, of its         *)
(* Communities or of the session makes inappropriate is withdrawn.         *)
Exported ==
  \A n \in DOMAIN s.bgp : \A m \in DOMAIN s.bgp[n].peers \cap DOMAIN s.bgp :
    (/\ ~Crashed(s) /\ ~Forgot
     /\ Established(n, m) /\ Peer(s, n, m).filter.out = NULL) =>
      DOMAIN Peer(s, n, m).rib.out
        = {p \in DOMAIN s.bgp[n].loc_rib : MayTell(n, m, s.bgp[n].loc_rib[p])}

(* No route comes back to where it has been: the routes of an Adj-RIB-In   *)
(* do not have the AS of the router in their AS-Path, the router itself as *)
(* their originator or its cluster among the ones they passed, and no AS   *)
(* is in an AS-Path twice, but for one that is prepended several times.    *)
LoopFree ==
  \A n \in DOMAIN s.bgp : \A a \in DOMAIN s.bgp[n].peers :
  \A r \in Range(Peer(s, n, a).rib.in) :
    Let(Steps(FlattenSeq([k \in DOMAIN List(r.attr.path_ref) |->
                            List(r.attr.path_ref)[k].asns])), LAMBDA asns :
       /\ s.bgp[n].asn \notin Range(asns)
       /\ IsInjective(asns)
       /\ s.bgp[n].rid \notin r.attr.originator
       /\ s.bgp[n].cluster_id \in Range(List(r.attr.cluster_list)) => Reclustered)

(* The nodes that a message from node n to address a passes, and how it    *)
(* ends.                                                                   *)
TraceTo(n, a) ==
  LET msg == [message_create(ANY, a, "icmp", MaxTTL, icmp_msg("trace", "none", n))
                EXCEPT !.opts = {ip_options_create}] IN
  Let(sim_run(node_send(Aside(s), n, msg, {})), LAMBDA run :
     CHOOSE tr \in run.result : TRUE)

AsPath(n, p) ==
  <<s.bgp[n].asn>> \o Reverse(FlattenSeq(
    LET path == List(s.bgp[n].loc_rib[p].attr.path_ref) IN [k \in DOMAIN path |-> path[k].asns]))

(* The addresses of prefix p that the routers of an AS have. *)
Inside(asn, p) == {i[2] : i \in {j \in DOMAIN s.net.ifaces : /\ ip_address_in_prefix(j[2], p)
                                                            /\ s.bgp[j[1]].asn = asn}}

(* The packets take the way the routes have promised: when no message is   *)
(* under way, a packet to an address that the origin of a learned route    *)
(* has in the prefix passes the ASes of the AS-Path of that route, in      *)
(* their order, and arrives.                                               *)
PacketsFollow ==
  Quiet /\ ~Forgot /\ ~(\E n \in DOMAIN s.bgp : Unscanned(n)) =>
    \A n \in DOMAIN s.bgp : \A p \in Learned(n) :
    \A a \in Inside(Last(AsPath(n, p)), p) :
      Let(TraceTo(n, a), LAMBDA tr :
      Let(SelectSeq(tr.items, LAMBDA x : x[1] = "node"), LAMBDA nodes :
         /\ tr.status = "ESUCCESS"
         /\ Steps([k \in DOMAIN nodes |-> s.bgp[nodes[k][2]].asn]) = Steps(AsPath(n, p))))

(* record-route predicts the way of the packets: for a route that was      *)
(* learned from a router, it goes from next hop to next hop through the    *)
(* ASes of the AS-Path to an origin that still has the prefix, as long as  *)
(* no route of a session that was closed is around.                        *)
RecordFollows ==
  Quiet /\ ~Forgot /\ ~(\E n \in DOMAIN s.bgp : Unscanned(n)) =>
    \A n \in DOMAIN s.bgp : \A p \in Learned(n) :
      (\E m \in DOMAIN s.bgp : s.bgp[m].asn = Last(AsPath(n, p))) /\ (\A k \in kept : k[3] # p) =>
        Let(bgp_record_route(s, n, p, {}), LAMBDA r :
           /\ r.result = "SUCCESS"
           /\ FlattenSeq([k \in DOMAIN r.path |-> r.path[k].asns]) = Steps(AsPath(n, p)))

(* AS-Paths, record-route and packets agree on the way to a prefix         *)
(* (bgp/record-route.c:57, net/network.c:429).                             *)
PathsTrue == PacketsFollow /\ RecordFollows

(* The program stopped at a message that arrived at a session which the    *)
(* user had closed, or which a rescan had closed after a link went down.   *)
StoppedAtClosed ==
  /\ s.mem.crash \in {"peer.c:455", "peer.c:511", "peer.c:540"}
  /\ \E k \in DOMAIN typed :
       \/ typed[k][1] = "bgp" /\ Verb(typed[k]) \in {"down", "stop", "reset"}
       \/ /\ typed[k][1] = "down"
          /\ \E j \in k + 1 .. Len(typed) : Verb(typed[j]) = "rescan"

(* The ASes that an announcement has passed, its origin first. *)
Passed(route) ==
  FlattenSeq([k \in DOMAIN List(route.attr.path_ref) |-> List(route.attr.path_ref)[k].asns])

(* What the AS asn is to the AS that sent it a route, siblings left out. *)
Relations(asns) ==
  SelectSeq([k \in 1 .. Len(asns) - 1 |-> PeerType(Topo(s), asns[k], asns[k + 1])],
            LAMBDA type : type # SIBLING)

HasPolicies == s.topo # {} /\ Topo(s).state >= POLICIES

(* The filters of an AS-level topology enforce the valley-free property:   *)
(* an announcement that has gone to a peer or to a customer then only goes *)
(* to customers.  The ASes on its way agree on that, although each of them *)
(* only sees the communities of the last one.                              *)
ValleyFree ==
  HasPolicies =>
    \A n \in DOMAIN s.bgp : \A a \in DOMAIN s.bgp[n].peers :
      \A route \in Range(Peer(s, n, a).rib.in) :
        Let(Relations(Append(Passed(route), s.bgp[n].asn)), LAMBDA types :
           \A j, k \in DOMAIN types : j < k /\ types[j] # PROVIDER => types[k] = CUSTOMER)

(* With these filters a router does not use the route of a peer when a     *)
(* customer has one for the prefix, nor the route of a provider when a     *)
(* customer or a peer has one.                                             *)
CustomersFirst ==
  (HasPolicies /\ ~Crashed(s)) =>
    \A n \in DOMAIN s.bgp : \A a, b \in DOMAIN s.bgp[n].peers :
      LET Type(m) == PeerType(Topo(s), s.bgp[n].asn, s.bgp[m].asn)
      IN \A route \in Range(Peer(s, n, a).rib.in) :
           (/\ route_flag_get(route, "BEST") /\ Established(n, a) /\ Established(n, b)
            /\ Type(a) # SIBLING /\ Type(b) # SIBLING
            /\ \E other \in rib_find_exact(Peer(s, n, b).rib.in, route.prefix) :
                  route_flag_get(other, "FEASIBLE") /\ <<n, b, route.prefix>> \notin kept)
             => \/ Type(a) = CUSTOMER \/ Type(b) = PROVIDER
                \/ Type(a) = PEER /\ Type(b) = PEER

(* The business relationships of an AS-level topology are respected, in    *)
(* what is announced and in what is used (bgp/aslevel/as-level.c:1445).    *)
PoliciesHold == ValleyFree /\ CustomersFirst

(* The routers settle: after the last command the messages come to an end  *)
(* and sim run returns, unless the program stops; it stops only at a       *)
(* session that was closed (bgp/peer.c:455, 511, 540).                     *)
Settles == <>[](IF Crashed(s) THEN StoppedAtClosed ELSE s.queue = <<>>)

-----------------------------------------------------------------------------
(***************************************************************************)
(* The commands.                                                           *)
(***************************************************************************)
(* What a command may change: what was shown, the result, the context of a *)
(* rule and the compiled regular expressions do not matter.                *)
World(S) ==
  [f \in DOMAIN S \ {"out", "err", "ctx", "regexes", "bgp", "load"} |-> S[f]]

(* The routers, but for the flag that tells whether a next hop is          *)
(* reachable.                                                              *)
Routers0(S) ==
  LET Plain(rib) == [p \in DOMAIN rib |-> route_flag_set(rib[p], "FEASIBLE", FALSE)]
  IN [n \in DOMAIN S.bgp |->
        [S.bgp[n] EXCEPT !.peers = [a \in DOMAIN @ |-> [@[a] EXCEPT !.rib.in = Plain(@)]]]]

Typed(c) == script = <<>> /\ typed' = Append(typed, c)

Asks(c) == Verb(c) \in {"show", "assert", "debug", "record-route", "require", "print", "pause",
                        "chdir"}

(* The commands that go on until an error. *)
Partial(c) == Verb(c) \in {"include", "sim run", "start", "stop", "reset", "load"}

(* A second router for a node: its AS has it before the node refuses it.   *)
Readds(c) ==
  Starts(c, <<"bgp", "add", "router">>) /\ c[4] # {} /\ c[5] \in DOMAIN s.bgp

(* Only a command that is meant to change something and that succeeds does *)
(* (cli/bgp.c:553, bgp/as.c:860).  The commands that show, trace, test or  *)
(* explain leave the network, the RIBs, the sessions and the messages as   *)
(* they are, even the ones that run the simulator, the scan of the         *)
(* feasible routes or the rules of the decision process.  A command that   *)
(* fails has changed nothing, except for the ones that do several things   *)
(* in turn and stop at the first that fails, and for bgp add router at a   *)
(* node that has a router, which changes the list of the routers of an AS  *)
(* (bgp/as.c:264-273, bgp/domain.c:102).                                   *)
OthersKeep ==
  [][\A c \in Commands[scene] :
       Typed(c) /\ ~Crashed(s') /\ (Asks(c) \/ (s'.err # "ESUCCESS" /\ ~Partial(c))) =>
         /\ Routers0(s') = Routers0(s)
         /\ World(IF Readds(c) THEN [s' EXCEPT !.domains = s.domains, !.strays = s.strays]
                  ELSE s') = World(s)]_vars

(* What debug dp explains is what the decision process does: the route     *)
(* that it finds best is the one that was selected.                        *)
DebugAgrees ==
  \A n \in DOMAIN s.bgp : \A p \in Learned(n) :
    ~(\/ Crashed(s) \/ Unscanned(n) \/ Did(<<"bgp", "options", "med">>) \/ Forgot
      \/ \E a \in DOMAIN s.bgp[n].peers : <<n, a, p>> \in kept) =>
      bgp_debug_dp(s, n, p).best = s.bgp[n].loc_rib[p].peer

(* The Loc-RIB has what the decision process chooses, and debug dp says so *)
(* (bgp/peer.c:570, bgp/as.c:1118, 2186).                                  *)
DecisionStands == Decided /\ DebugAgrees

=============================================================================
