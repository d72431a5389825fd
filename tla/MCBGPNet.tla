------------------------------- MODULE MCBGPNet -------------------------------
(***************************************************************************)
(* Seven scenes for BGPNet.  Each starts with a script that the program      *)
(* reads, and goes on with one to three commands of the user, at any time  *)
(* between two events of the simulator.                                    *)
(*   chain    three ASes in a line, while the sessions come up             *)
(*   mesh     an AS with a full mesh of iBGP sessions and two providers    *)
(*   reflect  two route reflectors of one cluster                          *)
(*   policy   filters, route maps and communities on a square of ASes      *)
(*   virtual  virtual peers, RIB files and recorded messages               *)
(*   internet an AS-level topology with its policies                       *)
(*   tools    the commands that ask, and those that cannot be carried out  *)
(***************************************************************************)
EXTENDS BGPNet

Host(a) == ip_address_to_dest(a)

Nodes(set) == Let(Sorted(set), LAMBDA s0 :
                [k \in DOMAIN s0 |-> <<"node", s0[k], TRUE>>])

Rtr(n, m, w) == <<<<"link", n, Host(m), 1, 0>>, <<"weight", n, m, w, TRUE>>>>

(* A link between two ASes: the IGP does not know it. *)
Border(n, m) ==
  <<<<"link", n, Host(m), 1, 0>>, <<"route+", n, <<m, W>>, m, ANY, 1>>,
    <<"route+", m, <<n, W>>, n, ANY, 1>>>>

Domain(d, set) ==
  Let(Sorted(set), LAMBDA s0 :
     <<<<"domain", d>>>> \o [k \in DOMAIN s0 |-> <<"join", s0[k], d>>]
       \o <<<<"compute", d>>>>)

Routers(asn, set) ==
  Let(Sorted(set), LAMBDA s0 :
     [k \in DOMAIN s0 |-> <<"bgp", "add", "router", {asn}, s0[k]>>])

R(n, w) == <<"bgp", "router", {n}>> \o w

P(n, a, w) == <<"bgp", "router", {n}, "peer", {a}>> \o w

Peering(n, asn, m, asm) ==
  <<R(n, <<"add", "peer", {asm}, {m}>>), R(m, <<"add", "peer", {asn}, {n}>>)>>

Up(n, m) == <<P(n, m, <<"up">>), P(m, n, <<"up">>)>>

Session(n, asn, m, asm) == Peering(n, asn, m, asm) \o Up(n, m)

Net(n, p) == R(n, <<"add", "network", {p}>>)

DelNet(n, p) == R(n, <<"del", "network", {p}>>)

Sim == <<<<"sim run">>>>

(* The prefix that is announced, and an address in it. *)
p1 == <<4, 2>>

Has(n, a) == <<<<"iface", n, <<a, W>>, "loopback">>>>

(* Three ASes in a line; the sessions are being opened. *)
Chain ==
  Nodes({9, 10, 11}) \o Border(9, 10) \o Border(10, 11)
    \o Routers(1, {9}) \o Routers(2, {10}) \o Routers(3, {11})
    \o Has(9, 5) \o Has(10, 6) \o Has(11, 7) \o <<Net(9, p1)>>
    \o Session(9, 1, 10, 2) \o Session(10, 2, 11, 3)

(* AS 1 has the routers 9, 10 and 11; its neighbors 12 and 13, at 9 and    *)
(* 11, announce the same prefix.                                           *)
Mesh ==
  Nodes({9, 10, 11, 12, 13}) \o Rtr(9, 10, 1) \o Rtr(10, 11, 2)
    \o Border(9, 12) \o Border(11, 13) \o Domain(1, {9, 10, 11})
    \o Routers(1, {9, 10, 11}) \o Routers(2, {12}) \o Routers(3, {13})
    \o <<<<"bgp", "domain", {1}, "full-mesh">>>>
    \o Session(9, 1, 12, 2) \o Session(11, 1, 13, 3)
    \o <<P(9, 12, <<"next-hop-self">>), P(11, 13, <<"next-hop-self">>)>> \o Sim
    \o Has(12, 5) \o Has(13, 6) \o <<Net(12, p1), Net(13, p1)>> \o Sim

(* Router 9 of AS 1 has a route from its neighbor 12; 10 and 11 reflect    *)
(* routes to all the others, as one cluster.                               *)
Reflectors ==
  Nodes({9, 10, 11, 12}) \o Rtr(9, 10, 1) \o Rtr(10, 11, 1) \o Rtr(9, 11, 1)
    \o Border(9, 12) \o Domain(1, {9, 10, 11})
    \o Routers(1, {9, 10, 11}) \o Routers(2, {12})
    \o <<<<"bgp", "domain", {1}, "full-mesh">>>> \o Session(9, 1, 12, 2)
    \o <<P(9, 12, <<"next-hop-self">>), P(10, 9, <<"rr-client">>),
         P(10, 11, <<"rr-client">>), P(11, 9, <<"rr-client">>),
         P(11, 10, <<"rr-client">>), R(11, <<"set", "cluster-id", {10}>>)>>
    \o Sim \o Has(12, 5) \o <<Net(12, p1)>>

(* Two ways from AS 3 to the prefix of AS 1: through AS 2 and AS 4. *)
Square ==
  Nodes({9, 10, 11, 12}) \o Border(9, 10) \o Border(9, 12) \o Border(10, 11) \o Border(11, 12)
    \o Routers(1, {9}) \o Routers(2, {10}) \o Routers(3, {11}) \o Routers(4, {12})
    \o Has(9, 5) \o Session(9, 1, 10, 2) \o Session(9, 1, 12, 4) \o Session(10, 2, 11, 3)
    \o Session(11, 3, 12, 4) \o Sim \o <<Net(9, p1)>>

(* Router 9 has the virtual peers 12 and 13, and tells 10 what it gets. *)
Virtual ==
  Nodes({9, 10, 12, 13}) \o Border(9, 10) \o Border(9, 12) \o Border(9, 13)
    \o Routers(1, {9}) \o Routers(2, {10}) \o Session(9, 1, 10, 2)
    \o <<R(9, <<"add", "peer", {3}, {12}>>), P(9, 12, <<"virtual">>), P(9, 12, <<"up">>),
         R(9, <<"add", "peer", {4}, {13}>>), P(9, 13, <<"virtual">>), P(9, 13, <<"up">>)>>
    \o Sim

(* AS 9 and AS 10 are peers at the top; AS 11 is a customer of both, AS 12 *)
(* of AS 10, AS 13 of AS 12.  AS 11 and AS 12 are peers.                   *)
Line(tokens) == [comment |-> FALSE, tokens |-> tokens]

Rexford ==
  <<[comment |-> TRUE, tokens |-> <<>>], Line(<<{9}, {10}, {0}>>), Line(<<{9}, {11}, {1}>>),
    Line(<<{10}, {11}, {1}>>), Line(<<{10}, {12}, {1}>>), Line(<<{11}, {12}, {0}, {5}>>),
    Line(<<{12}, {13}, {1}>>)>>

Topology(w) == <<"bgp", "topology">> \o w

Internet ==
  <<Topology(<<"load", "rexford", "local", "default">>), Topology(<<"check">>),
    Topology(<<"install">>), Topology(<<"policies">>), Topology(<<"run">>)>> \o Sim

(* A record of type A, W or B: the route of prefix p1 with an AS-Path. *)
Record(type, peer, asn, hop, path) ==
  [fields |-> IF type = "W" THEN 6 ELSE 12, proto |-> IF type = "B" THEN "TABLE_DUMP" ELSE "BGP4",
   type |-> type, peer_addr |-> {peer}, peer_asn |-> {asn}, prefix |-> {p1},
   path |-> [k \in DOMAIN path |-> <<path[k]>>], origin |-> {0}, next_hop |-> {hop},
   pref |-> <<>>, med |-> <<{0}>>, comms |-> << <<"no-export">> >>]

(* Entries of a binary dump. *)
Entry(hop, path) ==
  [type |-> "TABLE_DUMP", subtype |-> "AFI_IP", prefix |-> p1, peer_addr |-> 9, peer_asn |-> 1,
   attr |-> {[origin |-> {0}, next_hop |-> {hop}, path |-> {path}, pref |-> {150}, med |-> {},
              comms |-> {}]}]

AddRule(n, a, dir, match, actions) ==
  <<P(n, a, <<"filter", dir, "add-rule", {}>>), <<"match", match>>, <<"action", actions>>>>

AllOf == << <<"atom", <<"any">>>> >>

IsP1 == << <<"atom", <<"prefix is", {p1}>>>> >>

(* The files that are included. *)
MCFiles ==
  [prefer |-> {AddRule(11, 12, "in", AllOf, << <<"local-pref", {200}>> >>)},
   tag |-> {AddRule(9, 10, "out", IsP1, << <<"community add", {COMM_NO_EXPORT}>> >>)},
   ignore |-> {AddRule(9, 12, "out", AllOf, << <<"red-community add ignore", {3}>> >>)},
   prepend |-> {AddRule(9, 12, "out", AllOf, << <<"as-path prepend", {2}>> >>)},
   maps |-> {<<<<"bgp", "route-map", "m">>, <<"add-rule">>, <<"match", IsP1>>,
               <<"action", << <<"community add", {COMM_NO_ADVERTISE}>> >>>>>>
             \o AddRule(10, 9, "in", AllOf, << <<"call", "m">> >>)},
   ascii |-> {<<Record("B", 9, 1, 12, <<3>>), Record("B", 9, 1, 14, <<5, 6>>)>>},
   broken |-> {<<Record("B", 9, 1, 13, <<4>>), Record("B", 9, 1, 12, <<3, 70000>>)>>},
   binary |-> {<<Entry(13, << [type |-> "SEQUENCE", asns |-> <<4, 7>>] >>),
                 [Entry(12, <<>>) EXCEPT !.subtype = "AFI_IP6"]>>},
   rexford |-> {Rexford}, none |-> {}]

MCScripts ==
  [tools |-> Mesh, internet |-> Internet, virtual |-> Virtual, policy |-> Square, reflect |-> Reflectors,
   chain |-> Chain, mesh |-> Mesh]

Policies == {"prefer", "tag", "ignore", "prepend", "maps"}

Dest(type, p) == {[type |-> type, prefix |-> p]}

(* A second router for a node. *)
Second(asn, n) == <<"bgp", "add", "router", {asn}, n>>

(* What can be asked, and commands that cannot be carried out. *)
Questions ==
  {R(10, <<"show", "rib", Dest("any", <<0, 0>>)>>), R(10, <<"show", "rib", Dest("address", <<5, W>>)>>),
   R(10, <<"show", "rib", Dest("prefix", p1)>>), R(10, <<"show", "rib", {}>>),
   R(10, <<"show", "route-info", Dest("any", <<0, 0>>)>>), R(12, <<"show", "networks">>),
   R(10, <<"show", "adj-rib", "in", {}, {<<0, 0>>}>>), R(9, <<"show", "adj-rib", "out", {10}, {p1}>>),
   R(9, <<"show", "adj-rib", "out", {8}, {p1}>>), R(9, <<"show", "info">>), R(9, <<"show", "peers">>),
   R(9, <<"show", "stats">>), R(10, <<"debug", "dp", {p1}>>), P(9, 12, <<"show", "info">>),
   R(10, <<"assert", "routes", {p1}, "best", "match", IsP1>>),
   R(10, <<"assert", "routes", {p1}, "feasible", "match", << <<"!">>, IsP1[1]>>>>),
   R(10, <<"assert", "routes", {p1}, "feasible", "show">>),
   R(10, <<"record-route", {p1}, {"preserve-dups"}>>),
   R(10, <<"record-route", {<<5, W>>}, {"exact-match"}>>), P(9, 12, <<"filter", "in", "show", {}>>),
   <<"bgp", "domain", {1}, "record-route", Dest("address", <<5, W>>)>>,
   <<"bgp", "domain", {7}, "rescan">>, <<"bgp", "show", "routers">>, <<"bgp", "show", "sessions">>,
   <<"bgp", "show", "route-maps">>, <<"bgp", "assert", "peerings-ok">>,
   <<"bgp", "assert", "reachability-ok">>, <<"show", "path-hash-stat">>,
   <<"show", "comm-hash-content">>, <<"show", "mem-limit">>, <<"show", "version">>, <<"show", "mrt">>,
   <<"require", "version", [parts |-> 1, subs |-> <<{2}, {4}, {0}>>]>>, <<"require", "param", "x">>,
   <<"set", "path-hash-size", {5}>>, <<"set", "mem-limit", {HardLimit + 1}>>, <<"time", "diff", 3>>,
   <<"bgp", "add", "router", {}, 9>>, Second(1, 9), Second(5, 9),
   <<"bgp", "domain", {1}, "full-mesh">>, R(9, <<"add", "peer", {1}, {9}>>),
   R(9, <<"add", "peer", {2}, {12}>>), Net(12, p1), DelNet(9, p1), R(9, <<"add", "network", {}>>),
   P(9, 12, <<"up">>), P(9, 8, <<"up">>), P(9, 12, <<"next-hop", {8}>>), P(9, 12, <<"soft-restart">>),
   P(9, 12, <<"recv", Record("A", 12, 2, 12, <<2>>)>>), <<"match", IsP1>>,
   P(9, 12, <<"filter", "in", "remove-rule", {0}>>), <<"bgp", "options", "local-pref", {}>>}

(* Commands on the options, after which the routers go on as before. *)
Settings ==
  {<<"bgp", "options", "show-mode", "custom", <<"p", "A">>>>, <<"bgp", "options", "auto-create", "on">>,
   <<"bgp", "options", "msg-monitor", "file">>, <<"bgp", "options", "local-pref", {7}>>,
   <<"define", "x", 1>>, <<"time", "save", 2>>, <<"set", "exit-on-error", "off">>, <<"quit">>,
   P(9, 12, <<"record", "file">>), P(9, 12, <<"update-source", {9}>>), P(9, 12, <<"next-hop", {9}>>),
   P(9, 12, <<"filter", "in", "insert-rule", {0}>>)}

MCCommands ==
  [tools |-> Questions \cup Settings,
   virtual |-> {P(9, 12, <<"recv", Record("A", 12, 3, 12, <<3, 5>>)>>),
                P(9, 13, <<"recv", Record("A", 13, 4, 13, <<4>>)>>),
                P(9, 13, <<"recv", Record("A", 13, 4, 13, <<4, 1>>)>>),
                P(9, 13, <<"recv", Record("A", 13, 4, 13, <<4, 65536>>)>>),
                P(9, 13, <<"recv", Record("W", 13, 4, 13, <<>>)>>),
                P(9, 12, <<"reset">>), P(9, 13, <<"down">>), P(9, 13, <<"up">>),
                P(9, 13, <<"soft-restart">>), <<"down", 9, 13>>, R(9, <<"rescan">>),
                R(9, <<"load", "rib", "ascii", "mrt-ascii", {"autoconf"}>>),
                R(9, <<"load", "rib", "ascii", "mrt-ascii", {}>>),
                R(9, <<"load", "rib", "broken", "mrt-ascii", {}>>),
                R(9, <<"load", "rib", "binary", "mrt-binary", {}>>)},
   internet |-> {Net(11, p1), Net(13, p1), Net(9, p1),
                 <<"bgp", "router AS", {12}, "peer AS", {11}, "down">>,
                 <<"down", 10, 11>>, Topology(<<"policies">>),
                 Topology(<<"filter", "asn", {13}>>), Topology(<<"record-route", {p1}, {}>>)},
   policy |-> {<<"include", f>> : f \in Policies}
              \cup {P(9, 10, <<"reset">>), P(9, 12, <<"reset">>), P(11, 12, <<"reset">>),
                    DelNet(9, p1)},
   reflect |-> {DelNet(12, p1), R(11, <<"set", "cluster-id", {11}>>),
                P(11, 9, <<"down">>), P(10, 11, <<"reset">>), R(9, <<"rescan">>),
                <<"down", 9, 12>>, R(10, <<"rerun", {p1}>>)},
   chain |-> {Net(11, p1), Net(10, p1), DelNet(10, p1), DelNet(9, p1),
              P(10, 9, <<"down">>), P(10, 9, <<"up">>), P(9, 10, <<"reset">>),
              <<"down", 9, 10>>, <<"up", 9, 10>>, R(10, <<"rescan">>), R(9, <<"rescan">>),
              R(10, <<"rerun", {<<0, 0>>}>>), <<"bgp", "assert", "peerings-ok">>,
              <<"bgp", "clear-rib">>, <<"bgp", "clear-adj-rib">>},
   mesh |-> {Second(1, 9), <<"bgp", "domain", {1}, "full-mesh">>,
             <<"bgp", "domain", {1}, "rescan">>, <<"weight", 10, 11, 1, TRUE>>,
             <<"weight", 9, 10, 3, TRUE>>, <<"compute", 1>>,
             <<"down", 9, 12>>, <<"bgp", "options", "med", "always-compare">>,
             DelNet(12, p1), R(9, <<"stop">>), R(9, <<"start">>),
             R(10, <<"record-route", {p1}, {}>>)}]

MCMaxCommands == [tools |-> 1, internet |-> 2,
                  virtual |-> 3, policy |-> 2, reflect |-> 2, chain |-> 2, mesh |-> 2]

MCVersion == [parts |-> 2, subs |-> <<{2}, {3}, {2}>>]
=============================================================================
