----------------------------- MODULE MCNetwork ------------------------------
(***************************************************************************)
(* Instance of Network for TLC.  Addresses have 4 bits.  Each network      *)
(* starts from a script of its own and meets the commands and probes that  *)
(* matter to it:                                                           *)
(*   triangle  rtr links whose direct one is the longest, and a static     *)
(*             route that makes a forwarding loop                          *)
(*   subnet    a transit subnet, a stub subnet and a ptp link              *)
(*   diamond   two equal-cost paths that meet before their end, traffic    *)
(*   tunnel    an IP-in-IP tunnel over a line, and a route into it         *)
(*   build     commands that fail half-way, on two nodes                   *)
(***************************************************************************)
EXTENDS Network

Host(a) == ip_address_to_dest(a)

Pfx(a, l) == [type |-> "prefix", prefix |-> <<a, l>>]

Rtr(n, m, w) == <<<<"link", n, Host(m), 1, 0>>, <<"weight", n, m, w, TRUE>>>>

Nodes(m) == [k \in 1 .. m |-> <<"node", k, TRUE>>]

Domain(m) == <<<<"domain", 1>>>> \o [k \in 1 .. m |-> <<"join", k, 1>>]

Compute == <<<<"compute", 1>>>>

MCScripts ==
  [triangle |-> Nodes(3) \o Rtr(1, 2, 1) \o Rtr(2, 3, 1) \o Rtr(1, 3, 5)
                  \o Domain(3) \o Compute,
   subnet |-> Nodes(3) \o <<<<"subnet", <<8, 2>>, "transit">>,
                             <<"subnet", <<4, 2>>, "stub">>,
                             <<"link", 1, Pfx(9, 2), 1, 0>>,
                             <<"link", 2, Pfx(10, 2), 1, 0>>,
                             <<"link", 3, Pfx(5, 2), 1, 0>>,
                             <<"link-ptp", 2, <<12, 3>>, 3, <<13, 3>>, 1, 0>>,
                             <<"weight", 1, 9, 2, FALSE>>,
                             <<"weight", 2, 10, 1, FALSE>>,
                             <<"weight", 3, 5, 1, FALSE>>,
                             <<"weight", 2, 12, 1, FALSE>>,
                             <<"weight", 3, 13, 3, FALSE>>>>
                \o Domain(3) \o Compute,
   diamond |-> Nodes(5) \o Rtr(1, 2, 1) \o Rtr(1, 3, 1) \o Rtr(2, 4, 1)
                 \o Rtr(3, 4, 1) \o Rtr(4, 5, 1) \o Domain(5) \o Compute,
   tunnel |-> Nodes(3) \o Rtr(1, 2, 1) \o Rtr(2, 3, 1) \o Domain(3) \o Compute
                \o <<<<"ipip", 3>>, <<"tunnel", 1, 3, 15, NoIf, ANY>>>>,
   build |-> <<<<"node", 1, FALSE>>, <<"node", 2, TRUE>>, <<"domain", 1>>,
               <<"join", 1, 1>>>>]

MCCommands ==
  [triangle |-> {<<"down", 1, 2>>, <<"up", 1, 2>>, <<"weight", 1, 2, 5, TRUE>>,
                 <<"weight", 2, 3, 4, FALSE>>, <<"compute", 1>>,
                 <<"route+", 2, <<3, W>>, 1, ANY, 1>>,
                 <<"route-", 2, <<3, W>>, {1}, ANY>>},
   subnet |-> {<<"down", 2, 10>>, <<"down", 3, 13>>, <<"up", 2, 10>>,
               <<"weight", 2, 12, 4, TRUE>>, <<"compute", 1>>,
               <<"route+", 1, <<14, W>>, 9, 10, 1>>,
               <<"route+", 1, <<14, W>>, ANY, 10, 1>>,
               <<"route-", 1, <<14, W>>, {}, 10>>,
               <<"domain", 1>>, <<"domain", 2>>, <<"join", 3, 2>>,
               <<"compute", 2>>},
   diamond |-> {<<"down", 2, 4>>, <<"compute", 1>>, <<"load", 1, 2, 2>>,
                <<"unload", 1, 2>>, <<"load-clear">>},
   tunnel |-> {<<"route+", 1, <<3, W>>, 15, ANY, 1>>,
               <<"route+", 1, <<14, W>>, 15, ANY, 1>>,
               <<"iface", 3, <<14, W>>, "loopback">>,
               <<"down", 2, 3>>, <<"ipip", 3>>},
   build |-> {<<"node", 1, FALSE>>, <<"node", 3, FALSE>>,
              <<"subnet", <<5, 2>>, "stub">>, <<"subnet", <<2, W>>, "stub">>,
              <<"link", 1, Host(2), 1, 3>>, <<"link", 2, Host(1), 2, 0>>,
              <<"link", 1, Host(3), 1, 0>>, <<"link", 1, Pfx(5, 2), 1, 0>>,
              <<"link", 2, Pfx(5, 2), 1, 0>>,
              <<"link-ptp", 1, <<12, 3>>, 2, <<13, 3>>, 1, 3>>,
              <<"link-ptp", 2, <<12, 3>>, 1, <<5, 3>>, 1, 0>>,
              <<"link-ptp", 3, <<12, 3>>, 2, <<13, 3>>, 1, 0>>,
              <<"iface", 1, <<2, W>>, "loopback">>, <<"iface", 2, <<1, W>>, "rtr">>,
              <<"iface", 1, <<5, 2>>, "ptmp">>, <<"down", 1, 2>>,
              <<"weight", 1, 2, 2, TRUE>>, <<"compute", 1>>, <<"join", 2, 1>>,
              <<"ntf", <<[src |-> 1, dst |-> 3, delay |-> 1, weight |-> 2,
                          valid |-> TRUE],
                         [src |-> 3, dst |-> 2, delay |-> 1, weight |-> 2,
                          valid |-> FALSE]>>>>}]

Octets(d, b) == <<d, W, b>>

TrafficFile(b) == [header |-> <<"dstIP", "dstMask", "octets">>,
                   lines |-> <<Octets(4, 1), Octets(9, 2), Octets(2, b)>>]

SourceFile == [header |-> <<"srcIP", "dstIP", "octets">>,
               lines |-> <<<<1, 4, 2>>, <<2, 3, 1>>, <<9, 1, 1>>>>]

MCProbes ==
  [triangle |-> {<<"ping", 1, 3, 0>>, <<"ping", 3, 1, 1>>, <<"traceroute", 1, 3>>,
                 <<"record-route", 1, Host(3), MaxTTL, {}, 0>>,
                 <<"record-route", 1, Host(3), 0, {}, 0>>},
   subnet |-> {<<"ping", 1, 3, 0>>, <<"ping", 1, 14, 0>>, <<"traceroute", 1, 3>>,
               <<"ping", 3, 1, 0>>, <<"ping", 1, 6, 0>>,
               <<"record-route", 1, Pfx(4, 2), MaxTTL, {}, 0>>},
   diamond |-> {<<"record-route", 1, Host(5), MaxTTL, {"ecmp"}, 2>>,
                <<"record-route", 1, Host(4), MaxTTL, {}, 2>>,
                <<"traceroute", 1, 4>>,
                <<"traffic", {1}, TrafficFile(1), FALSE>>,
                <<"traffic", {1}, TrafficFile(-1), FALSE>>,
                <<"traffic", {}, SourceFile, FALSE>>},
   tunnel |-> {<<"ping", 1, 14, 0>>, <<"ping", 1, 3, 0>>,
               <<"record-route", 1, Host(14), MaxTTL, {"tunnel"}, 1>>,
               <<"record-route", 1, Host(14), 1, {"tunnel"}, 0>>},
   build |-> {}]
=============================================================================
