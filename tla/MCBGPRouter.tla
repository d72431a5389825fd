---------------------------- MODULE MCBGPRouter ----------------------------
(* Instances of BGPRouter for TLC.  Router 1 of AS 1; its neighbours and the *)
(* next-hops are numbered by their addresses, which are their router-ids.    *)
EXTENDS BGPRouter

Route(h, path, med) ==
    [next_hop |-> h, local_pref |-> 100, path |-> path, origin |-> 0, med |-> med,
     comms |-> {}, originator |-> ABSENT, clusters |-> <<>>]

MCPeers == {2, 3, 4}
TwoPeers == {2, 3}
MCAddr == [p \in Peers |-> p]
MCHops == {1} \cup Peers
NoNextHop == [p \in Peers |-> ANY]
NoPairs == {}
NoClients == {}

(* Three external neighbours in three ASes.                                  *)
External == [p \in Peers |-> p]

(* A route with a short and one with a long AS-path, one with a loop.        *)
ExternalOffers ==
    [p \in Peers |-> {Route(p, <<p>>, 0), Route(p, <<p, 9>>, 0)}
                     \cup (IF p = 3 THEN {Route(p, <<p, 1>>, 0)} ELSE {})]

(* Neighbours 2 and 3 are internal, 4 is external; 4 also announces a route  *)
(* that went through this AS.                                                *)
Mixed == [p \in Peers |-> IF p = 4 THEN 4 ELSE 1]
OneClient == {2}
MixedOffers ==
    [p \in Peers |->
        IF p = 2 THEN {Route(2, <<9>>, 0),
                       [Route(2, <<4>>, 0) EXCEPT !.originator = 3, !.clusters = <<7>>]}
        ELSE IF p = 3 THEN {Route(3, <<9>>, 0),
                            [Route(3, <<8, 9>>, 0) EXCEPT !.comms = {"no-export"}]}
        ELSE {Route(4, <<4>>, 0), Route(4, <<4, 1>>, 0),
              [Route(4, <<4, 9>>, 0) EXCEPT !.comms = {"no-advertise"}]}]

(* Two clients of a reflector that learned the same route of an external     *)
(* neighbour, whose address they leave as the next-hop.                      *)
TwoClients == {2, 3}
SameOffers == [p \in Peers |-> {Route(5, <<5>>, 0)}]
SameHops == MCHops \cup {5}
AllInternal == [p \in Peers |-> 1]

=============================================================================
