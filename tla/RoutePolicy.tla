---------------------------- MODULE RoutePolicy ----------------------------
(* What a router does to a route on its way in and out: the import checks of *)
(* bgp_peer_route_eligible (src/bgp/peer.c) and the redistribution matrix    *)
(* and attribute updates of _bgp_router_advertise_to_peer (src/bgp/as.c).    *)
(*                                                                           *)
(* A route is the record of its attributes; the prefix is fixed, since a     *)
(* router treats its prefixes independently.  The policy filters of a peer   *)
(* are abstracted to the next-hops whose routes they deny; redistribution    *)
(* extended communities, which may prepend to the path, are left out.        *)
EXTENDS Integers, Sequences

CONSTANTS
    Peers,         \* the router's neighbours
    Asn,           \* Asn[p]: the AS of neighbour p
    RouterId,      \* RouterId[p]: the identifier p sends in its OPEN
    Reflector,     \* whether the router is a route-reflector
    Clients,       \* the neighbours configured as rr-client
    NextHopSelf,   \* the neighbours configured with next-hop-self
    NextHop,       \* NextHop[p]: the next-hop configured for p, or ANY
    DeniedIn,      \* <<p, h>>: the input filter of p denies routes with next-hop h
    DeniedOut,     \* <<p, h>>: the output filter of p denies routes with next-hop h
    MyAsn, MyId,   \* the router's AS and identifier
    MyCluster,     \* its cluster identifier
    Hops,          \* the next-hops of the routes, MyId among them
    Local,         \* where a route of this router comes from, instead of a peer
    None           \* no route

ASSUME PeersAssumption ==
    /\ Local \notin Peers
    /\ Asn \in [Peers -> Nat] /\ RouterId \in [Peers -> Nat \ {0}]
    /\ Reflector \in BOOLEAN /\ Clients \subseteq Peers /\ NextHopSelf \subseteq Peers
    /\ NextHop \in [Peers -> Hops \cup {0}] /\ Hops \subseteq Nat \ {0}
    /\ MyAsn \in Nat /\ MyId \in Nat \ {0} /\ MyCluster \in Nat /\ MyId \in Hops

ANY == 0           \* NET_ADDR_ANY, the router-id of a neighbour that is not known
ABSENT == -1       \* an originator that is not set
MED_MISSING == 2147483647  \* ROUTE_MED_MISSING, above every MED in use

DefaultPref == 100 \* bgp_options_get_local_pref()

Routes == [next_hop : Hops, local_pref : Nat, path : Seq(Nat), origin : 0 .. 2, med : Nat,
           comms : SUBSET {"no-advertise", "no-export"},
           originator : Int, clusters : Seq(Nat)]

ASSUME NoneAssumption == None \notin Routes

Contains(s, x) == \E i \in 1 .. Len(s) : s[i] = x

Internal(p) == Asn[p] = MyAsn

(* The route a local network is originated with (bgp_router_add_network).    *)
LocalRoute == [next_hop |-> MyId, local_pref |-> DefaultPref, path |-> <<>>, origin |-> 0,
               med |-> 0, comms |-> {}, originator |-> ABSENT, clusters |-> <<>>]

-----------------------------------------------------------------------------
(* Import.                                                                   *)

(* LOCAL-PREF is reset on routes learned over eBGP.                          *)
Imported(p, r) == IF Internal(p) THEN r ELSE [r EXCEPT !.local_pref = DefaultPref]

bgp_peer_route_eligible(p, r) ==
    /\ ~ Contains(r.path, MyAsn)
    /\ r.originator # MyId
    /\ ~ Contains(r.clusters, MyCluster)
    /\ <<p, r.next_hop>> \notin DeniedIn

-----------------------------------------------------------------------------
(* Export of route r, learned from src, to dst; id is the table of the       *)
(* neighbours' router-ids.                                                   *)

NotOriginator(src, dst, id) == src = Local \/ id[dst] # id[src]

(* What the matrix lets through towards an external neighbour.               *)
ExternalAllowed(r, dst) ==
    /\ "no-export" \notin r.comms
    /\ ~ Contains(r.path, Asn[dst])

(* ... and towards an internal one: a route learned over iBGP is reflected   *)
(* or not sent.                                                              *)
Reflected(src, dst) == src # Local /\ Internal(src) /\ Internal(dst)

ReflectionAllowed(r, src, dst, id) ==
    /\ Reflector
    /\ src \in Clients \/ dst \in Clients
    /\ r.originator # ABSENT => r.originator # id[dst]

Redistributed(r, src, dst, id) ==
    /\ NotOriginator(src, dst, id)
    /\ "no-advertise" \notin r.comms
    /\ ~ Internal(dst) => ExternalAllowed(r, dst)
    /\ Reflected(src, dst) => ReflectionAllowed(r, src, dst, id)
    /\ <<dst, r.next_hop>> \notin DeniedOut

(* The attributes the route is announced with.                               *)
Exported(r, src, dst, id) ==
    IF ~ Internal(dst)
    THEN [r EXCEPT !.originator = ABSENT, !.clusters = <<>>, !.med = MED_MISSING,
                   !.next_hop = IF NextHop[dst] # ANY THEN NextHop[dst] ELSE MyId,
                   !.path = <<MyAsn>> \o @]
    ELSE IF Reflected(src, dst)
    THEN [r EXCEPT !.originator = IF @ = ABSENT THEN id[src] ELSE @,
                   !.clusters = Append(@, MyCluster)]
    ELSE IF src = Local
    THEN [r EXCEPT !.originator = IF Reflector THEN MyId ELSE @]
    ELSE [r EXCEPT !.next_hop = IF src \in NextHopSelf THEN MyId
                                ELSE IF NextHop[dst] # ANY THEN NextHop[dst] ELSE @]

(* The return value of _bgp_router_advertise_to_peer together with what it   *)
(* sends: the announcement, or None when the route is not advertised.        *)
advertise_to_peer(r, src, dst, id) ==
    IF Redistributed(r, src, dst, id) THEN Exported(r, src, dst, id) ELSE None
=============================================================================
