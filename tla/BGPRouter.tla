----------------------------- MODULE BGPRouter -----------------------------
(* One BGP router and one prefix: its Adj-RIB-Ins, Loc-RIB, Adj-RIB-Outs and *)
(* its entry in the node's routing table, driven by the messages of its      *)
(* peers, by the user's commands and by changes of the IGP                   *)
(* (src/bgp/as.c, src/bgp/peer.c, src/bgp/dp_rt.c).  Prefixes do not         *)
(* interact: every handler loops over the prefixes it concerns.              *)
(*                                                                           *)
(* Sessions are reduced to what the RIBs see of them, ESTABLISHED or not;    *)
(* module BGPSession has the session itself.                                 *)
EXTENDS RoutePolicy, DPRules

CONSTANTS
    Offers,        \* Offers[p]: the routes neighbour p may announce
    Addr,          \* Addr[p]: the address of neighbour p
    Costs,         \* the IGP costs a next-hop may have
    Operations     \* the optional operations of the scenario, see below

OptionalOperations == {"reopen", "answer", "add_network", "del_network", "clear_rib", "igp"}

ASSUME RouterAssumption ==
    /\ Offers \in [Peers -> SUBSET Routes]
    /\ Addr \in [Peers -> Nat] /\ \A p, q \in Peers : Addr[p] = Addr[q] => p = q
    /\ Costs \subseteq Nat /\ Costs # {}
    /\ Operations \subseteq OptionalOperations

VARIABLES
    up,            \* the neighbours whose session is ESTABLISHED
    been,          \* the neighbours whose session has been ESTABLISHED before
    router_id,     \* router_id[p]: the router-id known of p, or ANY
    rib_in,        \* rib_in[p]: the route of the Adj-RIB-In of p, or None
    best,          \* the neighbours whose Adj-RIB-In route has ROUTE_FLAG_BEST
    loc_rib,       \* the best route and where it was learned, or None
    rib_out,       \* rib_out[p]: the route of the Adj-RIB-Out of p, or None
    rt,            \* the gateway of the BGP entry of the routing table, or None
    local_nets,    \* whether the prefix is in the list of local networks
    igp,           \* igp[h]: the cost of next-hop h, or None if unreachable
    unscanned,     \* whether the IGP has changed since the last decision
    heard,         \* heard[p]: what p announced on the current session, or None
    told           \* told[p]: what p was announced on the current session, or None

ribs == <<rib_in, best, loc_rib, rib_out, rt>>
vars == <<up, been, router_id, ribs, local_nets, igp, unscanned, heard, told>>

Entries == [route : Routes, peer : Peers \cup {Local}]

ASSUME EntriesAssumption == None \notin Entries

(* Types. *)
TypeOK ==
    /\ up \subseteq Peers /\ been \subseteq Peers /\ best \subseteq Peers
    /\ router_id \in [Peers -> Nat]
    /\ rib_in \in [Peers -> Routes \cup {None}]
    /\ loc_rib \in Entries \cup {None}
    /\ rib_out \in [Peers -> Routes \cup {None}]
    /\ rt \in Hops \cup {None}
    /\ local_nets \in BOOLEAN /\ unscanned \in BOOLEAN
    /\ igp \in [Hops -> Costs \cup {None}]
    /\ heard \in [Peers -> Routes \cup {None}]
    /\ told \in [Peers -> Routes \cup {None}]

(* No next-hop is nearer than the router itself.                             *)
Init ==
    /\ up = {} /\ been = {} /\ best = {}
    /\ router_id = [p \in Peers |-> ANY]
    /\ rib_in = [p \in Peers |-> None]
    /\ loc_rib = None
    /\ rib_out = [p \in Peers |-> None]
    /\ rt = None
    /\ local_nets = FALSE /\ unscanned = FALSE
    /\ igp \in {f \in [Hops -> Costs] : \A c \in Costs : f[MyId] <= c}
    /\ heard = [p \in Peers |-> None]
    /\ told = [p \in Peers |-> None]

-----------------------------------------------------------------------------
(* Phase III: dissemination of an entry (or of None) to the peers of S.      *)

Announcement(entry, p, id) ==
    IF entry = None THEN None ELSE advertise_to_peer(entry.route, entry.peer, p, id)

(* A variant that forgets the withdraw of a route that may not be announced. *)
disseminate_no_withdraw(entry, S, id, out, view) ==
    /\ rib_out' = [p \in Peers |-> IF p \in S /\ Announcement(entry, p, id) # None
                                   THEN entry.route ELSE out[p]]
    /\ told' = [p \in Peers |-> IF p \in S /\ Announcement(entry, p, id) # None
                                THEN Announcement(entry, p, id) ELSE view[p]]

(* An announcement replaces the Adj-RIB-Out route; a route that may not be   *)
(* announced, or the lack of one, withdraws what was announced before.       *)
disseminate(entry, S, id, out, view) ==
    /\ rib_out' = [p \in Peers |-> IF p \notin S THEN out[p]
                                   ELSE IF Announcement(entry, p, id) # None THEN entry.route
                                   ELSE None]
    /\ told' = [p \in Peers |-> IF p \notin S THEN view[p]
                                ELSE IF Announcement(entry, p, id) # None
                                     THEN Announcement(entry, p, id)
                                ELSE IF out[p] # None THEN None
                                ELSE view[p]]

-----------------------------------------------------------------------------
(* Phase II: the choice among the feasible routes of the established peers.  *)

Feasible(in, S) == {p \in S : in[p] # None /\ igp[in[p].next_hop] # None}

Candidate(p, r, id) ==
    [peer |-> p, local_pref |-> r.local_pref, length |-> Len(r.path), origin |-> r.origin,
     med |-> r.med, last_as |-> IF r.path = <<>> THEN -1 ELSE Head(r.path),
     ebgp |-> ~ Internal(p), igp_cost |-> igp[r.next_hop],
     id |-> IF r.originator # ABSENT THEN r.originator ELSE id[p],
     clusters |-> Len(r.clusters), addr |-> Addr[p]]

Selected(in, S, id) == decision_process_run({Candidate(p, in[p], id) : p \in Feasible(in, S)})

(* The Loc-RIB has a local route (ROUTE_FLAG_INTERNAL), or a learned one.    *)
Originated == loc_rib # None /\ loc_rib.peer = Local
Learned    == loc_rib # None /\ loc_rib.peer # Local

(* bgp_router_best_flag_off, for the previous best route.                    *)
BestFlagOff(flags) == IF loc_rib = None THEN flags ELSE flags \ {loc_rib.peer}

(* bgp_router_decision_process_no_best_route, with and without a previous    *)
(* best route to remove and withdraw.                                        *)
no_best_route(flags, S, id, out, view) ==
    \/ /\ loc_rib = None
       /\ best' = flags /\ rib_out' = out /\ told' = view
       /\ UNCHANGED <<loc_rib, rt>>
    \/ /\ Learned
       /\ best' = BestFlagOff(flags) /\ loc_rib' = None /\ rt' = None
       /\ disseminate(None, S, id, out, view)

(* bgp_router_decision_process_unchanged: nothing is sent.                   *)
unchanged_best_route(entry, flags, out, view) ==
    /\ best' = flags \cup {entry.peer} /\ rt' = entry.route.next_hop
    /\ rib_out' = out /\ told' = view
    /\ UNCHANGED loc_rib

(* bgp_router_decision_process_update; below, with the entry of the routing  *)
(* table or the BEST flag forgotten.                                         *)
update_keeps_gateway(entry, flags, S, id, out, view) ==
    /\ best' = BestFlagOff(flags) \cup {entry.peer}
    /\ loc_rib' = entry /\ rt' = IF rt = None THEN entry.route.next_hop ELSE rt
    /\ disseminate(entry, S, id, out, view)

update_without_flag(entry, flags, S, id, out, view) ==
    /\ best' = BestFlagOff(flags)
    /\ loc_rib' = entry /\ rt' = entry.route.next_hop
    /\ disseminate(entry, S, id, out, view)

update_best_route(entry, flags, S, id, out, view) ==
    /\ best' = BestFlagOff(flags) \cup {entry.peer}
    /\ loc_rib' = entry /\ rt' = entry.route.next_hop
    /\ disseminate(entry, S, id, out, view)

(* bgp_router_decision_process.  The handler that calls it has updated the   *)
(* Adj-RIB-Ins, BEST flags, established peers, router-ids and Adj-RIB-Outs   *)
(* to the values given; flags of the feasible routes are recomputed.  A      *)
(* local route can not be overridden; a new best route with the attributes   *)
(* of the old one (route_equals) is unchanged.                               *)
decision_process(in, flags, S, id, out, view) ==
    LET chosen == Selected(in, S, id)
        winner == (CHOOSE c \in chosen : TRUE).peer
        entry  == [route |-> in[winner], peer |-> winner]
        others == flags \ Feasible(in, S)
        same   == Learned /\ loc_rib.route = entry.route
    IN  /\ rib_in' = in
        /\ unscanned' = FALSE
        /\ \/ /\ Originated
              /\ best' = flags /\ rib_out' = out /\ told' = view
              /\ UNCHANGED <<loc_rib, rt>>
           \/ /\ ~ Originated /\ chosen = {}
              /\ no_best_route(others, S, id, out, view)
           \/ /\ chosen # {} /\ same
              /\ unchanged_best_route(entry, others, out, view)
           \/ /\ ~ Originated /\ chosen # {} /\ ~ same
              /\ update_best_route(entry, others, S, id, out, view)

NoDecision(in, flags, out, view) ==
    /\ rib_in' = in /\ best' = flags /\ rib_out' = out /\ told' = view
    /\ UNCHANGED <<loc_rib, rt, unscanned>>

(* rerun and rescan look up the prefix in the Adj-RIB-Ins and the Loc-RIB.   *)
Known == loc_rib # None \/ \E p \in Peers : rib_in[p] # None

-----------------------------------------------------------------------------
(* Messages of the peers.                                                    *)

(* A variant of the next action that only runs the decision process for an   *)
(* eligible route, and not for one that replaces the best route.             *)
process_update_eligible_only(p, offer) ==
    LET route    == Imported(p, offer)
        eligible == bgp_peer_route_eligible(p, route)
        in       == [rib_in EXCEPT ![p] = IF eligible THEN route ELSE None]
    IN  /\ p \in up
        /\ heard' = [heard EXCEPT ![p] = IF eligible THEN route ELSE None]
        /\ IF eligible
           THEN decision_process(in, best \ {p}, up, router_id, rib_out, told)
           ELSE NoDecision(in, best \ {p}, rib_out, told)
        /\ UNCHANGED <<up, been, router_id, local_nets, igp>>

(* An UPDATE: _bgp_peer_process_update.                                      *)
process_update(p, offer) ==
    LET route    == Imported(p, offer)
        eligible == bgp_peer_route_eligible(p, route)
        in       == [rib_in EXCEPT ![p] = IF eligible THEN route ELSE None]
    IN  /\ p \in up
        /\ heard' = [heard EXCEPT ![p] = IF eligible THEN route ELSE None]
        /\ IF eligible \/ p \in best
           THEN decision_process(in, best \ {p}, up, router_id, rib_out, told)
           ELSE NoDecision(in, best \ {p}, rib_out, told)
        /\ UNCHANGED <<up, been, router_id, local_nets, igp>>

(* A WITHDRAW: _bgp_peer_process_withdraw.  The decision process runs while  *)
(* the route is flagged un-eligible, then the route is removed.              *)
process_withdraw(p) ==
    /\ p \in up /\ rib_in[p] # None
    /\ heard' = [heard EXCEPT ![p] = None]
    /\ decision_process([rib_in EXCEPT ![p] = None], best \ {p}, up, router_id, rib_out, told)
    /\ UNCHANGED <<up, been, router_id, local_nets, igp>>

(* The session becomes ESTABLISHED: the OPEN answers ours, which gives us    *)
(* the neighbour's router-id, or we answer it, which does not                *)
(* (_bgp_peer_session_open_rcvd).  The Loc-RIB is sent to the peer.          *)
session_established(p, answer) ==
    /\ p \notin up
    /\ p \in been => "reopen" \in Operations
    /\ answer => "answer" \in Operations
    /\ up' = up \cup {p} /\ been' = been \cup {p}
    /\ router_id' = [router_id EXCEPT ![p] = IF answer THEN ANY ELSE RouterId[p]]
    /\ IF loc_rib = None THEN UNCHANGED <<rib_out, told>>
       ELSE disseminate(loc_rib, {p}, router_id', rib_out, told)
    /\ UNCHANGED <<rib_in, best, loc_rib, rt, local_nets, igp, unscanned, heard>>

(* The session leaves ESTABLISHED, on a CLOSE or by a command                *)
(* (_bgp_peer_session_close_rcvd, bgp_peer_close_session): the decision      *)
(* process runs if the peer's route is the best one, then the Adj-RIB-Out    *)
(* is cleared (_bgp_peer_rescan_adjribin).                                   *)
session_closed(p) ==
    LET id   == [router_id EXCEPT ![p] = ANY]
        out  == [rib_out EXCEPT ![p] = None]
        view == [told EXCEPT ![p] = None]
    IN  /\ p \in up
        /\ up' = up \ {p}
        /\ router_id' = id
        /\ heard' = [heard EXCEPT ![p] = None]
        /\ IF rib_in[p] # None /\ p \in best
           THEN decision_process(rib_in, best, up', id, out, view)
           ELSE NoDecision(rib_in, best, out, view)
        /\ UNCHANGED <<been, local_nets, igp>>

-----------------------------------------------------------------------------
(* Commands.                                                                 *)

add_network ==
    /\ "add_network" \in Operations
    /\ ~ local_nets
    /\ local_nets' = TRUE
    /\ loc_rib' = [route |-> LocalRoute, peer |-> Local]
    /\ disseminate(loc_rib', up, router_id, rib_out, told)
    /\ UNCHANGED <<up, been, router_id, rib_in, best, rt, igp, unscanned, heard>>

del_network ==
    /\ "del_network" \in Operations
    /\ local_nets
    /\ local_nets' = FALSE
    /\ loc_rib' = None
    /\ disseminate(None, up, router_id, rib_out, told)
    /\ UNCHANGED <<up, been, router_id, rib_in, best, rt, igp, unscanned, heard>>

(* bgp clear-rib and bgp clear-adj-rib: no message is sent, and the decision *)
(* process does not run.                                                     *)
clear_rib(loc) ==
    /\ "clear_rib" \in Operations
    /\ rib_in' = [p \in Peers |-> None] /\ rib_out' = [p \in Peers |-> None]
    /\ best' = {}
    /\ loc_rib' = IF loc THEN None ELSE loc_rib
    /\ UNCHANGED <<up, been, router_id, rt, local_nets, igp, unscanned, heard, told>>

(* The IGP changes the cost or the reachability of a next-hop ...            *)
igp_change(h, c) ==
    /\ "igp" \in Operations
    /\ c # igp[h]
    /\ igp' = [igp EXCEPT ![h] = c]
    /\ unscanned' = TRUE
    /\ UNCHANGED <<up, been, router_id, ribs, local_nets, heard, told>>

(* ... and the user rescans: bgp_router_scan_rib, bgp_router_rerun.  The     *)
(* sessions that scan_rib refreshes first are session_closed steps before    *)
(* this one; every known prefix is then submitted to the decision process.   *)
scan_rib ==
    /\ Known
    /\ decision_process(rib_in, best, up, router_id, rib_out, told)
    /\ UNCHANGED <<up, been, router_id, local_nets, igp, heard>>

(* bgp_router_peer_readv_prefix: announce the Loc-RIB again to one peer.     *)
peer_readv_prefix(p) ==
    /\ p \in up /\ loc_rib # None
    /\ disseminate(loc_rib, {p}, router_id, rib_out, told)
    /\ UNCHANGED <<up, been, router_id, rib_in, best, loc_rib, rt, local_nets, igp, unscanned, heard>>

-----------------------------------------------------------------------------

PeerStep ==
    \E p \in Peers :
        \/ \E offer \in Offers[p] : process_update(p, offer)
        \/ process_withdraw(p)
        \/ \E answer \in BOOLEAN : session_established(p, answer)
        \/ session_closed(p)
        \/ peer_readv_prefix(p)

RouterStep ==
    \/ add_network
    \/ del_network
    \/ \E loc \in BOOLEAN : clear_rib(loc)
    \/ scan_rib

IgpStep == \E h \in Hops \ {MyId} : \E c \in Costs \cup {None} : igp_change(h, c)

Next == PeerStep \/ RouterStep \/ IgpStep

Spec == Init /\ [][Next]_vars

-----------------------------------------------------------------------------
(* Properties.                                                               *)

(* The routing table has the learned route of the Loc-RIB, with its current  *)
(* next-hop, whatever mixture of commands and messages led here.  It makes   *)
(* the assert() of bgp_router_rt_del_route, which removes the entry when the *)
(* last route is lost, always succeed.                                       *)
RtFollowsLocRib == Learned => rt = loc_rib.route.next_hop

(* The precondition of bgp_router_best_flag_off and the premise of           *)
(* _bgp_peer_disable_adjribin: the learned route of the Loc-RIB is in the    *)
(* Adj-RIB-In of an ESTABLISHED peer, unchanged, and flagged BEST there.  A  *)
(* missing flag would make the loss of that session go unnoticed.            *)
LocRibBacked == Learned => /\ loc_rib.peer \in up
                           /\ rib_in[loc_rib.peer] = loc_rib.route
                           /\ loc_rib.peer \in best

(* The Loc-RIB has what the decision process would choose now, although the  *)
(* program only runs it when it believes the outcome may change (a new       *)
(* eligible route, the loss of the best route, a rescan after an IGP         *)
(* change): skipping it must never leave a worse or a vanished route.        *)
LocRibIsBest ==
    LET chosen == Selected(rib_in, up, router_id)
        winner == (CHOOSE c \in chosen : TRUE).peer
    IN  ~ unscanned =>
            loc_rib = IF local_nets THEN [route |-> LocalRoute, peer |-> Local]
                      ELSE IF chosen = {} THEN None
                      ELSE [route |-> rib_in[winner], peer |-> winner]

(* Every ESTABLISHED peer has last been sent what the redistribution rules   *)
(* give for the current Loc-RIB, or a withdraw (or nothing) if they give     *)
(* nothing, and the Adj-RIB-Out knows whether there is something to          *)
(* withdraw: no peer is left with a route the router has abandoned.          *)
PeersToldBest ==
    \A p \in up : /\ told[p] = Announcement(loc_rib, p, router_id)
                  /\ rib_out[p] # None <=> told[p] # None

(* "Closing the BGP session includes ... withdrawing the routes learned      *)
(* through this peer and clearing the peer's Adj-RIB-in" (src/bgp/peer.c:354) *)
(* so the best route is one its peer has announced on the current session.   *)
NoStaleRoute == Learned => heard[loc_rib.peer] = loc_rib.route

(* "both routes (old and new) are equal from the BGP point of view. There is *)
(* thus no need to send BGP messages." (src/bgp/as.c:1469): a client that    *)
(* announces no route itself has been sent the reflector's best route, as    *)
(* long as the route may be advertised and is not the client's own.          *)
ClientsReached ==
    (Learned /\ Reflector) =>
        \A p \in up \cap Clients :
            (/\ heard[p] = None /\ loc_rib.route.originator # RouterId[p]
             /\ "no-advertise" \notin loc_rib.route.comms
             /\ <<p, loc_rib.route.next_hop>> \notin DeniedOut) => told[p] # None
=============================================================================
