----------------------------- MODULE BGPScript ------------------------------
(***************************************************************************)
(* BGPSession driven the way the manual asks for (doc/txt,                 *)
(* net_link_down.txt and bgp_domain_rescan.txt): a script closes or resets *)
(* a session, adds a network or changes the topology only when sim run has *)
(* handled all events, and it computes the routes and rescans all routers  *)
(* after each change of topology, before anything else.  It may start one  *)
(* end of a peering and leave the other down.  Directions holds the sets   *)
(* of ends whose routing one change of topology can affect.                *)
(***************************************************************************)
EXTENDS BGPSession

CONSTANT Directions

ASSUME DirectionsAssumption == Directions \subseteq SUBSET Ends

VARIABLES
  unscanned,   \* ends not rescanned since the last topology change
  oneway       \* history: has one direction ever changed without the other?

scriptVars == <<vars, unscanned, oneway>>

ScriptInit == Init /\ unscanned = {} /\ oneway = FALSE

(* up is also issued while the OPEN of the other end is in flight.         *)
ScriptCommand(p) ==
  /\ unscanned = {}
  /\ \/ OpenSession(p)
     \/ /\ Drained
        /\ \/ CloseSession(p)
           \/ ResetSession(p)
           \/ \E burst \in Bursts(p) : Disseminate(p, burst)
  /\ UNCHANGED <<unscanned, oneway>>

(* net link X Y down / up and net domain compute, or net node X route add  *)
(* / del: the ends in P get, or lose, their route.                         *)
ScriptTopology(P, r) ==
  /\ "route" \in Faults /\ Running
  /\ Drained /\ unscanned \in {{}, Ends}
  /\ route' = [p \in Ends |-> IF p \in P THEN r ELSE route[p]]
  /\ route' # route
  /\ unscanned' = Ends
  /\ oneway' = (oneway \/ P # Ends)
  /\ SessionUnchanged /\ UNCHANGED <<queue, broken>>

(* bgp_peer_session_refresh finds nothing to do.                           *)
Stays(p) ==
  \/ session_state[p] = "IDLE"
  \/ session_state[p] = "ACTIVE" /\ ~session_ok(p)
  \/ session_state[p] \in {"OPENWAIT", "ESTABLISHED"} /\ session_ok(p)

(* bgp domain rescan: bgp router X rescan for each router in turn.         *)
Rescan(p) ==
  /\ p \in unscanned
  /\ \/ RefreshSession(p)
     \/ Stays(p) /\ UNCHANGED vars
  /\ unscanned' = unscanned \ {p}
  /\ UNCHANGED oneway

ScriptSimStep ==
  /\ unscanned = {}
  /\ SimStep
  /\ UNCHANGED <<unscanned, oneway>>

ScriptNext ==
  \/ \E p \in Ends : ScriptCommand(p) \/ Rescan(p)
  \/ \E P \in Directions, r \in Paths \union {NoRoute} : ScriptTopology(P, r)
  \/ ScriptSimStep

ScriptSpec ==
  ScriptInit /\ [][ScriptNext]_scriptVars /\ WF_scriptVars(ScriptSimStep)

-----------------------------------------------------------------------------
(* Properties.                                                             *)

Settled == Drained /\ unscanned = {}

(* The only abort() a documented script meets is that of an OPEN that      *)
(* reaches an end left administratively down while the other end of the    *)
(* peering was started (peer.c:455; doc/txt/bgp_router_peer_up.txt has the *)
(* other end wait instead).  When both directions fail and recover         *)
(* together, no message is out of sequence either, and sim run never stops *)
(* with an error.                                                          *)
RunsThrough ==
  /\ faults \cap Aborts \subseteq {"open_in_idle"}
  /\ ~oneway => faults \subseteq {"open_in_idle"}
  /\ "open_in_idle" \in faults =>
       \E p \in Ends : session_state[p] = "IDLE" /\ session_state[Other[p]] # "IDLE"

(* When both directions fail and recover together, the sessions follow the *)
(* topology: once everything is rescanned and handled, two ends that are   *)
(* administratively up are ESTABLISHED exactly if they reach each other,   *)
(* and ACTIVE otherwise (doc/txt/bgp_router_show_peers.txt:26-31).         *)
SessionsFollowTopology ==
  Settled /\ ~oneway =>
    \A p \in Ends :
      session_state[p] # "IDLE" /\ session_state[Other[p]] # "IDLE" =>
        session_state[p] = IF session_ok(p) THEN "ESTABLISHED" ELSE "ACTIVE"
=============================================================================
