----------------------------- MODULE BGPSession -----------------------------
(***************************************************************************)
(* The BGP sessions of C-BGP (src/bgp/peer.c): the four-state session      *)
(* automaton kept by each end of a peering, the "TCP" sequence numbers     *)
(* that number the messages of a session, and the queue of the simulator   *)
(* through which the messages travel.                                      *)
(*                                                                         *)
(* An end is one bgp_peer_t structure; Other maps it to the structure of   *)
(* the remote router that describes the same peering.  The messages from   *)
(* an end to the other one are delivered in order along one path, but two  *)
(* paths of different lengths are not synchronised, hence one queue per    *)
(* end and path.  What an end has to say about routes is an opaque body:   *)
(* the RIBs decide on it, the session only carries it.                     *)
(***************************************************************************)
EXTENDS Naturals, Sequences, FiniteSets

CONSTANTS
  Ends,        \* the bgp_peer_t structures of non-virtual peers
  Other,       \* the end at the other side of the peering
  Paths,       \* the paths that can join the two ends of a peering
  NoRoute,     \* no routing entry towards the other end
  Adverts,     \* what an end may say about routes, see AdvertsAssumption
  NoBody,      \* body of the OPEN and CLOSE messages
  Faults,      \* the disturbances of this instance, a subset of FaultKinds
  MaxOpens,    \* bound: sessions a user opens per end
  MaxSeq,      \* bound: numbers used by one session of an end
  MaxQueue,    \* bound: messages in flight when a user issues a command
  MaxBurst,    \* bound: messages sent by one run of the dissemination
  MaxBroken    \* bound: paths that are broken at the same time

FaultKinds == {"route", "link", "clear"}

ASSUME EndsAssumption ==
  /\ Other \in [Ends -> Ends]
  /\ \A p \in Ends : Other[p] # p /\ Other[Other[p]] = p

RouteTypes == {"UPDATE", "WITHDRAW"}
Types == {"OPEN", "CLOSE"} \union RouteTypes

(* An advert is the content of an UPDATE or WITHDRAW, not yet numbered.    *)
ASSUME AdvertsAssumption ==
  \A a \in Adverts : a.type \in RouteTypes

ASSUME PathsAssumption == NoRoute \notin Paths /\ Paths # {}

ASSUME BoundsAssumption ==
  /\ Faults \subseteq FaultKinds
  /\ MaxOpens \in Nat /\ MaxSeq \in Nat /\ MaxQueue \in Nat /\ MaxBurst \in Nat
  /\ MaxBroken \in Nat

VARIABLES
  session_state,  \* [Ends -> States]
  send_seq_num,   \* number of the next message this end sends
  recv_seq_num,   \* number of the next message this end expects
  router_id,      \* is the identifier of the remote router known?
  queue,          \* queue[p][v]: messages from p to Other[p] along v
  route,          \* the path p's routing table selects, or NoRoute
  broken,         \* the paths of p that have a disabled link
  incarnation,    \* history: sessions this end has started to number
  accepted,       \* history: incarnation of the OPEN this end accepted
  faults          \* what the simulation ran into, a subset of Outcomes

vars == <<session_state, send_seq_num, recv_seq_num, router_id, queue, route,
          broken, incarnation, accepted, faults>>

States == {"IDLE", "OPENWAIT", "ESTABLISHED", "ACTIVE"}

(* An out-of-sequence message stops the run with an error; abort() ends    *)
(* the program, and records in which handler and state it was called.      *)
Aborts == {"open_in_idle", "open_in_established", "route_in_idle",
           "route_in_active"}
Outcomes == {"out_of_seq"} \union Aborts

Messages == [type : Types, seq_num : Nat, inc : Nat,
             body : {a.body : a \in Adverts} \union {NoBody}]

(* The adverts of one dissemination; the longer ones would exceed MaxSeq.  *)
Bursts(p) ==
  UNION {[1..n -> Adverts] :
           n \in {k \in 0..MaxBurst : k = 0 \/ send_seq_num[p] + k <= MaxSeq}}

-----------------------------------------------------------------------------
(* The network below the session.                                          *)

(* node_send queues the message on the path the routing table selects; a   *)
(* disabled link loses it and still reports success.                       *)
Reaches(p) == route[p] # NoRoute /\ route[p] \notin broken[p]

(* icmp_ping_send_recv: the echo request and its reply both arrive.        *)
session_ok(p) == Reaches(p) /\ Reaches(Other[p])

Queued(p, msgs) ==
  IF Reaches(p) THEN [queue EXCEPT ![p][route[p]] = @ \o msgs] ELSE queue

Control(type, n, i) == [type |-> type, seq_num |-> n, inc |-> i, body |-> NoBody]

(* Messages numbered by _bgp_peer_send from n on.                          *)
Numbered(burst, n, i) ==
  [k \in 1..Len(burst) |-> [type |-> burst[k].type, seq_num |-> n + (k - 1),
                            inc |-> i, body |-> burst[k].body]]

InFlight(p) == \E v \in Paths : queue[p][v] # <<>>
Drained == \A p \in Ends : ~InFlight(p)
Running == faults \cap Aborts = {}

Init ==
  /\ session_state = [p \in Ends |-> "IDLE"]
  /\ send_seq_num = [p \in Ends |-> 0]
  /\ recv_seq_num = [p \in Ends |-> 0]
  /\ router_id = [p \in Ends |-> FALSE]
  /\ queue = [p \in Ends |-> [v \in Paths |-> <<>>]]
  /\ route \in [Ends -> Paths]
  /\ broken = [p \in Ends |-> {}]
  /\ incarnation = [p \in Ends |-> 0]
  /\ accepted = [p \in Ends |-> 0]
  /\ faults = {}

-----------------------------------------------------------------------------
(* The commands of the user.                                               *)

(* The fields of p's bgp_peer_t that an operation assigns.                 *)
Become(p, state, snd, rcv, id, acc) ==
  /\ session_state' = [session_state EXCEPT ![p] = state]
  /\ send_seq_num' = [send_seq_num EXCEPT ![p] = snd]
  /\ recv_seq_num' = [recv_seq_num EXCEPT ![p] = rcv]
  /\ router_id' = [router_id EXCEPT ![p] = id]
  /\ accepted' = [accepted EXCEPT ![p] = acc]

Room(p) == \A v \in Paths : Len(queue[p][v]) < MaxQueue
MayCommand(p) == Running /\ Room(p) /\ incarnation[p] < MaxOpens

StartNumbering(p) == incarnation' = [incarnation EXCEPT ![p] = @ + 1]

OpenMsg(p, n) == Control("OPEN", n, incarnation[p] + 1)

(* bgp_peer_close_session tells the other end only if it had opened.       *)
CloseMsgs(p) ==
  IF session_state[p] \in {"OPENWAIT", "ESTABLISHED"}
    THEN <<Control("CLOSE", send_seq_num[p], incarnation[p])>>
    ELSE <<>>

(* Variants of OpenAfter: the OPEN takes the next number of the session    *)
(* before, or a failure to send the OPEN goes unnoticed.                   *)
OpenAfterNoReset(p, msgs) ==
  IF route[p] # NoRoute
    THEN /\ Become(p, "OPENWAIT", send_seq_num[p] + 1, 0, FALSE, 0)
         /\ StartNumbering(p)
         /\ queue' = Queued(p, msgs \o <<OpenMsg(p, send_seq_num[p])>>)
    ELSE /\ Become(p, "ACTIVE", 0, 0, FALSE, 0)
         /\ UNCHANGED <<incarnation, queue>>

OpenAfterNoError(p, msgs) ==
  /\ Become(p, "OPENWAIT", 1, 0, FALSE, 0)
  /\ StartNumbering(p)
  /\ queue' = Queued(p, msgs \o <<OpenMsg(p, 0)>>)

(* The end of bgp_peer_open_session for a session that sends msgs and then *)
(* its OPEN: without a route the OPEN fails and the end becomes ACTIVE.    *)
OpenAfter(p, msgs) ==
  IF route[p] # NoRoute
    THEN /\ Become(p, "OPENWAIT", 1, 0, FALSE, 0)
         /\ StartNumbering(p)
         /\ queue' = Queued(p, msgs \o <<OpenMsg(p, 0)>>)
    ELSE /\ Become(p, "ACTIVE", 0, 0, FALSE, 0)
         /\ UNCHANGED <<incarnation, queue>>

(* bgp router X peer Y up *)
OpenSession(p) ==
  /\ MayCommand(p)
  /\ session_state[p] \in {"IDLE", "ACTIVE"}
  /\ OpenAfter(p, <<>>)
  /\ UNCHANGED <<route, broken, faults>>

(* bgp router X peer Y down *)
CloseSession(p) ==
  /\ MayCommand(p)
  /\ session_state[p] # "IDLE"
  /\ Become(p, "IDLE", 0, 0, FALSE, 0)
  /\ queue' = Queued(p, CloseMsgs(p))
  /\ UNCHANGED <<route, broken, incarnation, faults>>

(* bgp router X peer Y reset: down, then up. *)
ResetSession(p) ==
  /\ MayCommand(p)
  /\ session_state[p] # "IDLE"
  /\ OpenAfter(p, CloseMsgs(p))
  /\ UNCHANGED <<route, broken, faults>>

(* bgp router X rescan: the state of the session follows reachability.     *)
RefreshSession(p) ==
  /\ MayCommand(p)
  /\ \/ /\ session_state[p] \in {"OPENWAIT", "ESTABLISHED"}
        /\ ~session_ok(p)
        /\ Become(p, "ACTIVE", 0, 0, FALSE, 0)
        /\ queue' = Queued(p, CloseMsgs(p))
        /\ UNCHANGED incarnation
     \/ /\ session_state[p] = "ACTIVE"
        /\ session_ok(p)
        /\ OpenAfter(p, <<>>)
  /\ UNCHANGED <<route, broken, faults>>

(* The RIBs of p have something to say to an ESTABLISHED peer.             *)
Disseminate(p, burst) ==
  /\ Running /\ Room(p)
  /\ session_state[p] = "ESTABLISHED"
  /\ burst # <<>>
  /\ send_seq_num' = [send_seq_num EXCEPT ![p] = @ + Len(burst)]
  /\ queue' = Queued(p, Numbered(burst, send_seq_num[p], incarnation[p]))
  /\ UNCHANGED <<session_state, recv_seq_num, router_id, route, broken,
                 incarnation, accepted, faults>>

-----------------------------------------------------------------------------
(* One event of sim run: p handles the first message of a path.            *)

Pending(p, v) == queue[Other[p]][v]

(* The check of _bgp_peer_seqnum_check; first without it, and with gaps    *)
(* accepted.                                                               *)
NotChecked(p, m) == TRUE
NotBefore(p, m) == m.type = "CLOSE" \/ m.seq_num >= recv_seq_num[p]
Expected(p, m) == m.type = "CLOSE" \/ m.seq_num = recv_seq_num[p]

(* The message leaves its queue and the answers enter p's.                 *)
Exchange(p, v, msgs) ==
  queue' = [Queued(p, msgs) EXCEPT ![Other[p]][v] = Tail(@)]

Arrives(p, v, types) ==
  /\ Running
  /\ Pending(p, v) # <<>>
  /\ Head(Pending(p, v)).type \in types

Abort(kind) ==
  /\ faults' = faults \union {kind}
  /\ UNCHANGED <<session_state, send_seq_num, recv_seq_num, router_id, queue,
                 route, broken, incarnation, accepted>>

(* A variant of the next action that leaves the message in its queue.      *)
ReceiveOutOfSeqKept(p, v) ==
  /\ Arrives(p, v, Types)
  /\ ~Expected(p, Head(Pending(p, v)))
  /\ faults' = faults \union {"out_of_seq"}
  /\ UNCHANGED <<session_state, send_seq_num, recv_seq_num, router_id, queue,
                 route, broken, incarnation, accepted>>

(* _bgp_peer_seqnum_check fails: the message is dropped, the run stops.    *)
ReceiveOutOfSeq(p, v) ==
  /\ Arrives(p, v, Types)
  /\ ~Expected(p, Head(Pending(p, v)))
  /\ Exchange(p, v, <<>>)
  /\ faults' = faults \union {"out_of_seq"}
  /\ UNCHANGED <<session_state, send_seq_num, recv_seq_num, router_id, route,
                 broken, incarnation, accepted>>

ReceiveOpen(p, v, burst) ==
  LET m == Head(Pending(p, v))
      n == send_seq_num[p]
  IN /\ Arrives(p, v, {"OPEN"})
     /\ Expected(p, m)
     /\ \/ /\ session_state[p] = "ACTIVE"
           /\ Become(p, "ESTABLISHED", n + 1 + Len(burst), recv_seq_num[p] + 1,
                     router_id[p], m.inc)
           /\ StartNumbering(p)
           /\ Exchange(p, v, <<OpenMsg(p, n)>>
                               \o Numbered(burst, n + 1, incarnation[p] + 1))
           /\ UNCHANGED <<route, broken, faults>>
        \/ /\ session_state[p] = "OPENWAIT"
           /\ Become(p, "ESTABLISHED", n + Len(burst), recv_seq_num[p] + 1,
                     TRUE, m.inc)
           /\ Exchange(p, v, Numbered(burst, n, incarnation[p]))
           /\ UNCHANGED <<route, broken, incarnation, faults>>
        \/ session_state[p] = "IDLE" /\ Abort("open_in_idle")
        \/ session_state[p] = "ESTABLISHED" /\ Abort("open_in_established")

(* Variants of ReceiveClose: the numbers are not reset, the CLOSE is       *)
(* ignored, or a CLOSE that changes nothing takes its number back.         *)
ReceiveCloseNoReset(p, v) ==
  /\ Arrives(p, v, {"CLOSE"})
  /\ Become(p, IF session_state[p] = "IDLE" THEN "IDLE" ELSE "ACTIVE",
            send_seq_num[p], recv_seq_num[p], FALSE, 0)
  /\ Exchange(p, v, <<>>)
  /\ UNCHANGED <<route, broken, incarnation, faults>>

ReceiveCloseIgnored(p, v) ==
  /\ Arrives(p, v, {"CLOSE"})
  /\ Exchange(p, v, <<>>)
  /\ UNCHANGED <<session_state, send_seq_num, recv_seq_num, router_id, route,
                 broken, incarnation, accepted, faults>>

ReceiveClose(p, v) ==
  /\ Arrives(p, v, {"CLOSE"})
  /\ Expected(p, Head(Pending(p, v)))
  /\ IF session_state[p] \in {"OPENWAIT", "ESTABLISHED"}
       THEN Become(p, "ACTIVE", 0, 0, FALSE, 0)
       ELSE Become(p, session_state[p], send_seq_num[p], recv_seq_num[p] + 1,
                   router_id[p], accepted[p])
  /\ Exchange(p, v, <<>>)
  /\ UNCHANGED <<route, broken, incarnation, faults>>

(* UPDATE and WITHDRAW treat the session alike.                            *)
ReceiveRoute(p, v, burst) ==
  LET n == send_seq_num[p]
  IN /\ Arrives(p, v, RouteTypes)
     /\ Expected(p, Head(Pending(p, v)))
     /\ \/ /\ session_state[p] \in {"OPENWAIT", "ESTABLISHED"}
           /\ Become(p, "ESTABLISHED", n + Len(burst), recv_seq_num[p] + 1,
                     router_id[p], accepted[p])
           /\ Exchange(p, v, Numbered(burst, n, incarnation[p]))
           /\ UNCHANGED <<route, broken, incarnation, faults>>
        \/ session_state[p] = "IDLE" /\ Abort("route_in_idle")
        \/ session_state[p] = "ACTIVE" /\ Abort("route_in_active")

-----------------------------------------------------------------------------
(* What happens to the network below the sessions.                         *)

SessionUnchanged ==
  UNCHANGED <<session_state, send_seq_num, recv_seq_num, router_id,
              incarnation, accepted, faults>>

(* p's routing table selects another path, or none.                        *)
ChangeRoute(p, r) ==
  /\ "route" \in Faults /\ Running
  /\ r # route[p]
  /\ route' = [route EXCEPT ![p] = r]
  /\ SessionUnchanged /\ UNCHANGED <<queue, broken>>

BrokenPaths == {pv \in Ends \X Paths : pv[2] \in broken[pv[1]]}

(* net link X Y down / up: one direction of one link.                      *)
ChangeLink(p, v) ==
  /\ "link" \in Faults /\ Running
  /\ v \in broken[p] \/ Cardinality(BrokenPaths) < MaxBroken
  /\ broken' = [broken EXCEPT ![p] = IF v \in @ THEN @ \ {v} ELSE @ \union {v}]
  /\ SessionUnchanged /\ UNCHANGED <<queue, route>>

(* A router in the middle of a path drops what it cannot forward.          *)
LoseMessage(p, v) ==
  /\ v \in broken[p] /\ Running
  /\ queue[p][v] # <<>>
  /\ queue' = [queue EXCEPT ![p][v] = Tail(@)]
  /\ SessionUnchanged /\ UNCHANGED <<route, broken>>

(* sim clear *)
ClearQueue ==
  /\ "clear" \in Faults /\ Running
  /\ ~Drained
  /\ queue' = [p \in Ends |-> [v \in Paths |-> <<>>]]
  /\ SessionUnchanged /\ UNCHANGED <<route, broken>>

-----------------------------------------------------------------------------
Command(p) ==
  \/ OpenSession(p)
  \/ CloseSession(p)
  \/ ResetSession(p)
  \/ RefreshSession(p)
  \/ \E burst \in Bursts(p) : Disseminate(p, burst)

HandleMessage(p, v) ==
  \/ ReceiveOutOfSeq(p, v)
  \/ \E burst \in Bursts(p) : ReceiveOpen(p, v, burst)
  \/ ReceiveClose(p, v)
  \/ \E burst \in Bursts(p) : ReceiveRoute(p, v, burst)

NetworkStep(p) ==
  \/ \E r \in Paths \union {NoRoute} : ChangeRoute(p, r)
  \/ \E v \in Paths : ChangeLink(p, v) \/ LoseMessage(p, v)

Next ==
  \/ \E p \in Ends : Command(p) \/ NetworkStep(p)
  \/ \E p \in Ends, v \in Paths : HandleMessage(p, v)
  \/ ClearQueue

(* sim run handles events as long as there are some; nothing obliges the   *)
(* user to issue a command.                                                *)
SimStep == \E p \in Ends, v \in Paths : HandleMessage(p, v)

Spec == Init /\ [][Next]_vars /\ WF_vars(SimStep)

-----------------------------------------------------------------------------
(* Properties.                                                             *)

(* Every variable has its type.                                            *)
TypeOK ==
  /\ session_state \in [Ends -> States]
  /\ send_seq_num \in [Ends -> Nat]
  /\ recv_seq_num \in [Ends -> Nat]
  /\ router_id \in [Ends -> BOOLEAN]
  /\ queue \in [Ends -> [Paths -> Seq(Messages)]]
  /\ route \in [Ends -> Paths \union {NoRoute}]
  /\ broken \in [Ends -> SUBSET Paths]
  /\ incarnation \in [Ends -> Nat]
  /\ accepted \in [Ends -> Nat]
  /\ faults \subseteq Outcomes

OpenIsZero(msgs) ==
  \A k \in 1..Len(msgs) : msgs[k].type = "OPEN" <=> msgs[k].seq_num = 0

(* OPEN messages, and only they, carry number 0 (_bgp_peer_send numbers    *)
(* the messages of a session from its OPEN on), whatever is lost, delayed  *)
(* or overtaken.                                                           *)
ZeroIsOpen == \A p \in Ends, v \in Paths : OpenIsZero(queue[p][v])

(* The numbers agree with the state: an end that has not opened has sent   *)
(* nothing, one that waits has sent and received nothing but its OPEN, an  *)
(* established one has numbered its OPEN and accepted the other's.         *)
NumbersFollowState ==
  \A p \in Ends :
    /\ send_seq_num[p] = 0 <=> session_state[p] \in {"IDLE", "ACTIVE"}
    /\ session_state[p] = "OPENWAIT" => recv_seq_num[p] = 0
    /\ session_state[p] = "ESTABLISHED" => recv_seq_num[p] > 0

(* A message that the handler of an UPDATE or WITHDRAW would act upon.     *)
RouteAccepted(p, v) ==
  Arrives(p, v, RouteTypes) /\ Expected(p, Head(Pending(p, v)))

(* No UPDATE or WITHDRAW reaches an end in OPENWAIT, so the branch of      *)
(* _bgp_peer_session_update_rcvd that would establish the session without  *)
(* advertising the Loc-RIB is never taken.                                 *)
OnlyOpenEstablishes ==
  \A p \in Ends, v \in Paths :
    RouteAccepted(p, v) => session_state[p] # "OPENWAIT"

(* The abort() of _bgp_peer_session_open_rcvd for an ESTABLISHED session   *)
(* is unreachable: the sequence number check stops that OPEN.              *)
NoOpenInEstablished == "open_in_established" \notin faults

(* Together these are inductive: whatever the commands, the interleaving   *)
(* of the handlers and the fate of the messages, the numbers in the queues *)
(* and at the two ends stay in step with the states of the sessions, which *)
(* is why an OPEN that arrives late does not reach the abort() of an       *)
(* ESTABLISHED session (bgp/peer.c:319, 451, 988).                         *)
SessionInv ==
  TypeOK /\ ZeroIsOpen /\ NumbersFollowState /\ NoOpenInEstablished

(* Until a run stops with an error, an ESTABLISHED end only acts upon the  *)
(* UPDATEs and WITHDRAWs of the session whose OPEN it accepted, never on   *)
(* those of an earlier or later one.                                       *)
SameSession ==
  \A p \in Ends, v \in Paths :
    faults = {} /\ RouteAccepted(p, v) /\ session_state[p] = "ESTABLISHED"
      => Head(Pending(p, v)).inc = accepted[p]

(* When all events are handled without an error, the two ends agree: an    *)
(* ESTABLISHED end faces an ESTABLISHED one that has received all it sent, *)
(* and no end still waits for an OPEN.                                     *)
SettledAgreement ==
  Drained /\ faults = {} =>
    \A p \in Ends :
      /\ session_state[p] # "OPENWAIT"
      /\ session_state[p] = "ESTABLISHED" =>
           /\ session_state[Other[p]] = "ESTABLISHED"
           /\ send_seq_num[p] = recv_seq_num[Other[p]]

(* The abort() of the UPDATE and WITHDRAW handlers is never the first      *)
(* thing to go wrong: a run has stopped with an error before.              *)
RouteAbortsAfterError ==
  faults \cap {"route_in_idle", "route_in_active"} # {} => "out_of_seq" \in faults

(* sim run terminates: the sessions do not keep each other busy for ever.  *)
Terminates == []<>(Drained \/ ~Running)
=============================================================================
