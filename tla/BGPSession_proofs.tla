-------------------------- MODULE BGPSession_proofs --------------------------
(***************************************************************************)
(* Proofs about BGPSession, for any number of peerings and paths, whatever *)
(* is lost, delayed, overtaken or cleared, and whatever the user does.     *)
(*                                                                         *)
(* None of OnlyOpenEstablishes and NoOpenInEstablished is inductive: both  *)
(* rest on the numbers in the queues (ZeroIsOpen), which rest on the       *)
(* numbers that go with each state (NumbersFollowState).  SessionInv, the  *)
(* inductive invariant, has them together.                                 *)
(***************************************************************************)
EXTENDS BGPSession, TLAPS

USE EndsAssumption, AdvertsAssumption, PathsAssumption, BoundsAssumption

QueueOK(q) ==
  /\ q \in [Ends -> [Paths -> Seq(Messages)]]
  /\ \A p \in Ends, v \in Paths : OpenIsZero(q[p][v])

MsgsOK(msgs) == msgs \in Seq(Messages) /\ OpenIsZero(msgs)

-----------------------------------------------------------------------------
(* Sequences of messages.                                                  *)

(* _bgp_peer_send: a control message numbered 0 exactly if it is an OPEN.  *)
LEMMA ControlOK ==
  ASSUME NEW type \in {"OPEN", "CLOSE"}, NEW n \in Nat, NEW i \in Nat,
         type = "OPEN" <=> n = 0
  PROVE  MsgsOK(<<Control(type, n, i)>>)
BY DEF MsgsOK, OpenIsZero, Control, Messages, Types

(* A dissemination is a sequence of adverts.                               *)
LEMMA BurstsType ==
  ASSUME NEW p \in Ends, NEW burst \in Bursts(p)
  PROVE  burst \in Seq(Adverts) /\ Len(burst) \in Nat
<1>1. PICK n \in 0..MaxBurst : burst \in [1..n -> Adverts]
  BY DEF Bursts
<1> QED
  BY <1>1

(* The messages of a dissemination never look like an OPEN.                *)
LEMMA NumberedOK ==
  ASSUME NEW burst \in Seq(Adverts), NEW n \in Nat, NEW i \in Nat, n > 0
  PROVE  MsgsOK(Numbered(burst, n, i))
<1> DEFINE N == Numbered(burst, n, i)
<1>1. \A k \in 1..Len(burst) :
        /\ burst[k] \in Adverts
        /\ n + (k - 1) \in Nat /\ n + (k - 1) > 0
  OBVIOUS
<1>2. \A k \in 1..Len(burst) :
        /\ N[k] \in Messages
        /\ N[k].type # "OPEN" /\ N[k].seq_num # 0
  BY <1>1 DEF Numbered, Messages, Types, RouteTypes
<1>3. N \in Seq(Messages) /\ Len(N) = Len(burst)
  BY <1>2 DEF Numbered
<1> QED
  BY <1>2, <1>3 DEF MsgsOK, OpenIsZero

LEMMA EmptyOK == MsgsOK(<<>>)
BY DEF MsgsOK, OpenIsZero

LEMMA ConcatOK ==
  ASSUME NEW s, NEW t, MsgsOK(s), MsgsOK(t)
  PROVE  MsgsOK(s \o t)
<1>1. s \in Seq(Messages) /\ t \in Seq(Messages)
  BY DEF MsgsOK
<1>2. \A k \in 1..Len(s \o t) :
        \/ k \in 1..Len(s) /\ (s \o t)[k] = s[k]
        \/ k - Len(s) \in 1..Len(t) /\ (s \o t)[k] = t[k - Len(s)]
  BY <1>1
<1> QED
  BY <1>1, <1>2 DEF MsgsOK, OpenIsZero

LEMMA TailOK ==
  ASSUME NEW s, MsgsOK(s), s # <<>>
  PROVE  MsgsOK(Tail(s))
BY DEF MsgsOK, OpenIsZero

-----------------------------------------------------------------------------
(* The queue of the simulator.                                             *)

LEMMA QueueInv == SessionInv => QueueOK(queue)
BY DEF SessionInv, TypeOK, ZeroIsOpen, QueueOK

LEMMA QueuedOK ==
  ASSUME SessionInv, NEW p \in Ends, NEW msgs, MsgsOK(msgs)
  PROVE  QueueOK(Queued(p, msgs))
<1>1. QueueOK(queue)
  BY QueueInv
<1>2. CASE ~Reaches(p)
  BY <1>1, <1>2 DEF Queued
<1>3. CASE Reaches(p)
  <2>1. route[p] \in Paths
    BY <1>3 DEF Reaches, SessionInv, TypeOK
  <2>2. MsgsOK(queue[p][route[p]])
    BY <1>1, <2>1 DEF QueueOK, MsgsOK
  <2>3. MsgsOK(queue[p][route[p]] \o msgs)
    BY <2>2, ConcatOK
  <2> QED
    BY <1>1, <1>3, <2>1, <2>3 DEF Queued, QueueOK, MsgsOK
<1> QED
  BY <1>2, <1>3

LEMMA ExchangeOK ==
  ASSUME SessionInv, NEW p \in Ends, NEW v \in Paths, NEW msgs, MsgsOK(msgs),
         Pending(p, v) # <<>>, Exchange(p, v, msgs)
  PROVE  QueueOK(queue')
<1> DEFINE Q == Queued(p, msgs)
<1>1. QueueOK(Q)
  BY QueuedOK
<1>2. Other[p] \in Ends /\ Other[p] # p
  OBVIOUS
<1>3. Q[Other[p]][v] = Pending(p, v)
  <2>1. QueueOK(queue)
    BY QueueInv
  <2> QED
    BY <1>2, <2>1 DEF Queued, Pending, QueueOK
<1>4. MsgsOK(Q[Other[p]][v])
  BY <1>1, <1>2 DEF QueueOK, MsgsOK
<1>5. MsgsOK(Tail(Q[Other[p]][v]))
  BY <1>3, <1>4, TailOK
<1>6. queue' = [Q EXCEPT ![Other[p]][v] = Tail(Q[Other[p]][v])]
  BY DEF Exchange
<1> HIDE DEF Q
<1> QED
  BY <1>1, <1>2, <1>5, <1>6 DEF QueueOK, MsgsOK

(* The first message of a path, as its receiver sees it.                   *)
LEMMA HeadOK ==
  ASSUME SessionInv, NEW p \in Ends, NEW v \in Paths, Pending(p, v) # <<>>
  PROVE  LET m == Head(Pending(p, v))
         IN  m \in Messages /\ (m.type = "OPEN" <=> m.seq_num = 0)
<1>1. MsgsOK(Pending(p, v))
  BY QueueInv DEF QueueOK, MsgsOK, Pending
<1> QED
  BY <1>1 DEF MsgsOK, OpenIsZero

-----------------------------------------------------------------------------
(* The fields of an end.                                                   *)

(* The numbers that go with a state.                                       *)
StateOK(state, snd, rcv) ==
  /\ state \in States /\ snd \in Nat /\ rcv \in Nat
  /\ snd = 0 <=> state \in {"IDLE", "ACTIVE"}
  /\ state = "OPENWAIT" => rcv = 0
  /\ state = "ESTABLISHED" => rcv > 0

(* SessionInv, for an end.                                                 *)
LEMMA EndOK ==
  ASSUME SessionInv, NEW p \in Ends
  PROVE  /\ StateOK(session_state[p], send_seq_num[p], recv_seq_num[p])
         /\ router_id[p] \in BOOLEAN
         /\ incarnation[p] \in Nat /\ accepted[p] \in Nat
         /\ route[p] \in Paths \union {NoRoute}
BY DEF SessionInv, TypeOK, NumbersFollowState, StateOK

(* Every operation on a session ends like this.                            *)
LEMMA BecomeOK ==
  ASSUME SessionInv, NEW p \in Ends, NEW state, NEW snd, NEW rcv,
         NEW id \in BOOLEAN, NEW acc \in Nat,
         StateOK(state, snd, rcv), Become(p, state, snd, rcv, id, acc),
         QueueOK(queue'), incarnation' \in [Ends -> Nat],
         UNCHANGED <<route, broken, faults>>
  PROVE  SessionInv'
<1>1. TypeOK'
  BY Zenon DEF SessionInv, TypeOK, StateOK, Become, QueueOK
<1>2. ZeroIsOpen'
  BY DEF QueueOK, ZeroIsOpen
<1>3. NumbersFollowState'
  BY DEF SessionInv, TypeOK, NumbersFollowState, StateOK, Become
<1>4. NoOpenInEstablished'
  BY DEF SessionInv, NoOpenInEstablished
<1> QED
  BY <1>1, <1>2, <1>3, <1>4 DEF SessionInv

(* A step that leaves the session of every end alone.                      *)
LEMMA QueueStepOK ==
  ASSUME SessionInv, QueueOK(queue'),
         route' \in [Ends -> Paths \union {NoRoute}],
         broken' \in [Ends -> SUBSET Paths],
         faults' \subseteq Outcomes, "open_in_established" \notin faults',
         UNCHANGED <<session_state, send_seq_num, recv_seq_num, router_id,
                     incarnation, accepted>>
  PROVE  SessionInv'
BY DEF SessionInv, TypeOK, ZeroIsOpen, NumbersFollowState,
       NoOpenInEstablished, QueueOK

LEMMA StartNumberingOK ==
  ASSUME SessionInv, NEW p \in Ends,
         StartNumbering(p) \/ UNCHANGED incarnation
  PROVE  incarnation' \in [Ends -> Nat]
<1>1. incarnation \in [Ends -> Nat]
  BY DEF SessionInv, TypeOK
<1>2. CASE StartNumbering(p)
  BY <1>1, <1>2 DEF StartNumbering
<1>3. CASE UNCHANGED incarnation
  BY <1>1, <1>3
<1> QED
  BY <1>2, <1>3

LEMMA CloseMsgsOK ==
  ASSUME SessionInv, NEW p \in Ends
  PROVE  MsgsOK(CloseMsgs(p))
<1>1. StateOK(session_state[p], send_seq_num[p], recv_seq_num[p])
      /\ incarnation[p] \in Nat
  BY EndOK
<1>2. CASE session_state[p] \in {"OPENWAIT", "ESTABLISHED"}
  <2>1. send_seq_num[p] # 0 /\ send_seq_num[p] \in Nat
    BY <1>1, <1>2 DEF StateOK
  <2>2. MsgsOK(<<Control("CLOSE", send_seq_num[p], incarnation[p])>>)
    BY <1>1, <2>1, ControlOK
  <2> QED
    BY <1>2, <2>2 DEF CloseMsgs
<1>3. CASE session_state[p] \notin {"OPENWAIT", "ESTABLISHED"}
  BY <1>3, EmptyOK DEF CloseMsgs
<1> QED
  BY <1>2, <1>3

-----------------------------------------------------------------------------
(* The commands keep the invariant.                                        *)

LEMMA OpenAfterOK ==
  ASSUME SessionInv, NEW p \in Ends, NEW msgs, MsgsOK(msgs),
         OpenAfter(p, msgs), UNCHANGED <<route, broken, faults>>
  PROVE  SessionInv'
<1>1. incarnation[p] + 1 \in Nat
  BY EndOK
<1>2. MsgsOK(<<OpenMsg(p, 0)>>)
  BY <1>1, ControlOK DEF OpenMsg
<1>3. MsgsOK(msgs \o <<OpenMsg(p, 0)>>)
  BY <1>2, ConcatOK
<1>4. QueueOK(queue')
  BY Zenon, <1>3, QueuedOK, QueueInv DEF OpenAfter
<1>5. incarnation' \in [Ends -> Nat]
  BY Zenon, StartNumberingOK DEF OpenAfter
<1>6. StateOK("OPENWAIT", 1, 0) /\ StateOK("ACTIVE", 0, 0)
  BY DEF StateOK, States
<1>7. \/ Become(p, "OPENWAIT", 1, 0, FALSE, 0)
      \/ Become(p, "ACTIVE", 0, 0, FALSE, 0)
  BY Zenon DEF OpenAfter
<1> QED
  BY Zenon, <1>4, <1>5, <1>6, <1>7, BecomeOK

LEMMA CommandOK ==
  ASSUME SessionInv, NEW p \in Ends, Command(p)
  PROVE  SessionInv'
<1>1. MsgsOK(CloseMsgs(p)) /\ MsgsOK(<<>>)
  BY CloseMsgsOK, EmptyOK
<1>2. CASE OpenSession(p)
  BY <1>1, <1>2, OpenAfterOK DEF OpenSession
<1>3. CASE ResetSession(p)
  BY <1>1, <1>3, OpenAfterOK DEF ResetSession
<1>4. ASSUME NEW state \in {"IDLE", "ACTIVE"},
             Become(p, state, 0, 0, FALSE, 0),
             queue' = Queued(p, CloseMsgs(p)),
             UNCHANGED <<route, broken, incarnation, faults>>
      PROVE  SessionInv'
  <2>1. QueueOK(queue')
    BY <1>1, <1>4, QueuedOK
  <2>2. incarnation' \in [Ends -> Nat]
    BY <1>4, StartNumberingOK
  <2>3. StateOK(state, 0, 0)
    BY DEF StateOK, States
  <2> QED
    BY Zenon, <1>4, <2>1, <2>2, <2>3, BecomeOK
<1>5. CASE CloseSession(p)
  BY <1>4, <1>5 DEF CloseSession
<1>6. CASE RefreshSession(p)
  BY Zenon, <1>1, <1>4, <1>6, OpenAfterOK DEF RefreshSession
<1>7. ASSUME NEW burst \in Bursts(p), Disseminate(p, burst)
      PROVE  SessionInv'
  <2>1. burst \in Seq(Adverts) /\ Len(burst) \in Nat
    BY BurstsType
  <2>2. /\ StateOK("ESTABLISHED", send_seq_num[p], recv_seq_num[p])
        /\ session_state[p] = "ESTABLISHED"
        /\ router_id[p] \in BOOLEAN
        /\ incarnation[p] \in Nat /\ accepted[p] \in Nat
    BY <1>7, EndOK DEF Disseminate
  <2>3. QueueOK(queue')
    BY <1>7, <2>1, <2>2, NumberedOK, QueuedOK DEF Disseminate, StateOK
  <2>4. Become(p, "ESTABLISHED", send_seq_num[p] + Len(burst),
               recv_seq_num[p], router_id[p], accepted[p])
    BY <1>7, <2>2 DEF Disseminate, Become, SessionInv, TypeOK
  <2>5. StateOK("ESTABLISHED", send_seq_num[p] + Len(burst), recv_seq_num[p])
    BY <2>1, <2>2 DEF StateOK
  <2>6. incarnation' \in [Ends -> Nat] /\ UNCHANGED <<route, broken, faults>>
    BY <1>7, StartNumberingOK DEF Disseminate
  <2> QED
    BY <2>2, <2>3, <2>4, <2>5, <2>6, BecomeOK
<1> QED
  BY <1>2, <1>3, <1>5, <1>6, <1>7 DEF Command

-----------------------------------------------------------------------------
(* Handling a message keeps the invariant.                                 *)

LEMMA OutOfSeqOK ==
  ASSUME SessionInv, NEW p \in Ends, NEW v \in Paths, ReceiveOutOfSeq(p, v)
  PROVE  SessionInv'
<1>1. QueueOK(queue')
  BY EmptyOK, ExchangeOK DEF ReceiveOutOfSeq, Arrives
<1>2. faults' \subseteq Outcomes /\ "open_in_established" \notin faults'
  BY DEF ReceiveOutOfSeq, SessionInv, TypeOK, NoOpenInEstablished, Outcomes
<1>3. /\ route' \in [Ends -> Paths \union {NoRoute}]
      /\ broken' \in [Ends -> SUBSET Paths]
  BY Zenon DEF ReceiveOutOfSeq, SessionInv, TypeOK
<1> QED
  BY <1>1, <1>2, <1>3, QueueStepOK DEF ReceiveOutOfSeq

(* An abort() other than the unreachable one.                              *)
LEMMA AbortOK ==
  ASSUME SessionInv, NEW kind \in Aborts, kind # "open_in_established",
         Abort(kind)
  PROVE  SessionInv'
<1>1. faults' \subseteq Outcomes /\ "open_in_established" \notin faults'
  BY Zenon DEF Abort, SessionInv, TypeOK, NoOpenInEstablished, Outcomes
<1>2. QueueOK(queue')
  BY QueueInv DEF Abort
<1>3. /\ route' \in [Ends -> Paths \union {NoRoute}]
      /\ broken' \in [Ends -> SUBSET Paths]
  BY DEF Abort, SessionInv, TypeOK
<1> QED
  BY <1>1, <1>2, <1>3, QueueStepOK DEF Abort

LEMMA OpenRcvdOK ==
  ASSUME SessionInv, NEW p \in Ends, NEW v \in Paths,
         NEW burst \in Bursts(p), ReceiveOpen(p, v, burst)
  PROVE  SessionInv'
<1> DEFINE m == Head(Pending(p, v))
           n == send_seq_num[p]
<1>1. burst \in Seq(Adverts) /\ Len(burst) \in Nat
  BY BurstsType
<1>2. /\ StateOK(session_state[p], n, recv_seq_num[p])
      /\ router_id[p] \in BOOLEAN
      /\ incarnation[p] \in Nat /\ accepted[p] \in Nat
  BY EndOK
<1>3. Pending(p, v) # <<>> /\ m.type = "OPEN" /\ Expected(p, m)
  BY DEF ReceiveOpen, Arrives
<1>4. m \in Messages /\ m.seq_num = 0
  BY <1>3, HeadOK
<1>5. recv_seq_num[p] = 0
  BY <1>3, <1>4 DEF Expected
<1>6. CASE session_state[p] = "ACTIVE"
  <2>1. n = 0
    BY <1>2, <1>6 DEF StateOK
  <2>2. MsgsOK(<<OpenMsg(p, n)>>)
    BY <1>2, <2>1, ControlOK DEF OpenMsg
  <2>3. MsgsOK(Numbered(burst, n + 1, incarnation[p] + 1))
    BY <1>1, <1>2, <2>1, NumberedOK
  <2>4. MsgsOK(<<OpenMsg(p, n)>> \o Numbered(burst, n + 1, incarnation[p] + 1))
    BY <2>2, <2>3, ConcatOK
  <2>5. /\ Become(p, "ESTABLISHED", n + 1 + Len(burst), recv_seq_num[p] + 1,
                  router_id[p], m.inc)
        /\ StartNumbering(p)
        /\ Exchange(p, v, <<OpenMsg(p, n)>>
                            \o Numbered(burst, n + 1, incarnation[p] + 1))
        /\ UNCHANGED <<route, broken, faults>>
    BY <1>6 DEF ReceiveOpen
  <2>6. QueueOK(queue')
    BY <1>3, <2>4, <2>5, ExchangeOK
  <2>7. StateOK("ESTABLISHED", n + 1 + Len(burst), recv_seq_num[p] + 1)
    BY <1>1, <1>5, <2>1 DEF StateOK, States
  <2>8. m.inc \in Nat /\ incarnation' \in [Ends -> Nat]
    BY <1>4, <2>5, StartNumberingOK DEF Messages
  <2> QED
    BY <1>2, <2>5, <2>6, <2>7, <2>8, BecomeOK
<1>7. CASE session_state[p] = "OPENWAIT"
  <2>1. n > 0 /\ n \in Nat
    BY <1>2, <1>7 DEF StateOK
  <2>2. MsgsOK(Numbered(burst, n, incarnation[p]))
    BY <1>1, <1>2, <2>1, NumberedOK
  <2>3. /\ Become(p, "ESTABLISHED", n + Len(burst), recv_seq_num[p] + 1,
                  TRUE, m.inc)
        /\ Exchange(p, v, Numbered(burst, n, incarnation[p]))
        /\ UNCHANGED <<route, broken, incarnation, faults>>
    BY Zenon, <1>7 DEF ReceiveOpen
  <2>4. QueueOK(queue')
    BY <1>3, <2>2, <2>3, ExchangeOK
  <2>5. StateOK("ESTABLISHED", n + Len(burst), recv_seq_num[p] + 1)
    BY <1>1, <1>5, <2>1 DEF StateOK, States
  <2>6. m.inc \in Nat /\ incarnation' \in [Ends -> Nat]
    BY <1>4, <2>3, StartNumberingOK DEF Messages
  <2> QED
    BY Zenon, <1>2, <2>3, <2>4, <2>5, <2>6, BecomeOK
<1>8. CASE session_state[p] = "IDLE"
  <2>1. Abort("open_in_idle")
    BY <1>8 DEF ReceiveOpen
  <2> QED
    BY <2>1, AbortOK DEF Aborts
<1>9. CASE session_state[p] = "ESTABLISHED"
  (* its recv_seq_num is positive *)
  BY <1>2, <1>5, <1>9 DEF StateOK
<1> QED
  BY <1>2, <1>6, <1>7, <1>8, <1>9 DEF StateOK, States

LEMMA CloseRcvdOK ==
  ASSUME SessionInv, NEW p \in Ends, NEW v \in Paths, ReceiveClose(p, v)
  PROVE  SessionInv'
<1>1. QueueOK(queue')
  BY EmptyOK, ExchangeOK DEF ReceiveClose, Arrives
<1>2. incarnation' \in [Ends -> Nat] /\ UNCHANGED <<route, broken, faults>>
  BY StartNumberingOK DEF ReceiveClose
<1>3. /\ StateOK(session_state[p], send_seq_num[p], recv_seq_num[p])
      /\ router_id[p] \in BOOLEAN /\ accepted[p] \in Nat
  BY EndOK
<1>4. CASE session_state[p] \in {"OPENWAIT", "ESTABLISHED"}
  <2>1. Become(p, "ACTIVE", 0, 0, FALSE, 0)
    BY Zenon, <1>4 DEF ReceiveClose
  <2>2. StateOK("ACTIVE", 0, 0)
    BY DEF StateOK, States
  <2> QED
    BY Zenon, <1>1, <1>2, <2>1, <2>2, BecomeOK
<1>5. CASE session_state[p] \notin {"OPENWAIT", "ESTABLISHED"}
  <2>1. Become(p, session_state[p], send_seq_num[p], recv_seq_num[p] + 1,
               router_id[p], accepted[p])
    BY <1>5 DEF ReceiveClose
  <2>2. StateOK(session_state[p], send_seq_num[p], recv_seq_num[p] + 1)
    BY <1>3, <1>5 DEF StateOK
  <2> QED
    BY <1>1, <1>2, <1>3, <2>1, <2>2, BecomeOK
<1> QED
  BY <1>4, <1>5

LEMMA RouteRcvdOK ==
  ASSUME SessionInv, NEW p \in Ends, NEW v \in Paths,
         NEW burst \in Bursts(p), ReceiveRoute(p, v, burst)
  PROVE  SessionInv'
<1> DEFINE n == send_seq_num[p]
<1>1. burst \in Seq(Adverts) /\ Len(burst) \in Nat
  BY BurstsType
<1>2. /\ StateOK(session_state[p], n, recv_seq_num[p])
      /\ router_id[p] \in BOOLEAN
      /\ incarnation[p] \in Nat /\ accepted[p] \in Nat
  BY EndOK
<1>3. CASE session_state[p] \in {"OPENWAIT", "ESTABLISHED"}
  <2>1. n > 0 /\ n \in Nat
    BY <1>2, <1>3 DEF StateOK
  <2>2. MsgsOK(Numbered(burst, n, incarnation[p]))
    BY <1>1, <1>2, <2>1, NumberedOK
  <2>3. /\ Become(p, "ESTABLISHED", n + Len(burst), recv_seq_num[p] + 1,
                  router_id[p], accepted[p])
        /\ Pending(p, v) # <<>>
        /\ Exchange(p, v, Numbered(burst, n, incarnation[p]))
        /\ UNCHANGED <<route, broken, incarnation, faults>>
    BY <1>3 DEF ReceiveRoute, Arrives
  <2>4. QueueOK(queue')
    BY <2>2, <2>3, ExchangeOK
  <2>5. StateOK("ESTABLISHED", n + Len(burst), recv_seq_num[p] + 1)
    BY <1>1, <1>2, <2>1 DEF StateOK, States
  <2>6. incarnation' \in [Ends -> Nat]
    BY <2>3, StartNumberingOK
  <2> QED
    BY <1>2, <2>3, <2>4, <2>5, <2>6, BecomeOK
<1>4. CASE session_state[p] \notin {"OPENWAIT", "ESTABLISHED"}
  <2>1. Abort("route_in_idle") \/ Abort("route_in_active")
    BY <1>4 DEF ReceiveRoute
  <2> QED
    BY <2>1, AbortOK DEF Aborts
<1> QED
  BY <1>3, <1>4

-----------------------------------------------------------------------------
(* What happens to the network keeps the invariant.                        *)

LEMMA NetworkOK ==
  ASSUME SessionInv, NEW p \in Ends, NetworkStep(p)
  PROVE  SessionInv'
<1>1. QueueOK(queue)
  BY QueueInv
<1>2. /\ route \in [Ends -> Paths \union {NoRoute}]
      /\ broken \in [Ends -> SUBSET Paths]
      /\ faults \subseteq Outcomes /\ "open_in_established" \notin faults
  BY DEF SessionInv, TypeOK, NoOpenInEstablished
<1>3. ASSUME NEW r \in Paths \union {NoRoute}, ChangeRoute(p, r)
      PROVE  SessionInv'
  BY <1>1, <1>2, <1>3, QueueStepOK DEF ChangeRoute, SessionUnchanged
<1>4. ASSUME NEW v \in Paths, ChangeLink(p, v)
      PROVE  SessionInv'
  <2>1. broken' \in [Ends -> SUBSET Paths]
    BY <1>2, <1>4 DEF ChangeLink
  <2> QED
    BY <1>1, <1>2, <1>4, <2>1, QueueStepOK DEF ChangeLink, SessionUnchanged
<1>5. ASSUME NEW v \in Paths, LoseMessage(p, v)
      PROVE  SessionInv'
  <2>1. MsgsOK(queue[p][v]) /\ queue[p][v] # <<>>
    BY <1>1, <1>5 DEF LoseMessage, QueueOK, MsgsOK
  <2>2. MsgsOK(Tail(queue[p][v]))
    BY <2>1, TailOK
  <2>3. queue' = [queue EXCEPT ![p][v] = Tail(queue[p][v])]
    BY <1>5 DEF LoseMessage
  <2>4. QueueOK(queue')
    BY <1>1, <2>2, <2>3 DEF QueueOK, MsgsOK
  <2> QED
    BY <1>2, <1>5, <2>4, QueueStepOK DEF LoseMessage, SessionUnchanged
<1> QED
  BY <1>3, <1>4, <1>5 DEF NetworkStep

LEMMA ClearOK ==
  ASSUME SessionInv, ClearQueue
  PROVE  SessionInv'
<1>1. QueueOK(queue')
  BY EmptyOK DEF ClearQueue, QueueOK, MsgsOK
<1>2. /\ route \in [Ends -> Paths \union {NoRoute}]
      /\ broken \in [Ends -> SUBSET Paths]
      /\ faults \subseteq Outcomes /\ "open_in_established" \notin faults
  BY DEF SessionInv, TypeOK, NoOpenInEstablished
<1> QED
  BY <1>1, <1>2, QueueStepOK DEF ClearQueue, SessionUnchanged

-----------------------------------------------------------------------------
(* The theorems.                                                           *)

LEMMA InitOK == Init => SessionInv
<1> SUFFICES ASSUME Init PROVE SessionInv
  OBVIOUS
<1>1. QueueOK(queue)
  BY EmptyOK DEF Init, QueueOK, MsgsOK
<1>2. TypeOK
  BY <1>1 DEF Init, TypeOK, QueueOK, States
<1>3. NumbersFollowState
  BY DEF Init, NumbersFollowState
<1> QED
  BY <1>1, <1>2, <1>3
  DEF Init, SessionInv, QueueOK, ZeroIsOpen, NoOpenInEstablished

LEMMA StutterOK ==
  ASSUME SessionInv, UNCHANGED vars
  PROVE  SessionInv'
BY DEF SessionInv, vars, TypeOK, ZeroIsOpen, NumbersFollowState,
       NoOpenInEstablished

(* Every session of every peering keeps its types, its OPENs numbered 0,   *)
(* its numbers in step with its state, and never meets an OPEN while       *)
(* ESTABLISHED, whatever the commands, the interleaving of the handlers    *)
(* and the fate of the messages.                                           *)
THEOREM SessionInvariant == Spec => []SessionInv
<1>1. SessionInv /\ [Next]_vars => SessionInv'
  <2> SUFFICES ASSUME SessionInv, [Next]_vars PROVE SessionInv'
    OBVIOUS
  <2>1. CASE \E p \in Ends : Command(p) \/ NetworkStep(p)
    BY <2>1, CommandOK, NetworkOK
  <2>2. ASSUME NEW p \in Ends, NEW v \in Paths, HandleMessage(p, v)
        PROVE  SessionInv'
    BY <2>2, OutOfSeqOK, OpenRcvdOK, CloseRcvdOK, RouteRcvdOK
    DEF HandleMessage
  <2>3. CASE ClearQueue
    BY <2>3, ClearOK
  <2>4. CASE UNCHANGED vars
    BY <2>4, StutterOK
  <2> QED
    BY <2>1, <2>2, <2>3, <2>4 DEF Next
<1> QED
  BY <1>1, InitOK, PTL DEF Spec

(* The types of the session automaton.                                     *)
THEOREM TypeCorrect == Spec => []TypeOK
<1>1. SessionInv => TypeOK
  BY DEF SessionInv
<1> QED
  BY <1>1, SessionInvariant, PTL

(* OPENs and only OPENs carry number 0, on every path and at any time.     *)
THEOREM OpensAreNumberedZero == Spec => []ZeroIsOpen
<1>1. SessionInv => ZeroIsOpen
  BY DEF SessionInv
<1> QED
  BY <1>1, SessionInvariant, PTL

(* The sequence numbers of an end always agree with its state.             *)
THEOREM NumbersAgreeWithState == Spec => []NumbersFollowState
<1>1. SessionInv => NumbersFollowState
  BY DEF SessionInv
<1> QED
  BY <1>1, SessionInvariant, PTL

(* abort() is never called for an OPEN received while ESTABLISHED.         *)
THEOREM OpenNeverMeetsEstablished == Spec => []NoOpenInEstablished
<1>1. SessionInv => NoOpenInEstablished
  BY DEF SessionInv
<1> QED
  BY <1>1, SessionInvariant, PTL

(* An UPDATE or WITHDRAW never establishes a session, although the code of *)
(* its handlers would let it.                                              *)
THEOREM RoutesNeverEstablish == Spec => []OnlyOpenEstablishes
<1>1. SessionInv => OnlyOpenEstablishes
  <2> SUFFICES ASSUME SessionInv, NEW p \in Ends, NEW v \in Paths,
                      RouteAccepted(p, v), session_state[p] = "OPENWAIT"
               PROVE  FALSE
    BY DEF OnlyOpenEstablishes
  <2> DEFINE m == Head(Pending(p, v))
  <2>1. Pending(p, v) # <<>> /\ m.type \in RouteTypes /\ Expected(p, m)
    BY DEF RouteAccepted, Arrives
  <2>2. m.seq_num = recv_seq_num[p]
    BY <2>1 DEF Expected, RouteTypes
  <2>3. recv_seq_num[p] = 0
    BY EndOK DEF StateOK
  <2>4. m.type = "OPEN"
    BY <2>1, <2>2, <2>3, HeadOK
  <2> QED
    BY <2>1, <2>4 DEF RouteTypes
<1> QED
  BY <1>1, SessionInvariant, PTL
=============================================================================
