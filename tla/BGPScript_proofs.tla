-------------------------- MODULE BGPScript_proofs --------------------------
(***************************************************************************)
(* Proofs about BGPScript: what the documented way of driving the          *)
(* simulator guarantees, for any number of peerings, paths and changes of  *)
(* topology.                                                               *)
(*                                                                         *)
(* Neither property is inductive.  Against an abort() of a handler: an end *)
(* that could take an UPDATE for one of its next session faces an end that *)
(* has not sent any (Warned), and only an end that is up has an OPEN under *)
(* way (OpenerIsUp).  The one abort() left, that of an OPEN that meets an  *)
(* IDLE end, ends the run (Stopped).  Against a message out of sequence,   *)
(* when the two directions of every peering fail and recover together:     *)
(* what is under way to an end is numbered from what it expects (InSync),  *)
(* or its session is being closed (Closing), and while nothing can be sent *)
(* the ends that have been rescanned have given up (JointDown).            *)
(***************************************************************************)
EXTENDS BGPScript, BGPSession_proofs

USE EndsAssumption, AdvertsAssumption, PathsAssumption, BoundsAssumption

-----------------------------------------------------------------------------
(* The inductive invariant.                                                *)

(* All that p has in flight: its messages are on the path of its route.    *)
Out(p) == IF route[p] = NoRoute THEN <<>> ELSE queue[p][route[p]]

Kinds(s) == {s[k].type : k \in 1..Len(s)}

Quiet(state) == state \in {"IDLE", "ACTIVE"}
InSession(state) == state \in {"OPENWAIT", "ESTABLISHED"}

(* Messages only travel along the current route, since the topology only   *)
(* changes when there are none.                                            *)
OnRoute ==
  /\ \A p \in Ends : broken[p] = {}
  /\ \A p \in Ends, v \in Paths : v # route[p] => queue[p][v] = <<>>

(* A CLOSE is only sent when nothing is under way.                         *)
CloseFirst(s) == \A k \in 1..Len(s) : s[k].type = "CLOSE" => k = 1

(* While the routers are rescanned, one end after the other: an end that   *)
(* has not been rescanned has nothing in flight, one that has been may     *)
(* have sent a CLOSE and become ACTIVE, or an OPEN and wait.               *)
Rescanned(p) ==
  \/ Out(p) = <<>>
  \/ /\ p \notin unscanned
     /\ \/ Kinds(Out(p)) = {"CLOSE"} /\ session_state[p] = "ACTIVE"
        \/ Kinds(Out(p)) = {"OPEN"} /\ session_state[p] = "OPENWAIT"

(* An end that has not opened and that has received a CLOSE, or will,      *)
(* faces one that is not ESTABLISHED and has no route under way, and has   *)
(* itself no OPEN under way that could establish it.  The values are those *)
(* of the two ends.                                                        *)
WarnedAt(state, rcv, kinds, otherState, otherKinds) ==
  Quiet(state) /\ (rcv > 0 \/ "CLOSE" \in otherKinds) =>
    /\ otherState # "ESTABLISHED"
    /\ "OPEN" \notin kinds
    /\ otherKinds \cap RouteTypes = {}

Warned(p) ==
  WarnedAt(session_state[p], recv_seq_num[p], Kinds(Out(p)),
           session_state[Other[p]], Kinds(Out(Other[p])))

PairsOK == \A p \in Ends : CloseFirst(Out(p)) /\ Warned(p)

SafeInv ==
  /\ SessionInv /\ OnRoute /\ Running /\ PairsOK
  /\ unscanned \subseteq Ends
  /\ unscanned # {} => \A p \in Ends : Rescanned(p)

-----------------------------------------------------------------------------
(* What a sequence of messages is made of.                                 *)

LEMMA KindsEmpty == Kinds(<<>>) = {} /\ CloseFirst(<<>>)
BY DEF Kinds, CloseFirst

LEMMA KindsConcat ==
  ASSUME NEW s \in Seq(Messages), NEW t \in Seq(Messages)
  PROVE  Kinds(s \o t) = Kinds(s) \union Kinds(t)
<1>1. Len(s) \in Nat /\ Len(t) \in Nat /\ Len(s \o t) = Len(s) + Len(t)
  OBVIOUS
<1>2. ASSUME NEW k \in 1..Len(s \o t)
      PROVE  (s \o t)[k].type \in Kinds(s) \union Kinds(t)
  <2>1. CASE k <= Len(s)
    <3>1. k \in 1..Len(s) /\ (s \o t)[k] = s[k]
      BY <1>1, <2>1
    <3> QED
      BY <3>1 DEF Kinds
  <2>2. CASE k > Len(s)
    <3>1. k - Len(s) \in 1..Len(t) /\ (s \o t)[k] = t[k - Len(s)]
      BY <1>1, <2>2
    <3> QED
      BY <3>1 DEF Kinds
  <2> QED
    BY <1>1, <2>1, <2>2
<1>3. ASSUME NEW k \in 1..Len(s)
      PROVE  s[k].type \in Kinds(s \o t)
  <2>1. k \in 1..Len(s \o t) /\ (s \o t)[k] = s[k]
    BY <1>1
  <2> QED
    BY <2>1 DEF Kinds
<1>4. ASSUME NEW k \in 1..Len(t)
      PROVE  t[k].type \in Kinds(s \o t)
  <2>1. k + Len(s) \in 1..Len(s \o t) /\ (s \o t)[k + Len(s)] = t[k]
    BY <1>1
  <2> QED
    BY <2>1 DEF Kinds
<1>5. Kinds(s \o t) \subseteq Kinds(s) \union Kinds(t)
  <2> SUFFICES ASSUME NEW z \in Kinds(s \o t)
               PROVE  z \in Kinds(s) \union Kinds(t)
    OBVIOUS
  <2>1. PICK k \in 1..Len(s \o t) : z = (s \o t)[k].type
    BY Zenon DEF Kinds
  <2> QED
    BY Zenon, <1>2, <2>1
<1>6. Kinds(s) \subseteq Kinds(s \o t)
  <2> SUFFICES ASSUME NEW z \in Kinds(s)
               PROVE  z \in Kinds(s \o t)
    OBVIOUS
  <2>1. PICK k \in 1..Len(s) : z = s[k].type
    BY Zenon DEF Kinds
  <2> QED
    BY Zenon, <1>3, <2>1
<1>7. Kinds(t) \subseteq Kinds(s \o t)
  <2> SUFFICES ASSUME NEW z \in Kinds(t)
               PROVE  z \in Kinds(s \o t)
    OBVIOUS
  <2>1. PICK k \in 1..Len(t) : z = t[k].type
    BY Zenon DEF Kinds
  <2> QED
    BY Zenon, <1>4, <2>1
<1> QED
  BY Zenon, <1>5, <1>6, <1>7

LEMMA KindsTail ==
  ASSUME NEW s \in Seq(Messages), s # <<>>
  PROVE  /\ Kinds(Tail(s)) \subseteq Kinds(s)
         /\ s[1].type \in Kinds(s)
         /\ CloseFirst(s) => CloseFirst(Tail(s)) /\ "CLOSE" \notin Kinds(Tail(s))
<1>1. Len(s) \in Nat /\ Len(s) > 0 /\ Len(Tail(s)) = Len(s) - 1
  OBVIOUS
<1>2. \A k \in 1..Len(Tail(s)) : k + 1 \in 1..Len(s) /\ Tail(s)[k] = s[k + 1]
  OBVIOUS
<1>3. Kinds(Tail(s)) \subseteq Kinds(s)
  BY <1>2 DEF Kinds
<1>4. s[1].type \in Kinds(s)
  BY <1>1 DEF Kinds
<1>5. ASSUME CloseFirst(s), NEW k \in 1..Len(Tail(s))
      PROVE  Tail(s)[k].type # "CLOSE"
  <2>1. k + 1 # 1
    OBVIOUS
  <2> QED
    BY Zenon, <1>2, <1>5, <2>1 DEF CloseFirst
<1>6. CloseFirst(s) => "CLOSE" \notin Kinds(Tail(s))
  BY Zenon, <1>5 DEF Kinds
<1>7. CloseFirst(s) => CloseFirst(Tail(s))
  BY Zenon, <1>5 DEF CloseFirst
<1> QED
  BY Zenon, <1>3, <1>4, <1>6, <1>7

LEMMA CloseFirstConcat ==
  ASSUME NEW s \in Seq(Messages), NEW t \in Seq(Messages),
         CloseFirst(s), "CLOSE" \notin Kinds(t)
  PROVE  CloseFirst(s \o t)
<1>1. Len(s) \in Nat /\ Len(t) \in Nat /\ Len(s \o t) = Len(s) + Len(t)
  OBVIOUS
<1> SUFFICES ASSUME NEW k \in 1..Len(s \o t), (s \o t)[k].type = "CLOSE"
             PROVE  k = 1
  BY Zenon DEF CloseFirst
<1>2. CASE k <= Len(s)
  <2>1. k \in 1..Len(s) /\ (s \o t)[k] = s[k]
    BY <1>1, <1>2
  <2> QED
    BY Zenon, <2>1 DEF CloseFirst
<1>3. CASE k > Len(s)
  <2>1. k - Len(s) \in 1..Len(t) /\ (s \o t)[k] = t[k - Len(s)]
    BY <1>1, <1>3
  <2>2. t[k - Len(s)].type \in Kinds(t)
    BY <2>1 DEF Kinds
  <2> QED
    BY Zenon, <2>1, <2>2
<1> QED
  BY <1>1, <1>2, <1>3

LEMMA ConcatFacts ==
  ASSUME NEW s \in Seq(Messages), NEW t \in Seq(Messages)
  PROVE  /\ Len(s \o t) = Len(s) + Len(t)
         /\ \A k \in 1..Len(s) : (s \o t)[k] = s[k]
         /\ \A k \in 1..Len(t) : (s \o t)[Len(s) + k] = t[k]
<1>1. Len(s \o t) = Len(s) + Len(t)
  OBVIOUS
<1>2. \A k \in 1..Len(s) : (s \o t)[k] = s[k]
  OBVIOUS
<1>3. \A k \in 1..Len(t) : (s \o t)[Len(s) + k] = t[k]
  OBVIOUS
<1> QED
  BY Zenon, <1>1, <1>2, <1>3

LEMMA TailFacts ==
  ASSUME NEW s \in Seq(Messages), s # <<>>
  PROVE  /\ Tail(s) \in Seq(Messages) /\ Len(Tail(s)) = Len(s) - 1
         /\ \A k \in 1..Len(s) - 1 : Tail(s)[k] = s[k + 1]
<1>1. Tail(s) \in Seq(Messages) /\ Len(Tail(s)) = Len(s) - 1
  OBVIOUS
<1>2. \A k \in 1..Len(s) - 1 : Tail(s)[k] = s[k + 1]
  OBVIOUS
<1> QED
  BY Zenon, <1>1, <1>2

LEMMA TwoMessages ==
  ASSUME NEW s \in Seq(Messages), NEW t \in Seq(Messages), Len(s) = 1, Len(t) = 1
  PROVE  /\ Len(s \o t) = 2 /\ s \o t # <<>>
         /\ (s \o t)[1] = s[1] /\ (s \o t)[2] = t[1]
<1> DEFINE u == s \o t
<1>1. /\ Len(u) = Len(s) + Len(t)
      /\ \A k \in 1..Len(s) : u[k] = s[k]
      /\ \A k \in 1..Len(t) : u[Len(s) + k] = t[k]
  BY Zenon, ConcatFacts
<1> HIDE DEF u
<1>2. Len(u) = 2 /\ u[1] = s[1] /\ u[2] = t[1]
  BY <1>1
<1>3. u # <<>>
  BY <1>2
<1> QED
  BY Zenon, <1>2, <1>3 DEF u

LEMMA KindsSingle ==
  ASSUME NEW m
  PROVE  Kinds(<<m>>) = {m.type} /\ CloseFirst(<<m>>)
<1>1. Len(<<m>>) = 1 /\ <<m>>[1] = m
  OBVIOUS
<1> QED
  BY <1>1 DEF Kinds, CloseFirst

LEMMA KindsNumbered ==
  ASSUME NEW burst \in Seq(Adverts), NEW n, NEW i
  PROVE  Kinds(Numbered(burst, n, i)) \subseteq RouteTypes
<1> DEFINE N == Numbered(burst, n, i)
<1>1. Len(N) = Len(burst)
  BY DEF Numbered
<1>2. \A k \in 1..Len(burst) : N[k].type = burst[k].type /\ burst[k] \in Adverts
  BY DEF Numbered
<1> HIDE DEF N
<1>3. \A k \in 1..Len(N) : N[k].type \in RouteTypes
  BY Zenon, <1>1, <1>2
<1> QED
  BY <1>3 DEF Kinds, N

LEMMA KindsClose ==
  ASSUME NEW p
  PROVE  /\ InSession(session_state[p]) => Kinds(CloseMsgs(p)) = {"CLOSE"}
         /\ ~InSession(session_state[p]) => CloseMsgs(p) = <<>>
         /\ CloseFirst(CloseMsgs(p))
<1>1. CASE InSession(session_state[p])
  <2> DEFINE m == Control("CLOSE", send_seq_num[p], incarnation[p])
  <2>1. CloseMsgs(p) = <<m>> /\ m.type = "CLOSE"
    BY <1>1 DEF CloseMsgs, InSession, Control
  <2> HIDE DEF m
  <2> QED
    BY Zenon, <1>1, <2>1, KindsSingle
<1>2. CASE ~InSession(session_state[p])
  <2>1. CloseMsgs(p) = <<>>
    BY <1>2 DEF CloseMsgs, InSession
  <2> QED
    BY Zenon, <1>2, <2>1, KindsEmpty
<1> QED
  BY <1>1, <1>2

LEMMA KindsDiffer ==
  /\ "CLOSE" \notin RouteTypes /\ "OPEN" \notin RouteTypes /\ "CLOSE" # "OPEN"
  /\ Quiet("IDLE") /\ Quiet("ACTIVE") /\ ~Quiet("OPENWAIT") /\ ~Quiet("ESTABLISHED")
  /\ "IDLE" # "ESTABLISHED" /\ "ACTIVE" # "ESTABLISHED" /\ "OPENWAIT" # "ESTABLISHED"
BY DEF RouteTypes, Quiet

-----------------------------------------------------------------------------
(* What a step does to the messages in flight.                             *)

LEMMA OutOK ==
  ASSUME SessionInv, NEW p \in Ends
  PROVE  MsgsOK(Out(p)) /\ Out(p) \in Seq(Messages)
<1>1. CASE route[p] = NoRoute
  BY Zenon, <1>1, EmptyOK DEF Out, MsgsOK
<1>2. CASE route[p] # NoRoute
  <2>1. route[p] \in Paths
    BY Zenon, <1>2, EndOK
  <2> QED
    BY Zenon, <1>2, <2>1, QueueInv DEF QueueOK, MsgsOK, Out
<1> QED
  BY <1>1, <1>2

(* x sends msgs and, if taken, handles a message of the other end.         *)
Posted(x, msgs, taken) ==
  /\ OnRoute' /\ route' = route
  /\ Out(x)' = IF route[x] = NoRoute THEN <<>> ELSE Out(x) \o msgs
  /\ Out(Other[x])' = IF taken THEN Tail(Out(Other[x])) ELSE Out(Other[x])
  /\ \A e \in Ends \ {x, Other[x]} : Out(e)' = Out(e)

LEMMA QueuedPosts ==
  ASSUME SessionInv, OnRoute, NEW x \in Ends, NEW msgs,
         queue' = Queued(x, msgs), UNCHANGED <<route, broken>>
  PROVE  Posted(x, msgs, FALSE)
<1>0. queue \in [Ends -> [Paths -> Seq(Messages)]] /\ route[x] \in Paths \union {NoRoute}
  BY DEF SessionInv, TypeOK
<1>1. Reaches(x) <=> route[x] # NoRoute
  BY DEF Reaches, OnRoute
<1>2. CASE route[x] = NoRoute
  <2>1. queue' = queue
    BY <1>1, <1>2 DEF Queued
  <2>2. OnRoute'
    BY <2>1 DEF OnRoute
  <2>3. \A e \in Ends : Out(e)' = Out(e)
    BY Zenon, <2>1 DEF Out
  <2> QED
    BY Zenon, <1>2, <2>2, <2>3 DEF Posted, Out
<1>3. CASE route[x] # NoRoute
  <2>0. route[x] \in Paths
    BY <1>0, <1>3
  <2>1. queue' = [queue EXCEPT ![x][route[x]] = queue[x][route[x]] \o msgs]
    BY <1>1, <1>3 DEF Queued
  <2>2. /\ queue'[x][route[x]] = queue[x][route[x]] \o msgs
        /\ \A v \in Paths : v # route[x] => queue'[x][v] = queue[x][v]
        /\ \A e \in Ends \ {x} : queue'[e] = queue[e]
    BY <1>0, <2>0, <2>1
  <2>3. OnRoute'
    BY <2>2 DEF OnRoute
  <2>4. Out(x)' = Out(x) \o msgs
    BY Zenon, <1>3, <2>2 DEF Out
  <2>5. \A e \in Ends \ {x} : Out(e)' = Out(e)
    BY Zenon, <2>2 DEF Out
  <2>6. Other[x] \in Ends \ {x}
    OBVIOUS
  <2> QED
    BY Zenon, <1>3, <2>3, <2>4, <2>5, <2>6 DEF Posted
<1> QED
  BY Zenon, <1>2, <1>3

LEMMA PendingOut ==
  ASSUME SessionInv, OnRoute, NEW x \in Ends, NEW v \in Paths, Pending(x, v) # <<>>
  PROVE  /\ v = route[Other[x]] /\ route[Other[x]] # NoRoute
         /\ Pending(x, v) = Out(Other[x]) /\ Out(Other[x]) # <<>>
<1>1. Other[x] \in Ends /\ v # NoRoute
  OBVIOUS
<1>2. v = route[Other[x]]
  BY Zenon, <1>1 DEF OnRoute, Pending
<1> QED
  BY Zenon, <1>1, <1>2 DEF Out, Pending

LEMMA ExchangePosts ==
  ASSUME SessionInv, OnRoute, NEW x \in Ends, NEW v \in Paths, NEW msgs,
         Pending(x, v) # <<>>, Exchange(x, v, msgs), UNCHANGED <<route, broken>>
  PROVE  Posted(x, msgs, TRUE)
<1> DEFINE Q == Queued(x, msgs)
           y == Other[x]
<1>0. queue \in [Ends -> [Paths -> Seq(Messages)]] /\ route[x] \in Paths \union {NoRoute}
  BY DEF SessionInv, TypeOK
<1>1. y \in Ends /\ y # x /\ Other[y] = x
  OBVIOUS
<1>2. v = route[y] /\ route[y] # NoRoute
  BY Zenon, PendingOut
<1>3. Reaches(x) <=> route[x] # NoRoute
  BY DEF Reaches, OnRoute
<1>4. /\ DOMAIN Q = Ends /\ \A e \in Ends : DOMAIN Q[e] = Paths
      /\ route[x] # NoRoute => Q[x][route[x]] = queue[x][route[x]] \o msgs
      /\ \A w \in Paths : w # route[x] => Q[x][w] = queue[x][w]
      /\ \A e \in Ends \ {x} : Q[e] = queue[e]
  BY <1>0, <1>3 DEF Queued
<1>5. queue' = [Q EXCEPT ![y][v] = Tail(Q[y][v])]
  BY DEF Exchange
<1> HIDE DEF Q, y
<1>6. /\ queue'[y][v] = Tail(queue[y][v])
      /\ \A w \in Paths : w # v => queue'[y][w] = queue[y][w]
      /\ queue'[x] = Q[x]
      /\ \A e \in Ends \ {x, y} : queue'[e] = queue[e]
  BY <1>1, <1>4, <1>5
<1>7. /\ \A w \in Paths : w # route[x] => queue'[x][w] = queue[x][w]
      /\ route[x] # NoRoute => queue'[x][route[x]] = queue[x][route[x]] \o msgs
  BY Zenon, <1>4, <1>6
<1>8. OnRoute'
  <2> SUFFICES ASSUME NEW p \in Ends, NEW w \in Paths, w # route[p]
               PROVE  queue'[p][w] = <<>>
    BY Zenon DEF OnRoute
  <2>1. queue[p][w] = <<>>
    BY Zenon DEF OnRoute
  <2>2. CASE p = x
    BY Zenon, <1>7, <2>1, <2>2
  <2>3. CASE p = y
    BY Zenon, <1>2, <1>6, <2>1, <2>3
  <2>4. CASE p \notin {x, y}
    BY Zenon, <1>6, <2>1, <2>4
  <2> QED
    BY <2>2, <2>3, <2>4
<1>9. Out(x)' = IF route[x] = NoRoute THEN <<>> ELSE Out(x) \o msgs
  BY Zenon, <1>7 DEF Out
<1>10. Out(y)' = Tail(Out(y))
  BY Zenon, <1>2, <1>6 DEF Out
<1>11. \A e \in Ends \ {x, y} : Out(e)' = Out(e)
  BY Zenon, <1>6 DEF Out
<1> QED
  BY Zenon, <1>8, <1>9, <1>10, <1>11 DEF Posted, y

-----------------------------------------------------------------------------
(* What a step of one end is for the invariant: the fields x gets, the     *)
(* messages it sends, and whether it takes one of the other end.           *)

OthersKeep(x) ==
  \A e \in Ends \ {x} :
    /\ session_state'[e] = session_state[e]
    /\ send_seq_num'[e] = send_seq_num[e]
    /\ recv_seq_num'[e] = recv_seq_num[e]

Moves(x, state, snd, rcv, msgs, taken) ==
  /\ session_state'[x] = state /\ send_seq_num'[x] = snd /\ recv_seq_num'[x] = rcv
  /\ OthersKeep(x) /\ Posted(x, msgs, taken) /\ MsgsOK(msgs)

LEMMA BecomeMoves ==
  ASSUME SessionInv, NEW x \in Ends, NEW state, NEW snd, NEW rcv, NEW id, NEW acc,
         NEW msgs, NEW taken,
         Become(x, state, snd, rcv, id, acc), Posted(x, msgs, taken), MsgsOK(msgs)
  PROVE  Moves(x, state, snd, rcv, msgs, taken)
<1>1. /\ session_state \in [Ends -> States] /\ send_seq_num \in [Ends -> Nat]
      /\ recv_seq_num \in [Ends -> Nat]
  BY DEF SessionInv, TypeOK
<1>2. /\ session_state' = [session_state EXCEPT ![x] = state]
      /\ send_seq_num' = [send_seq_num EXCEPT ![x] = snd]
      /\ recv_seq_num' = [recv_seq_num EXCEPT ![x] = rcv]
  BY Zenon DEF Become
<1>3. session_state'[x] = state /\ send_seq_num'[x] = snd /\ recv_seq_num'[x] = rcv
  BY <1>1, <1>2
<1>4. OthersKeep(x)
  BY <1>1, <1>2 DEF OthersKeep
<1> QED
  BY Zenon, <1>3, <1>4 DEF Moves

LEMMA KeepMoves ==
  ASSUME NEW x \in Ends, NEW msgs, NEW taken, Posted(x, msgs, taken), MsgsOK(msgs),
         UNCHANGED <<session_state, send_seq_num, recv_seq_num>>
  PROVE  Moves(x, session_state[x], send_seq_num[x], recv_seq_num[x], msgs, taken)
BY Zenon DEF Moves, OthersKeep

LEMMA EndTypes ==
  ASSUME SessionInv, NEW p \in Ends
  PROVE  /\ session_state[p] \in States
         /\ send_seq_num[p] \in Nat /\ recv_seq_num[p] \in Nat /\ incarnation[p] \in Nat
BY DEF SessionInv, TypeOK

LEMMA OpenMsgOK ==
  ASSUME SessionInv, NEW x \in Ends
  PROVE  MsgsOK(<<OpenMsg(x, 0)>>)
<1>1. incarnation[x] + 1 \in Nat
  BY EndTypes
<1> QED
  BY <1>1, ControlOK DEF OpenMsg

(* The OPEN of x, if it has a route.                                       *)
Opens(x, before) ==
  \/ /\ route[x] # NoRoute
     /\ Moves(x, "OPENWAIT", 1, 0, before \o <<OpenMsg(x, 0)>>, FALSE)
  \/ /\ route[x] = NoRoute
     /\ Moves(x, "ACTIVE", 0, 0, <<>>, FALSE)

LEMMA OpenMoves ==
  ASSUME SessionInv, OnRoute, NEW x \in Ends, NEW before, MsgsOK(before),
         OpenAfter(x, before), UNCHANGED <<route, broken>>
  PROVE  Opens(x, before)
<1> DEFINE O == before \o <<OpenMsg(x, 0)>>
<1>1. MsgsOK(<<OpenMsg(x, 0)>>)
  BY Zenon, OpenMsgOK
<1>2. MsgsOK(O)
  BY <1>1, ConcatOK
<1>3. CASE route[x] # NoRoute
  <2>1. Become(x, "OPENWAIT", 1, 0, FALSE, 0) /\ queue' = Queued(x, O)
    BY Zenon, <1>3 DEF OpenAfter
  <2> HIDE DEF O
  <2>2. Posted(x, O, FALSE)
    BY Zenon, <2>1, QueuedPosts
  <2>3. Moves(x, "OPENWAIT", 1, 0, O, FALSE)
    BY Zenon, <1>2, <2>1, <2>2, BecomeMoves
  <2> QED
    BY Zenon, <1>3, <2>3 DEF Opens, O
<1>4. CASE route[x] = NoRoute
  <2>1. Become(x, "ACTIVE", 0, 0, FALSE, 0) /\ queue' = queue
    BY Zenon, <1>4 DEF OpenAfter
  <2>2. queue' = Queued(x, <<>>)
    BY Zenon, <1>4, <2>1 DEF Queued, Reaches
  <2>3. Posted(x, <<>>, FALSE)
    BY Zenon, <2>2, QueuedPosts
  <2>4. Moves(x, "ACTIVE", 0, 0, <<>>, FALSE)
    BY Zenon, <2>1, <2>3, BecomeMoves, EmptyOK
  <2> QED
    BY Zenon, <1>4, <2>4 DEF Opens
<1> QED
  BY <1>3, <1>4

(* The CLOSE of x, if it had opened.                                       *)
LEMMA CloseMoves ==
  ASSUME SessionInv, OnRoute, NEW x \in Ends, NEW state,
         Become(x, state, 0, 0, FALSE, 0), queue' = Queued(x, CloseMsgs(x)),
         UNCHANGED <<route, broken>>
  PROVE  Moves(x, state, 0, 0, CloseMsgs(x), FALSE)
<1>1. Posted(x, CloseMsgs(x), FALSE)
  BY Zenon, QueuedPosts
<1> QED
  BY Zenon, <1>1, BecomeMoves, CloseMsgsOK

(* x, ESTABLISHED, tells of its routes.                                    *)
LEMMA TellMoves ==
  ASSUME SessionInv, OnRoute, NEW x \in Ends, NEW burst \in Bursts(x),
         Disseminate(x, burst)
  PROVE  Moves(x, session_state[x], send_seq_num[x] + Len(burst), recv_seq_num[x],
               Numbered(burst, send_seq_num[x], incarnation[x]), FALSE)
<1> DEFINE N == Numbered(burst, send_seq_num[x], incarnation[x])
<1>1. burst \in Seq(Adverts) /\ Len(burst) \in Nat
  BY BurstsType
<1>2. /\ session_state[x] = "ESTABLISHED"
      /\ queue' = Queued(x, N) /\ UNCHANGED <<route, broken>>
      /\ send_seq_num' = [send_seq_num EXCEPT ![x] = @ + Len(burst)]
      /\ UNCHANGED <<session_state, recv_seq_num>>
  BY DEF Disseminate
<1>3. send_seq_num[x] \in Nat /\ send_seq_num[x] > 0 /\ incarnation[x] \in Nat
  BY <1>2, EndOK DEF StateOK
<1>4. MsgsOK(N)
  BY <1>1, <1>3, NumberedOK
<1> HIDE DEF N
<1>5. Posted(x, N, FALSE)
  BY Zenon, <1>2, QueuedPosts
<1>6. /\ send_seq_num'[x] = send_seq_num[x] + Len(burst)
      /\ \A e \in Ends \ {x} : send_seq_num'[e] = send_seq_num[e]
  BY <1>2 DEF SessionInv, TypeOK
<1>7. OthersKeep(x)
  BY Zenon, <1>2, <1>6 DEF OthersKeep
<1>8. Moves(x, session_state[x], send_seq_num[x] + Len(burst), recv_seq_num[x], N, FALSE)
  BY Zenon, <1>2, <1>4, <1>5, <1>6, <1>7 DEF Moves
<1> QED
  BY Zenon, <1>8 DEF N

-----------------------------------------------------------------------------
(* The handlers.  Where a handler could abort(), the case is excluded by   *)
(* the numbers or by Warned, but for an OPEN that meets an IDLE end.       *)

FrontMsg(x) == Out(Other[x])[1]

LEMMA Front ==
  ASSUME SessionInv, OnRoute, NEW x \in Ends, NEW v \in Paths, NEW types,
         Arrives(x, v, types)
  PROVE  /\ Pending(x, v) # <<>> /\ Pending(x, v) = Out(Other[x])
         /\ Out(Other[x]) # <<>> /\ Out(Other[x]) \in Seq(Messages)
         /\ Head(Pending(x, v)) = FrontMsg(x)
         /\ FrontMsg(x).type \in types /\ FrontMsg(x).type \in Kinds(Out(Other[x]))
         /\ FrontMsg(x).type = "OPEN" <=> FrontMsg(x).seq_num = 0
         /\ InFlight(Other[x])
<1> DEFINE s == Out(Other[x])
<1>1. Pending(x, v) # <<>> /\ Head(Pending(x, v)).type \in types
  BY DEF Arrives
<1>2. Pending(x, v) = s /\ s # <<>>
  BY Zenon, <1>1, PendingOut
<1>3. Other[x] \in Ends
  OBVIOUS
<1>4. MsgsOK(s) /\ s \in Seq(Messages)
  BY Zenon, <1>3, OutOK
<1>5. InFlight(Other[x])
  BY <1>1 DEF InFlight, Pending
<1> HIDE DEF s
<1>6. Head(s) = s[1] /\ Len(s) > 0 /\ 1 \in 1..Len(s)
  BY <1>2, <1>4
<1>7. s[1].type = "OPEN" <=> s[1].seq_num = 0
  BY <1>4, <1>6 DEF MsgsOK, OpenIsZero
<1>8. s[1].type \in Kinds(s)
  BY <1>6 DEF Kinds
<1> QED
  BY Zenon, <1>1, <1>2, <1>4, <1>5, <1>6, <1>7, <1>8 DEF s, FrontMsg

LEMMA OutOfSeqMoves ==
  ASSUME SessionInv, OnRoute, NEW x \in Ends, NEW v \in Paths, ReceiveOutOfSeq(x, v)
  PROVE  /\ Out(Other[x]) # <<>> /\ ~Expected(x, FrontMsg(x))
         /\ faults' = faults \union {"out_of_seq"}
         /\ Moves(x, session_state[x], send_seq_num[x], recv_seq_num[x], <<>>, TRUE)
<1>1. /\ Arrives(x, v, Types) /\ ~Expected(x, Head(Pending(x, v)))
      /\ Exchange(x, v, <<>>) /\ faults' = faults \union {"out_of_seq"}
      /\ UNCHANGED <<session_state, send_seq_num, recv_seq_num>>
      /\ UNCHANGED <<route, broken>>
  BY DEF ReceiveOutOfSeq
<1>2. /\ Pending(x, v) # <<>> /\ Out(Other[x]) # <<>>
      /\ Head(Pending(x, v)) = FrontMsg(x)
  BY Zenon, <1>1, Front
<1>3. Posted(x, <<>>, TRUE)
  BY Zenon, <1>1, <1>2, ExchangePosts
<1>4. Moves(x, session_state[x], send_seq_num[x], recv_seq_num[x], <<>>, TRUE)
  BY Zenon, <1>1, <1>3, KeepMoves, EmptyOK
<1> QED
  BY Zenon, <1>1, <1>2, <1>4

(* bgp_peer_open_session's answer, and the routes of both handlers.        *)
OpenAnswer(x, burst) ==
  <<OpenMsg(x, send_seq_num[x])>>
    \o Numbered(burst, send_seq_num[x] + 1, incarnation[x] + 1)

RouteAnswer(x, burst) == Numbered(burst, send_seq_num[x], incarnation[x])

LEMMA AnswersOK ==
  ASSUME SessionInv, NEW x \in Ends, NEW burst \in Bursts(x)
  PROVE  /\ Quiet(session_state[x]) => MsgsOK(OpenAnswer(x, burst))
         /\ InSession(session_state[x]) => MsgsOK(RouteAnswer(x, burst))
<1>1. burst \in Seq(Adverts)
  BY Zenon, BurstsType
<1>2. /\ send_seq_num[x] \in Nat /\ incarnation[x] \in Nat
      /\ Quiet(session_state[x]) => send_seq_num[x] = 0
      /\ InSession(session_state[x]) => send_seq_num[x] > 0
  BY EndOK DEF StateOK, Quiet, InSession
<1>3. ASSUME Quiet(session_state[x])
      PROVE  MsgsOK(OpenAnswer(x, burst))
  <2>1. MsgsOK(<<OpenMsg(x, send_seq_num[x])>>)
    BY <1>2, <1>3, ControlOK DEF OpenMsg
  <2>2. MsgsOK(Numbered(burst, send_seq_num[x] + 1, incarnation[x] + 1))
    BY <1>1, <1>2, <1>3, NumberedOK
  <2> QED
    BY Zenon, <2>1, <2>2, ConcatOK DEF OpenAnswer
<1>4. ASSUME InSession(session_state[x])
      PROVE  MsgsOK(RouteAnswer(x, burst))
  BY <1>1, <1>2, <1>4, NumberedOK DEF RouteAnswer
<1> QED
  BY Zenon, <1>3, <1>4

LEMMA OpenRcvdMoves ==
  ASSUME SessionInv, OnRoute, NEW x \in Ends, NEW v \in Paths,
         NEW burst \in Bursts(x), ReceiveOpen(x, v, burst), session_state[x] # "IDLE"
  PROVE  /\ Out(Other[x]) # <<>> /\ FrontMsg(x).type = "OPEN"
         /\ FrontMsg(x).type \in Kinds(Out(Other[x]))
         /\ recv_seq_num[x] = 0 /\ faults' = faults
         /\ \/ /\ session_state[x] = "ACTIVE"
               /\ Moves(x, "ESTABLISHED", send_seq_num[x] + 1 + Len(burst),
                        recv_seq_num[x] + 1, OpenAnswer(x, burst), TRUE)
            \/ /\ session_state[x] = "OPENWAIT"
               /\ Moves(x, "ESTABLISHED", send_seq_num[x] + Len(burst),
                        recv_seq_num[x] + 1, RouteAnswer(x, burst), TRUE)
<1> DEFINE m == Head(Pending(x, v))
<1>1. Arrives(x, v, {"OPEN"}) /\ Expected(x, m)
  BY DEF ReceiveOpen
<1>2. /\ Pending(x, v) # <<>> /\ Out(Other[x]) # <<>>
      /\ m = FrontMsg(x) /\ FrontMsg(x).type = "OPEN"
      /\ FrontMsg(x).type \in Kinds(Out(Other[x])) /\ FrontMsg(x).seq_num = 0
  <2>1. /\ Pending(x, v) # <<>> /\ Out(Other[x]) # <<>>
        /\ m = FrontMsg(x) /\ FrontMsg(x).type \in {"OPEN"}
        /\ FrontMsg(x).type \in Kinds(Out(Other[x]))
        /\ FrontMsg(x).type = "OPEN" <=> FrontMsg(x).seq_num = 0
    BY Zenon, <1>1, Front
  <2>2. FrontMsg(x).type = "OPEN"
    BY <2>1
  <2> QED
    BY Zenon, <2>1, <2>2
<1>3. recv_seq_num[x] = 0
  BY <1>1, <1>2 DEF Expected
<1>4. session_state[x] \in {"ACTIVE", "OPENWAIT"}
  BY <1>3, EndOK DEF StateOK, States
<1>5. CASE session_state[x] = "ACTIVE"
  <2>1. /\ Become(x, "ESTABLISHED", send_seq_num[x] + 1 + Len(burst),
                  recv_seq_num[x] + 1, router_id[x], m.inc)
        /\ Exchange(x, v, OpenAnswer(x, burst))
        /\ UNCHANGED <<route, broken>> /\ faults' = faults
    BY <1>5 DEF ReceiveOpen, OpenAnswer
  <2>2. MsgsOK(OpenAnswer(x, burst))
    BY <1>5, AnswersOK DEF Quiet
  <2>3. Posted(x, OpenAnswer(x, burst), TRUE)
    BY Zenon, <1>2, <2>1, ExchangePosts
  <2>4. Moves(x, "ESTABLISHED", send_seq_num[x] + 1 + Len(burst),
              recv_seq_num[x] + 1, OpenAnswer(x, burst), TRUE)
    BY Zenon, <2>1, <2>2, <2>3, BecomeMoves
  <2> QED
    BY Zenon, <1>2, <1>3, <1>5, <2>1, <2>4
<1>6. CASE session_state[x] = "OPENWAIT"
  <2>1. /\ Become(x, "ESTABLISHED", send_seq_num[x] + Len(burst),
                  recv_seq_num[x] + 1, TRUE, m.inc)
        /\ Exchange(x, v, RouteAnswer(x, burst))
        /\ UNCHANGED <<route, broken>> /\ faults' = faults
    BY Zenon, <1>6 DEF ReceiveOpen, RouteAnswer
  <2>2. MsgsOK(RouteAnswer(x, burst))
    BY <1>6, AnswersOK DEF InSession
  <2>3. Posted(x, RouteAnswer(x, burst), TRUE)
    BY Zenon, <1>2, <2>1, ExchangePosts
  <2>4. Moves(x, "ESTABLISHED", send_seq_num[x] + Len(burst),
              recv_seq_num[x] + 1, RouteAnswer(x, burst), TRUE)
    BY Zenon, <2>1, <2>2, <2>3, BecomeMoves
  <2> QED
    BY Zenon, <1>2, <1>3, <1>6, <2>1, <2>4
<1> QED
  BY Zenon, <1>4, <1>5, <1>6

LEMMA CloseRcvdMoves ==
  ASSUME SessionInv, OnRoute, NEW x \in Ends, NEW v \in Paths, ReceiveClose(x, v)
  PROVE  /\ Out(Other[x]) # <<>> /\ FrontMsg(x).type = "CLOSE"
         /\ FrontMsg(x).type \in Kinds(Out(Other[x])) /\ faults' = faults
         /\ \/ /\ InSession(session_state[x])
               /\ Moves(x, "ACTIVE", 0, 0, <<>>, TRUE)
            \/ /\ Quiet(session_state[x])
               /\ Moves(x, session_state[x], send_seq_num[x], recv_seq_num[x] + 1,
                        <<>>, TRUE)
<1>1. /\ Arrives(x, v, {"CLOSE"}) /\ Exchange(x, v, <<>>)
      /\ UNCHANGED <<route, broken>> /\ faults' = faults
  BY DEF ReceiveClose
<1>2. /\ Pending(x, v) # <<>> /\ Out(Other[x]) # <<>>
      /\ FrontMsg(x).type = "CLOSE" /\ FrontMsg(x).type \in Kinds(Out(Other[x]))
  <2>1. /\ Pending(x, v) # <<>> /\ Out(Other[x]) # <<>>
        /\ FrontMsg(x).type \in {"CLOSE"} /\ FrontMsg(x).type \in Kinds(Out(Other[x]))
    BY Zenon, <1>1, Front
  <2>2. FrontMsg(x).type = "CLOSE"
    BY <2>1
  <2> QED
    BY Zenon, <2>1, <2>2
<1>3. Posted(x, <<>>, TRUE)
  BY Zenon, <1>1, <1>2, ExchangePosts
<1>4. CASE InSession(session_state[x])
  <2>1. Become(x, "ACTIVE", 0, 0, FALSE, 0)
    BY Zenon, <1>4 DEF ReceiveClose, InSession
  <2>2. Moves(x, "ACTIVE", 0, 0, <<>>, TRUE)
    BY Zenon, <1>3, <2>1, BecomeMoves, EmptyOK
  <2> QED
    BY Zenon, <1>1, <1>2, <1>4, <2>2
<1>5. CASE ~InSession(session_state[x])
  <2>1. Become(x, session_state[x], send_seq_num[x], recv_seq_num[x] + 1,
               router_id[x], accepted[x])
    BY Zenon, <1>5 DEF ReceiveClose, InSession
  <2>2. Moves(x, session_state[x], send_seq_num[x], recv_seq_num[x] + 1, <<>>, TRUE)
    BY Zenon, <1>3, <2>1, BecomeMoves, EmptyOK
  <2>3. Quiet(session_state[x])
    BY <1>5, EndTypes DEF Quiet, InSession, States
  <2> QED
    BY Zenon, <1>1, <1>2, <2>2, <2>3
<1> QED
  BY Zenon, <1>4, <1>5

LEMMA RouteRcvdMoves ==
  ASSUME SessionInv, OnRoute, NEW x \in Ends, NEW v \in Paths,
         NEW burst \in Bursts(x), ReceiveRoute(x, v, burst), Warned(x)
  PROVE  /\ Out(Other[x]) # <<>> /\ FrontMsg(x).type \in RouteTypes
         /\ session_state[x] = "ESTABLISHED" /\ faults' = faults
         /\ Expected(x, FrontMsg(x))
         /\ Moves(x, "ESTABLISHED", send_seq_num[x] + Len(burst),
                  recv_seq_num[x] + 1, RouteAnswer(x, burst), TRUE)
<1> DEFINE m == Head(Pending(x, v))
<1>1. Arrives(x, v, RouteTypes) /\ Expected(x, m)
  BY DEF ReceiveRoute
<1>2. /\ Pending(x, v) # <<>> /\ Out(Other[x]) # <<>>
      /\ m = FrontMsg(x) /\ FrontMsg(x).type \in RouteTypes
      /\ FrontMsg(x).type \in Kinds(Out(Other[x]))
      /\ FrontMsg(x).type = "OPEN" <=> FrontMsg(x).seq_num = 0
  BY Zenon, <1>1, Front
<1>3. recv_seq_num[x] # 0
  BY <1>1, <1>2, KindsDiffer DEF Expected
<1>4. recv_seq_num[x] > 0
  BY <1>3, EndTypes
<1>5. ~Quiet(session_state[x])
  BY Zenon, <1>2, <1>4 DEF Warned, WarnedAt
<1>6. session_state[x] = "ESTABLISHED"
  BY <1>3, <1>5, EndOK DEF StateOK, States, Quiet
<1>7. /\ Become(x, "ESTABLISHED", send_seq_num[x] + Len(burst),
                recv_seq_num[x] + 1, router_id[x], accepted[x])
      /\ Exchange(x, v, RouteAnswer(x, burst))
      /\ UNCHANGED <<route, broken>> /\ faults' = faults
  BY <1>6 DEF ReceiveRoute, RouteAnswer
<1>8. MsgsOK(RouteAnswer(x, burst))
  BY <1>6, AnswersOK DEF InSession
<1>9. Posted(x, RouteAnswer(x, burst), TRUE)
  BY Zenon, <1>2, <1>7, ExchangePosts
<1>10. Moves(x, "ESTABLISHED", send_seq_num[x] + Len(burst),
             recv_seq_num[x] + 1, RouteAnswer(x, burst), TRUE)
  BY Zenon, <1>7, <1>8, <1>9, BecomeMoves
<1> QED
  BY Zenon, <1>1, <1>2, <1>6, <1>7, <1>10

-----------------------------------------------------------------------------
(* No handler aborts.                                                      *)

LEMMA WarnedLess ==
  ASSUME NEW s, NEW r, NEW k1, NEW t, NEW k2, NEW l1, NEW l2,
         WarnedAt(s, r, l1, t, l2), k1 \subseteq l1, k2 \subseteq l2
  PROVE  WarnedAt(s, r, k1, t, k2)
BY DEF WarnedAt

LEMMA SentKinds ==
  ASSUME SessionInv, NEW x \in Ends, NEW msgs, NEW taken,
         Posted(x, msgs, taken), MsgsOK(msgs)
  PROVE  /\ Kinds(Out(x)') \subseteq Kinds(Out(x)) \union Kinds(msgs)
         /\ CloseFirst(Out(x)) /\ "CLOSE" \notin Kinds(msgs) => CloseFirst(Out(x)')
         /\ Out(x) = <<>> /\ CloseFirst(msgs) => CloseFirst(Out(x)')
<1>1. msgs \in Seq(Messages) /\ Out(x) \in Seq(Messages)
  BY Zenon, OutOK DEF MsgsOK
<1>2. CASE route[x] = NoRoute
  <2>1. Out(x)' = <<>>
    BY Zenon, <1>2 DEF Posted
  <2> QED
    BY <2>1, KindsEmpty
<1>3. CASE route[x] # NoRoute
  <2>1. Out(x)' = Out(x) \o msgs
    BY Zenon, <1>3 DEF Posted
  <2>2. Kinds(Out(x)') = Kinds(Out(x)) \union Kinds(msgs)
    BY Zenon, <1>1, <2>1, KindsConcat
  <2>3. CloseFirst(Out(x)) /\ "CLOSE" \notin Kinds(msgs) => CloseFirst(Out(x)')
    BY Zenon, <1>1, <2>1, CloseFirstConcat
  <2>4. Out(x) = <<>> => Out(x)' = msgs
    BY <1>1, <2>1
  <2> QED
    BY Zenon, <2>2, <2>3, <2>4
<1> QED
  BY Zenon, <1>2, <1>3

LEMMA TakenKinds ==
  ASSUME SessionInv, NEW x \in Ends, NEW msgs, NEW taken \in BOOLEAN,
         Posted(x, msgs, taken), taken => Out(Other[x]) # <<>>,
         CloseFirst(Out(Other[x]))
  PROVE  /\ Kinds(Out(Other[x])') \subseteq Kinds(Out(Other[x]))
         /\ CloseFirst(Out(Other[x])')
         /\ taken => "CLOSE" \notin Kinds(Out(Other[x])')
<1>1. Out(Other[x]) \in Seq(Messages)
  BY OutOK
<1>2. CASE taken = TRUE
  <2>1. Out(Other[x])' = Tail(Out(Other[x]))
    BY Zenon, <1>2 DEF Posted
  <2>2. Out(Other[x]) # <<>>
    BY <1>2
  <2> DEFINE s == Out(Other[x])
  <2>3. s \in Seq(Messages) /\ s # <<>> /\ CloseFirst(s)
    BY Zenon, <1>1, <2>2
  <2> HIDE DEF s
  <2>4. /\ Kinds(Tail(s)) \subseteq Kinds(s)
        /\ CloseFirst(Tail(s)) /\ "CLOSE" \notin Kinds(Tail(s))
    BY Zenon, <2>3, KindsTail
  <2> QED
    BY Zenon, <2>1, <2>4 DEF s
<1>3. CASE taken = FALSE
  <2>1. Out(Other[x])' = Out(Other[x])
    BY Zenon, <1>3 DEF Posted
  <2> QED
    BY Zenon, <1>3, <2>1
<1> QED
  BY Zenon, <1>2, <1>3

(* The two ends of the peering are checked, the others have not changed.   *)
LEMMA PairStep ==
  ASSUME SessionInv, PairsOK, NEW x \in Ends, NEW state, NEW snd, NEW rcv,
         NEW msgs, NEW taken \in BOOLEAN, Moves(x, state, snd, rcv, msgs, taken),
         taken => Out(Other[x]) # <<>>,
         NEW kx, NEW ky,
         Kinds(Out(x)') \subseteq kx, Kinds(Out(Other[x])') \subseteq ky,
         WarnedAt(state, rcv, kx, session_state[Other[x]], ky),
         WarnedAt(session_state[Other[x]], recv_seq_num[Other[x]], ky, state, kx),
         CloseFirst(Out(x)')
  PROVE  PairsOK'
<1> DEFINE y == Other[x]
<1>1. y \in Ends /\ y # x /\ Other[y] = x
  OBVIOUS
<1>2. CloseFirst(Out(y)')
  BY Zenon, <1>1, TakenKinds DEF PairsOK, Moves
<1>3. /\ session_state'[x] = state /\ recv_seq_num'[x] = rcv
      /\ session_state'[y] = session_state[y] /\ recv_seq_num'[y] = recv_seq_num[y]
  BY Zenon, <1>1 DEF Moves, OthersKeep
<1>4. /\ WarnedAt(state, rcv, Kinds(Out(x)'), session_state[y], Kinds(Out(y)'))
      /\ WarnedAt(session_state[y], recv_seq_num[y], Kinds(Out(y)'), state, Kinds(Out(x)'))
  BY Zenon, WarnedLess
<1>5. Warned(x)'
  BY Zenon, <1>1, <1>3, <1>4 DEF Warned
<1>6. Warned(y)'
  BY Zenon, <1>1, <1>3, <1>4 DEF Warned
<1>7. ASSUME NEW p \in Ends, p \notin {x, y}
      PROVE  CloseFirst(Out(p))' /\ Warned(p)'
  <2>1. Other[p] \in Ends \ {x, y}
    BY <1>1, <1>7
  <2>2. Out(p)' = Out(p) /\ Out(Other[p])' = Out(Other[p])
    BY Zenon, <1>7, <2>1 DEF Moves, Posted
  <2>3. /\ session_state'[p] = session_state[p] /\ recv_seq_num'[p] = recv_seq_num[p]
        /\ session_state'[Other[p]] = session_state[Other[p]]
    BY <1>7, <2>1 DEF Moves, OthersKeep
  <2>4. CloseFirst(Out(p)) /\ Warned(p)
    BY Zenon DEF PairsOK
  <2> QED
    BY Zenon, <2>2, <2>3, <2>4 DEF Warned
<1> QED
  BY Zenon, <1>1, <1>2, <1>5, <1>6, <1>7 DEF PairsOK

LEMMA DrainedOut ==
  ASSUME SessionInv, Drained, NEW p \in Ends
  PROVE  Out(p) = <<>> /\ Kinds(Out(p)) = {} /\ \A v \in Paths : queue[p][v] = <<>>
<1>1. \A v \in Paths : queue[p][v] = <<>>
  BY Zenon DEF Drained, InFlight
<1>2. route[p] \in Paths \union {NoRoute}
  BY Zenon, EndOK
<1>3. Out(p) = <<>>
  BY <1>1, <1>2 DEF Out
<1> QED
  BY Zenon, <1>1, <1>3, KindsEmpty

(* An end that had not opened opens.                                       *)
LEMMA OpeningPair ==
  ASSUME SessionInv, PairsOK, NEW x \in Ends, Opens(x, <<>>), Quiet(session_state[x])
  PROVE  PairsOK'
<1> DEFINE y == Other[x]
<1>0. y \in Ends /\ Other[y] = x
  OBVIOUS
<1>1. /\ WarnedAt(session_state[x], recv_seq_num[x], Kinds(Out(x)),
                  session_state[y], Kinds(Out(y)))
      /\ WarnedAt(session_state[y], recv_seq_num[y], Kinds(Out(y)),
                  session_state[x], Kinds(Out(x)))
      /\ CloseFirst(Out(x)) /\ CloseFirst(Out(y))
  BY Zenon, <1>0 DEF PairsOK, Warned
<1>2. CASE /\ route[x] # NoRoute
           /\ Moves(x, "OPENWAIT", 1, 0, <<>> \o <<OpenMsg(x, 0)>>, FALSE)
  <2> DEFINE O == <<>> \o <<OpenMsg(x, 0)>>
             kx == Kinds(Out(x)) \union {"OPEN"}
  <2>1. O = <<OpenMsg(x, 0)>> /\ OpenMsg(x, 0).type = "OPEN"
    BY DEF OpenMsg, Control
  <2>2. Kinds(O) = {"OPEN"} /\ Posted(x, O, FALSE) /\ MsgsOK(O)
    BY Zenon, <1>2, <2>1, KindsSingle DEF Moves
  <2> HIDE DEF O
  <2>3. Kinds(Out(x)') \subseteq kx /\ CloseFirst(Out(x)')
    BY Zenon, <1>1, <2>2, SentKinds
  <2>4. Kinds(Out(y)') \subseteq Kinds(Out(y))
    BY Zenon, <1>1, <2>2, TakenKinds
  <2>5. WarnedAt("OPENWAIT", 0, kx, session_state[y], Kinds(Out(y)))
    BY DEF WarnedAt, Quiet
  <2>6. WarnedAt(session_state[y], recv_seq_num[y], Kinds(Out(y)), "OPENWAIT", kx)
    BY <1>1 DEF WarnedAt, RouteTypes
  <2>7. Moves(x, "OPENWAIT", 1, 0, O, FALSE)
    BY Zenon, <1>2 DEF O
  <2> HIDE DEF kx
  <2> QED
    BY Zenon, <2>3, <2>4, <2>5, <2>6, <2>7, PairStep DEF y
<1>3. CASE route[x] = NoRoute /\ Moves(x, "ACTIVE", 0, 0, <<>>, FALSE)
  <2>1. Posted(x, <<>>, FALSE) /\ MsgsOK(<<>>) /\ Kinds(<<>>) = {}
    BY Zenon, <1>3, KindsEmpty DEF Moves
  <2>2. Out(x) = <<>> /\ Kinds(Out(x)) = {}
    BY Zenon, <1>3, KindsEmpty DEF Out
  <2>3. Kinds(Out(x)') \subseteq {} /\ CloseFirst(Out(x)')
    BY Zenon, <1>1, <2>1, <2>2, SentKinds
  <2>4. Kinds(Out(y)') \subseteq Kinds(Out(y))
    BY Zenon, <1>1, <2>1, TakenKinds
  <2>5. WarnedAt("ACTIVE", 0, {}, session_state[y], Kinds(Out(y)))
    BY <1>1 DEF WarnedAt
  <2>6. WarnedAt(session_state[y], recv_seq_num[y], Kinds(Out(y)), "ACTIVE", {})
    BY <1>1, <2>2 DEF WarnedAt
  <2> QED
    BY Zenon, <1>3, <2>3, <2>4, <2>5, <2>6, PairStep DEF y
<1> QED
  BY Zenon, <1>2, <1>3 DEF Opens

(* Nothing is under way between the two ends, and x sends messages of kx.  *)
LEMMA DrainedPair ==
  ASSUME SessionInv, PairsOK, NEW x \in Ends, NEW state, NEW snd, NEW rcv, NEW msgs,
         Moves(x, state, snd, rcv, msgs, FALSE), CloseFirst(msgs),
         Out(x) = <<>>, Kinds(Out(x)) = {}, Kinds(Out(Other[x])) = {},
         WarnedAt(state, rcv, Kinds(msgs), session_state[Other[x]], {}),
         WarnedAt(session_state[Other[x]], recv_seq_num[Other[x]], {}, state, Kinds(msgs))
  PROVE  PairsOK'
<1>1. Posted(x, msgs, FALSE) /\ MsgsOK(msgs)
  BY Zenon DEF Moves
<1>2. Kinds(Out(x)') \subseteq Kinds(msgs) /\ CloseFirst(Out(x)')
  BY Zenon, <1>1, SentKinds
<1>3. CloseFirst(Out(Other[x]))
  BY DEF PairsOK
<1>4. Kinds(Out(Other[x])') \subseteq {}
  BY Zenon, <1>1, <1>3, TakenKinds
<1> QED
  BY Zenon, <1>2, <1>4, PairStep

LEMMA ClosingPair ==
  ASSUME SessionInv, PairsOK, Drained, NEW x \in Ends, NEW state,
         state \in {"IDLE", "ACTIVE"}, Moves(x, state, 0, 0, CloseMsgs(x), FALSE)
  PROVE  PairsOK'
<1>1. Out(x) = <<>> /\ Kinds(Out(x)) = {} /\ Kinds(Out(Other[x])) = {}
  BY DrainedOut
<1>2. CloseFirst(CloseMsgs(x)) /\ Kinds(CloseMsgs(x)) \subseteq {"CLOSE"}
  BY KindsClose, KindsEmpty
<1>3. WarnedAt(state, 0, Kinds(CloseMsgs(x)), session_state[Other[x]], {})
  BY DEF WarnedAt
<1>4. WarnedAt(session_state[Other[x]], recv_seq_num[Other[x]], {}, state,
               Kinds(CloseMsgs(x)))
  BY <1>2 DEF WarnedAt, RouteTypes
<1> QED
  BY Zenon, <1>1, <1>2, <1>3, <1>4, DrainedPair

LEMMA CloseOpenKinds ==
  ASSUME SessionInv, NEW x \in Ends
  PROVE  /\ CloseFirst(CloseMsgs(x) \o <<OpenMsg(x, 0)>>)
         /\ Kinds(CloseMsgs(x) \o <<OpenMsg(x, 0)>>) \subseteq {"CLOSE", "OPEN"}
<1>1. CloseMsgs(x) \in Seq(Messages)
  BY Zenon, CloseMsgsOK DEF MsgsOK
<1>3. <<OpenMsg(x, 0)>> \in Seq(Messages)
  BY Zenon, OpenMsgOK DEF MsgsOK
<1>4. OpenMsg(x, 0).type = "OPEN"
  BY DEF OpenMsg, Control
<1>5. Kinds(<<OpenMsg(x, 0)>>) = {"OPEN"}
  BY Zenon, <1>4, KindsSingle
<1>6. CloseFirst(CloseMsgs(x)) /\ Kinds(CloseMsgs(x)) \subseteq {"CLOSE"}
  BY KindsClose, KindsEmpty
<1>7. "CLOSE" \notin Kinds(<<OpenMsg(x, 0)>>)
  BY <1>5
<1>8. CloseFirst(CloseMsgs(x) \o <<OpenMsg(x, 0)>>)
  BY Zenon, <1>1, <1>3, <1>6, <1>7, CloseFirstConcat
<1>9. Kinds(CloseMsgs(x) \o <<OpenMsg(x, 0)>>)
        = Kinds(CloseMsgs(x)) \union Kinds(<<OpenMsg(x, 0)>>)
  BY Zenon, <1>1, <1>3, KindsConcat
<1> QED
  BY <1>5, <1>6, <1>8, <1>9

LEMMA ResettingPair ==
  ASSUME SessionInv, PairsOK, Drained, NEW x \in Ends, Opens(x, CloseMsgs(x))
  PROVE  PairsOK'
<1> DEFINE O == CloseMsgs(x) \o <<OpenMsg(x, 0)>>
<1>1. Out(x) = <<>> /\ Kinds(Out(x)) = {} /\ Kinds(Out(Other[x])) = {}
  BY DrainedOut
<1>2. CASE Moves(x, "OPENWAIT", 1, 0, CloseMsgs(x) \o <<OpenMsg(x, 0)>>, FALSE)
  <2>1. CloseFirst(O) /\ Kinds(O) \subseteq {"CLOSE", "OPEN"}
    BY Zenon, CloseOpenKinds
  <2>2. Moves(x, "OPENWAIT", 1, 0, O, FALSE)
    BY Zenon, <1>2
  <2> HIDE DEF O
  <2>3. WarnedAt("OPENWAIT", 0, Kinds(O), session_state[Other[x]], {})
    BY DEF WarnedAt, Quiet
  <2>4. WarnedAt(session_state[Other[x]], recv_seq_num[Other[x]], {}, "OPENWAIT", Kinds(O))
    BY <2>1 DEF WarnedAt, RouteTypes
  <2> QED
    BY Zenon, <1>1, <2>1, <2>2, <2>3, <2>4, DrainedPair
<1>3. CASE Moves(x, "ACTIVE", 0, 0, <<>>, FALSE)
  <2>1. CloseFirst(<<>>) /\ Kinds(<<>>) = {}
    BY Zenon, KindsEmpty
  <2>2. WarnedAt("ACTIVE", 0, {}, session_state[Other[x]], {})
    BY DEF WarnedAt
  <2>3. WarnedAt(session_state[Other[x]], recv_seq_num[Other[x]], {}, "ACTIVE", {})
    BY DEF WarnedAt
  <2> QED
    BY Zenon, <1>1, <1>3, <2>1, <2>2, <2>3, DrainedPair
<1> QED
  BY Zenon, <1>2, <1>3 DEF Opens

LEMMA TellingPair ==
  ASSUME SessionInv, PairsOK, Drained, NEW x \in Ends, NEW snd, NEW rcv, NEW msgs,
         session_state[x] = "ESTABLISHED", Kinds(msgs) \subseteq RouteTypes,
         Moves(x, session_state[x], snd, rcv, msgs, FALSE)
  PROVE  PairsOK'
<1>0. Other[x] \in Ends /\ Other[Other[x]] = x
  OBVIOUS
<1>1. Out(x) = <<>> /\ Kinds(Out(x)) = {} /\ Kinds(Out(Other[x])) = {}
  BY DrainedOut
<1>2. CloseFirst(msgs)
  BY KindsDiffer DEF Kinds, CloseFirst
<1>3. WarnedAt(session_state[x], rcv, Kinds(msgs), session_state[Other[x]], {})
  BY DEF WarnedAt, Quiet
<1>4. Warned(Other[x])
  BY Zenon, <1>0 DEF PairsOK
<1>5. WarnedAt(session_state[Other[x]], recv_seq_num[Other[x]], {}, session_state[x],
               Kinds(msgs))
  BY <1>0, <1>1, <1>4, KindsDiffer DEF Warned, WarnedAt
<1> QED
  BY Zenon, <1>1, <1>2, <1>3, <1>5, DrainedPair

LEMMA CommandSafe ==
  ASSUME SafeInv, NEW x \in Ends, ScriptCommand(x)
  PROVE  SafeInv'
<1>1. SessionInv /\ OnRoute /\ PairsOK /\ Running
  BY Zenon DEF SafeInv
<1>2. Command(x)
  BY Zenon DEF ScriptCommand, Command
<1>3. SessionInv'
  BY Zenon, <1>1, <1>2, CommandOK
<1>4. faults' = faults /\ unscanned' = {} /\ UNCHANGED <<route, broken>>
  BY Zenon DEF ScriptCommand, OpenSession, CloseSession, ResetSession, Disseminate
<1>5. CASE OpenSession(x)
  <2>1. OpenAfter(x, <<>>) /\ Quiet(session_state[x])
    BY Zenon, <1>5 DEF OpenSession, Quiet
  <2>2. Opens(x, <<>>)
    BY Zenon, <1>1, <1>4, <2>1, OpenMoves, EmptyOK
  <2>3. PairsOK'
    BY Zenon, <1>1, <2>1, <2>2, OpeningPair
  <2>4. OnRoute'
    BY Zenon, <2>2 DEF Opens, Moves, Posted
  <2> QED
    BY Zenon, <1>1, <1>3, <1>4, <2>3, <2>4 DEF SafeInv, Running
<1>6. CASE Drained /\ CloseSession(x)
  <2>1. Become(x, "IDLE", 0, 0, FALSE, 0) /\ queue' = Queued(x, CloseMsgs(x))
    BY Zenon, <1>6 DEF CloseSession
  <2>2. Moves(x, "IDLE", 0, 0, CloseMsgs(x), FALSE)
    BY Zenon, <1>1, <1>4, <2>1, CloseMoves
  <2>3. "IDLE" \in {"IDLE", "ACTIVE"}
    OBVIOUS
  <2>4. PairsOK'
    BY Zenon, <1>1, <1>6, <2>2, <2>3, ClosingPair
  <2>5. OnRoute'
    BY Zenon, <2>2 DEF Moves, Posted
  <2> QED
    BY Zenon, <1>1, <1>3, <1>4, <2>4, <2>5 DEF SafeInv, Running
<1>7. CASE Drained /\ ResetSession(x)
  <2>1. OpenAfter(x, CloseMsgs(x))
    BY Zenon, <1>7 DEF ResetSession
  <2>2. Opens(x, CloseMsgs(x))
    BY Zenon, <1>1, <1>4, <2>1, OpenMoves, CloseMsgsOK
  <2>3. PairsOK'
    BY Zenon, <1>1, <1>7, <2>2, ResettingPair
  <2>4. OnRoute'
    BY Zenon, <2>2 DEF Opens, Moves, Posted
  <2> QED
    BY Zenon, <1>1, <1>3, <1>4, <2>3, <2>4 DEF SafeInv, Running
<1>8. ASSUME Drained, NEW burst \in Bursts(x), Disseminate(x, burst)
      PROVE  SafeInv'
  <2> DEFINE N == Numbered(burst, send_seq_num[x], incarnation[x])
             n == send_seq_num[x] + Len(burst)
  <2>1. Moves(x, session_state[x], n, recv_seq_num[x], N, FALSE)
    BY Zenon, <1>1, <1>8, TellMoves
  <2>2. burst \in Seq(Adverts)
    BY Zenon, BurstsType
  <2>3. Kinds(N) \subseteq RouteTypes
    BY Zenon, <2>2, KindsNumbered
  <2>4. session_state[x] = "ESTABLISHED"
    BY Zenon, <1>8 DEF Disseminate
  <2> HIDE DEF N, n
  <2>5. PairsOK'
    BY Zenon, <1>1, <1>8, <2>1, <2>3, <2>4, TellingPair
  <2>6. OnRoute'
    BY Zenon, <2>1 DEF Moves, Posted
  <2> QED
    BY Zenon, <1>1, <1>3, <1>4, <2>5, <2>6 DEF SafeInv, Running
<1> QED
  BY Zenon, <1>5, <1>6, <1>7, <1>8 DEF ScriptCommand

-----------------------------------------------------------------------------
(* Rescanning.                                                             *)

(* An end that has not been rescanned and gives up its session.            *)
LEMMA GivingUpPair ==
  ASSUME SessionInv, PairsOK, NEW x \in Ends, Out(x) = <<>>, Rescanned(Other[x]),
         Moves(x, "ACTIVE", 0, 0, CloseMsgs(x), FALSE)
  PROVE  PairsOK'
<1> DEFINE y == Other[x]
           ky == Kinds(Out(y))
<1>1. Posted(x, CloseMsgs(x), FALSE) /\ MsgsOK(CloseMsgs(x))
  BY Zenon DEF Moves
<1>2. CloseFirst(CloseMsgs(x)) /\ Kinds(CloseMsgs(x)) \subseteq {"CLOSE"}
  BY KindsClose, KindsEmpty
<1>3. Kinds(Out(x)) = {}
  BY KindsEmpty
<1>4. Kinds(Out(x)') \subseteq {"CLOSE"} /\ CloseFirst(Out(x)')
  BY Zenon, <1>1, <1>2, <1>3, SentKinds
<1>5. CloseFirst(Out(y))
  BY DEF PairsOK
<1>6. Kinds(Out(y)') \subseteq ky
  BY Zenon, <1>1, <1>5, TakenKinds
<1>7. \/ ky = {}
      \/ ky = {"CLOSE"} /\ session_state[y] = "ACTIVE"
      \/ ky = {"OPEN"} /\ session_state[y] = "OPENWAIT"
  BY Zenon, KindsEmpty DEF Rescanned
<1> HIDE DEF ky
<1>8. WarnedAt("ACTIVE", 0, {"CLOSE"}, session_state[y], ky)
  BY <1>7 DEF WarnedAt, RouteTypes
<1>9. WarnedAt(session_state[y], recv_seq_num[y], ky, "ACTIVE", {"CLOSE"})
  BY <1>7 DEF WarnedAt, RouteTypes, Quiet
<1> QED
  BY Zenon, <1>4, <1>6, <1>8, <1>9, PairStep DEF y

(* What the rescan of x leaves in flight.                                  *)
LEMMA RescannedStep ==
  ASSUME SessionInv, NEW x \in Ends, \A p \in Ends : Rescanned(p),
         unscanned' = unscanned \ {x}, NEW state, NEW snd, NEW rcv, NEW msgs,
         Moves(x, state, snd, rcv, msgs, FALSE), Out(x) = <<>>,
         \/ msgs = <<>>
         \/ Kinds(msgs) = {"CLOSE"} /\ state = "ACTIVE"
         \/ Kinds(msgs) = {"OPEN"} /\ state = "OPENWAIT"
  PROVE  \A p \in Ends : Rescanned(p)'
<1>1. Rescanned(x)'
  <2>0. x \notin unscanned' /\ session_state'[x] = state /\ msgs \in Seq(Messages)
    BY DEF Moves, MsgsOK
  <2>1. Out(x)' = <<>> \/ Out(x)' = msgs
    BY <2>0 DEF Moves, Posted
  <2> QED
    BY Zenon, <2>0, <2>1 DEF Rescanned
<1>2. ASSUME NEW p \in Ends, p # x
      PROVE  Rescanned(p)'
  <2>1. Out(p)' = Out(p)
    BY Zenon, <1>2 DEF Moves, Posted
  <2>2. session_state'[p] = session_state[p]
    BY <1>2 DEF Moves, OthersKeep
  <2>3. p \notin unscanned => p \notin unscanned'
    OBVIOUS
  <2>4. Rescanned(p)
    OBVIOUS
  <2> QED
    BY Zenon, <2>1, <2>2, <2>3, <2>4 DEF Rescanned
<1> QED
  BY Zenon, <1>1, <1>2

LEMMA RescanSafe ==
  ASSUME SafeInv, NEW x \in Ends, Rescan(x)
  PROVE  SafeInv'
<1>1. /\ SessionInv /\ OnRoute /\ PairsOK /\ Running
      /\ unscanned \subseteq Ends /\ x \in unscanned
      /\ \A p \in Ends : Rescanned(p)
  BY DEF SafeInv, Rescan
<1>2. unscanned' = unscanned \ {x} /\ unscanned' \subseteq Ends
  BY <1>1 DEF Rescan
<1>3. Out(x) = <<>>
  BY Zenon, <1>1 DEF Rescanned
<1>4. CASE Stays(x) /\ UNCHANGED vars
  <2>1. SessionInv'
    BY Zenon, <1>1, <1>4, StutterOK
  <2>2. UNCHANGED <<session_state, recv_seq_num, queue, route, broken, faults>>
    BY <1>4 DEF vars
  <2>3. \A p \in Ends : Out(p)' = Out(p)
    BY Zenon, <2>2 DEF Out
  <2>4. OnRoute'
    BY <1>1, <2>2 DEF OnRoute
  <2>5. Other \in [Ends -> Ends]
    OBVIOUS
  <2>6. PairsOK'
    <3> SUFFICES ASSUME NEW p \in Ends
                 PROVE  CloseFirst(Out(p))' /\ Warned(p)'
      BY Zenon DEF PairsOK
    <3>1. Other[p] \in Ends
      OBVIOUS
    <3>2. CloseFirst(Out(p)) /\ Warned(p)
      BY Zenon, <1>1 DEF PairsOK
    <3> QED
      BY Zenon, <2>2, <2>3, <3>1, <3>2 DEF Warned
  <2>7. \A p \in Ends : Rescanned(p)'
    <3> SUFFICES ASSUME NEW p \in Ends
                 PROVE  Rescanned(p)'
      OBVIOUS
    <3>1. Rescanned(p) /\ Out(p)' = Out(p) /\ (p \notin unscanned => p \notin unscanned')
      BY <1>1, <1>2, <2>3
    <3> QED
      BY Zenon, <2>2, <3>1 DEF Rescanned
  <2>8. Running'
    BY Zenon, <1>1, <2>2 DEF Running
  <2> QED
    BY Zenon, <1>2, <2>1, <2>4, <2>6, <2>7, <2>8 DEF SafeInv
<1>5. CASE RefreshSession(x)
  <2>1. SessionInv'
    BY Zenon, <1>1, <1>5, CommandOK DEF Command
  <2>2. UNCHANGED <<route, broken>> /\ faults' = faults
    BY Zenon, <1>5 DEF RefreshSession
  <2>3. Running'
    BY Zenon, <1>1, <2>2 DEF Running
  <2>4. CASE /\ InSession(session_state[x]) /\ Become(x, "ACTIVE", 0, 0, FALSE, 0)
             /\ queue' = Queued(x, CloseMsgs(x))
    <3>1. Moves(x, "ACTIVE", 0, 0, CloseMsgs(x), FALSE)
      BY Zenon, <1>1, <2>2, <2>4, CloseMoves
    <3>2. Rescanned(Other[x])
      BY <1>1
    <3>3. PairsOK'
      BY Zenon, <1>1, <1>3, <3>1, <3>2, GivingUpPair
    <3>4. Kinds(CloseMsgs(x)) = {"CLOSE"}
      BY Zenon, <2>4, KindsClose
    <3>5. \A p \in Ends : Rescanned(p)'
      BY Zenon, <1>1, <1>2, <1>3, <3>1, <3>4, RescannedStep
    <3>6. OnRoute'
      BY Zenon, <3>1 DEF Moves, Posted
    <3> QED
      BY Zenon, <1>2, <2>1, <2>3, <3>3, <3>5, <3>6 DEF SafeInv
  <2>5. CASE Quiet(session_state[x]) /\ OpenAfter(x, <<>>)
    <3>1. Opens(x, <<>>)
      BY Zenon, <1>1, <2>2, <2>5, OpenMoves, EmptyOK
    <3>2. PairsOK'
      BY Zenon, <1>1, <2>5, <3>1, OpeningPair
    <3>3. OnRoute'
      BY Zenon, <3>1 DEF Opens, Moves, Posted
    <3>4. \A p \in Ends : Rescanned(p)'
      <4> DEFINE O == <<>> \o <<OpenMsg(x, 0)>>
      <4>1. O = <<OpenMsg(x, 0)>> /\ OpenMsg(x, 0).type = "OPEN"
        BY DEF OpenMsg, Control
      <4>2. Kinds(O) = {"OPEN"}
        BY Zenon, <4>1, KindsSingle
      <4>3. \/ Moves(x, "OPENWAIT", 1, 0, O, FALSE)
            \/ Moves(x, "ACTIVE", 0, 0, <<>>, FALSE)
        BY Zenon, <3>1 DEF Opens
      <4> HIDE DEF O
      <4> QED
        BY Zenon, <1>1, <1>2, <1>3, <4>2, <4>3, RescannedStep
    <3> QED
      BY Zenon, <1>2, <2>1, <2>3, <3>2, <3>3, <3>4 DEF SafeInv
  <2> QED
    BY Zenon, <1>5, <2>4, <2>5 DEF RefreshSession, InSession, Quiet
<1> QED
  BY Zenon, <1>4, <1>5 DEF Rescan

(* The topology changes when there is no message.                          *)
LEMMA TopologySafe ==
  ASSUME SafeInv, NEW P \in Directions, NEW r \in Paths \union {NoRoute},
         ScriptTopology(P, r)
  PROVE  SafeInv'
<1>1. /\ SessionInv /\ OnRoute /\ PairsOK /\ Running /\ Drained
      /\ unscanned' = Ends /\ queue' = queue /\ broken' = broken /\ faults' = faults
      /\ route' = [p \in Ends |-> IF p \in P THEN r ELSE route[p]]
      /\ UNCHANGED <<session_state, send_seq_num, recv_seq_num, router_id,
                     incarnation, accepted>>
  BY DEF SafeInv, ScriptTopology, SessionUnchanged
<1>2. route' \in [Ends -> Paths \union {NoRoute}]
  BY <1>1 DEF SessionInv, TypeOK
<1>3. SessionInv'
  <2>1. QueueOK(queue')
    BY Zenon, <1>1, QueueInv
  <2>2. /\ broken' \in [Ends -> SUBSET Paths] /\ faults' \subseteq Outcomes
        /\ "open_in_established" \notin faults'
    BY Zenon, <1>1 DEF SessionInv, TypeOK, NoOpenInEstablished
  <2> QED
    BY Zenon, <1>1, <1>2, <2>1, <2>2, QueueStepOK
<1>4. \A p \in Ends : Out(p) = <<>> /\ \A v \in Paths : queue[p][v] = <<>>
  BY Zenon, <1>1, DrainedOut
<1>5. \A p \in Ends : Out(p)' = <<>>
  BY <1>1, <1>2, <1>4 DEF Out
<1>6. OnRoute'
  BY Zenon, <1>1, <1>4 DEF OnRoute
<1>7. PairsOK'
  <2> SUFFICES ASSUME NEW p \in Ends
               PROVE  CloseFirst(Out(p))' /\ Warned(p)'
    BY Zenon DEF PairsOK
  <2>1. Other[p] \in Ends
    OBVIOUS
  <2>2. Warned(p) /\ Out(p) = <<>> /\ Out(Other[p]) = <<>>
    BY Zenon, <1>1, <1>4, <2>1 DEF PairsOK
  <2>3. Out(p)' = <<>> /\ Out(Other[p])' = <<>>
    BY Zenon, <1>5, <2>1
  <2>4. Warned(p)'
    BY Zenon, <1>1, <2>2, <2>3 DEF Warned
  <2> QED
    BY Zenon, <2>3, <2>4, KindsEmpty
<1>8. \A p \in Ends : Rescanned(p)'
  BY Zenon, <1>5 DEF Rescanned
<1>9. Running' /\ unscanned' \subseteq Ends
  BY Zenon, <1>1 DEF Running
<1> QED
  BY Zenon, <1>3, <1>6, <1>7, <1>8, <1>9 DEF SafeInv

-----------------------------------------------------------------------------
(* Handling a message.                                                     *)

(* What PairsOK says of the two ends of x's peering.                       *)
LEMMA PairFacts ==
  ASSUME PairsOK, NEW x \in Ends
  PROVE  /\ Other[x] \in Ends /\ CloseFirst(Out(x)) /\ CloseFirst(Out(Other[x]))
         /\ WarnedAt(session_state[x], recv_seq_num[x], Kinds(Out(x)),
                     session_state[Other[x]], Kinds(Out(Other[x])))
         /\ WarnedAt(session_state[Other[x]], recv_seq_num[Other[x]],
                     Kinds(Out(Other[x])), session_state[x], Kinds(Out(x)))
<1>1. Other[x] \in Ends /\ Other[Other[x]] = x
  OBVIOUS
<1> QED
  BY Zenon, <1>1 DEF PairsOK, Warned

(* x becomes, or stays, ESTABLISHED, when the other end has not been       *)
(* warned, and answers without a CLOSE.                                    *)
LEMMA EstablishedPair ==
  ASSUME SessionInv, PairsOK, NEW x \in Ends, NEW snd, NEW rcv, NEW msgs,
         Moves(x, "ESTABLISHED", snd, rcv, msgs, TRUE), Out(Other[x]) # <<>>,
         "CLOSE" \notin Kinds(msgs),
         session_state[x] = "ESTABLISHED" \/ "OPEN" \in Kinds(Out(Other[x]))
  PROVE  PairsOK'
<1> DEFINE y == Other[x]
           kx == Kinds(Out(x)) \union Kinds(msgs)
           ky == Kinds(Out(y))
<1>1. /\ CloseFirst(Out(x)) /\ CloseFirst(Out(y))
      /\ WarnedAt(session_state[y], recv_seq_num[y], ky, session_state[x], Kinds(Out(x)))
  BY Zenon, PairFacts
<1>2. Posted(x, msgs, TRUE) /\ MsgsOK(msgs)
  BY Zenon DEF Moves
<1>3. Kinds(Out(x)') \subseteq kx /\ CloseFirst(Out(x)')
  BY Zenon, <1>1, <1>2, SentKinds
<1>4. Kinds(Out(y)') \subseteq ky
  BY Zenon, <1>1, <1>2, TakenKinds
<1>5. WarnedAt("ESTABLISHED", rcv, kx, session_state[y], ky)
  BY Zenon, KindsDiffer DEF WarnedAt
<1>6. WarnedAt(session_state[y], recv_seq_num[y], ky, "ESTABLISHED", kx)
  BY <1>1 DEF WarnedAt
<1> HIDE DEF kx, ky
<1> QED
  BY Zenon, <1>3, <1>4, <1>5, <1>6, PairStep DEF y

(* x takes a message and neither opens nor answers.                        *)
LEMMA SilentPair ==
  ASSUME SessionInv, PairsOK, NEW x \in Ends, NEW state, NEW snd, NEW rcv,
         Moves(x, state, snd, rcv, <<>>, TRUE), Out(Other[x]) # <<>>,
         NEW ky, Kinds(Out(Other[x])') \subseteq ky,
         WarnedAt(state, rcv, Kinds(Out(x)), session_state[Other[x]], ky),
         WarnedAt(session_state[Other[x]], recv_seq_num[Other[x]], ky, state,
                  Kinds(Out(x)))
  PROVE  PairsOK'
<1>1. Posted(x, <<>>, TRUE) /\ MsgsOK(<<>>) /\ Kinds(<<>>) = {} /\ CloseFirst(Out(x))
  BY Zenon, KindsEmpty, PairFacts DEF Moves
<1>2. Kinds(Out(x)') \subseteq Kinds(Out(x)) /\ CloseFirst(Out(x)')
  BY Zenon, <1>1, SentKinds
<1> QED
  BY Zenon, <1>2, PairStep

LEMMA AnswerKinds ==
  ASSUME SessionInv, NEW x \in Ends, NEW burst \in Bursts(x)
  PROVE  /\ "CLOSE" \notin Kinds(RouteAnswer(x, burst))
         /\ Quiet(session_state[x]) => "CLOSE" \notin Kinds(OpenAnswer(x, burst))
<1>1. burst \in Seq(Adverts)
  BY Zenon, BurstsType
<1>2. "CLOSE" \notin Kinds(RouteAnswer(x, burst))
  BY <1>1, KindsNumbered, KindsDiffer DEF RouteAnswer
<1>3. ASSUME Quiet(session_state[x])
      PROVE  "CLOSE" \notin Kinds(OpenAnswer(x, burst))
  <2> DEFINE O == <<OpenMsg(x, send_seq_num[x])>>
             N == Numbered(burst, send_seq_num[x] + 1, incarnation[x] + 1)
  <2>1. send_seq_num[x] = 0 /\ incarnation[x] \in Nat
    BY <1>3, EndOK DEF StateOK, Quiet
  <2>2. O \in Seq(Messages)
    BY Zenon, <2>1, OpenMsgOK DEF MsgsOK
  <2>3. N \in Seq(Messages)
    <3>1. /\ send_seq_num[x] + 1 \in Nat /\ send_seq_num[x] + 1 > 0
          /\ incarnation[x] + 1 \in Nat
      BY <2>1
    <3> QED
      BY Zenon, <1>1, <3>1, NumberedOK DEF MsgsOK
  <2>4. OpenMsg(x, send_seq_num[x]).type = "OPEN"
    BY DEF OpenMsg, Control
  <2>5. Kinds(O) = {"OPEN"}
    BY Zenon, <2>4, KindsSingle
  <2>6. Kinds(N) \subseteq RouteTypes
    BY Zenon, <1>1, KindsNumbered
  <2>7. OpenAnswer(x, burst) = O \o N
    BY Zenon DEF OpenAnswer
  <2> HIDE DEF O, N
  <2>8. Kinds(O \o N) = Kinds(O) \union Kinds(N)
    BY Zenon, <2>2, <2>3, KindsConcat
  <2> QED
    BY <2>5, <2>6, <2>7, <2>8, KindsDiffer
<1> QED
  BY Zenon, <1>2, <1>3

(* The handler of the OPEN aborts.                                         *)
OpenMeetsIdle(x, v) ==
  session_state[x] = "IDLE" /\ \E burst \in Bursts(x) : ReceiveOpen(x, v, burst)

LEMMA HandlePair ==
  ASSUME SessionInv, OnRoute, PairsOK, NEW x \in Ends, NEW v \in Paths,
         HandleMessage(x, v), ~OpenMeetsIdle(x, v)
  PROVE  PairsOK' /\ OnRoute' /\ faults' \subseteq faults \union {"out_of_seq"}
<1> DEFINE y == Other[x]
<1>0. /\ CloseFirst(Out(x)) /\ CloseFirst(Out(y))
      /\ WarnedAt(session_state[x], recv_seq_num[x], Kinds(Out(x)),
                  session_state[y], Kinds(Out(y)))
      /\ WarnedAt(session_state[y], recv_seq_num[y], Kinds(Out(y)),
                  session_state[x], Kinds(Out(x)))
  BY Zenon, PairFacts
<1>1. CASE ReceiveOutOfSeq(x, v)
  <2>1. /\ Out(y) # <<>> /\ faults' = faults \union {"out_of_seq"}
        /\ Moves(x, session_state[x], send_seq_num[x], recv_seq_num[x], <<>>, TRUE)
    BY Zenon, <1>1, OutOfSeqMoves
  <2>2. Posted(x, <<>>, TRUE) /\ OnRoute'
    BY Zenon, <2>1 DEF Moves, Posted
  <2>3. Kinds(Out(y)') \subseteq Kinds(Out(y))
    BY Zenon, <1>0, <2>1, <2>2, TakenKinds
  <2>4. PairsOK'
    BY Zenon, <1>0, <2>1, <2>3, SilentPair
  <2> QED
    BY Zenon, <2>1, <2>2, <2>4
<1>2. ASSUME NEW burst \in Bursts(x), ReceiveOpen(x, v, burst)
      PROVE  PairsOK' /\ OnRoute' /\ faults' \subseteq faults \union {"out_of_seq"}
  <2> DEFINE n1 == send_seq_num[x] + 1 + Len(burst)
             n2 == send_seq_num[x] + Len(burst)
             r == recv_seq_num[x] + 1
  <2>1. /\ Out(y) # <<>> /\ "OPEN" \in Kinds(Out(y)) /\ faults' = faults
        /\ \/ /\ session_state[x] = "ACTIVE"
              /\ Moves(x, "ESTABLISHED", n1, r, OpenAnswer(x, burst), TRUE)
           \/ /\ session_state[x] = "OPENWAIT"
              /\ Moves(x, "ESTABLISHED", n2, r, RouteAnswer(x, burst), TRUE)
    BY Zenon, <1>2, OpenRcvdMoves DEF OpenMeetsIdle
  <2> HIDE DEF n1, n2, r
  <2>2. OnRoute'
    BY Zenon, <2>1 DEF Moves, Posted
  <2>3. CASE /\ session_state[x] = "ACTIVE"
             /\ Moves(x, "ESTABLISHED", n1, r, OpenAnswer(x, burst), TRUE)
    <3>1. "CLOSE" \notin Kinds(OpenAnswer(x, burst))
      BY Zenon, <2>3, AnswerKinds, KindsDiffer
    <3> QED
      BY Zenon, <2>1, <2>2, <2>3, <3>1, EstablishedPair
  <2>4. CASE Moves(x, "ESTABLISHED", n2, r, RouteAnswer(x, burst), TRUE)
    <3>1. "CLOSE" \notin Kinds(RouteAnswer(x, burst))
      BY Zenon, AnswerKinds
    <3> QED
      BY Zenon, <2>1, <2>2, <2>4, <3>1, EstablishedPair
  <2> QED
    BY Zenon, <2>1, <2>3, <2>4
<1>3. CASE ReceiveClose(x, v)
  <2>1. /\ Out(y) # <<>> /\ "CLOSE" \in Kinds(Out(y)) /\ faults' = faults
        /\ \/ /\ InSession(session_state[x])
              /\ Moves(x, "ACTIVE", 0, 0, <<>>, TRUE)
           \/ /\ Quiet(session_state[x])
              /\ Moves(x, session_state[x], send_seq_num[x], recv_seq_num[x] + 1,
                       <<>>, TRUE)
    BY Zenon, <1>3, CloseRcvdMoves
  <2>2. Posted(x, <<>>, TRUE) /\ OnRoute'
    BY Zenon, <2>1 DEF Moves, Posted
  <2>3. Kinds(Out(y)') \subseteq Kinds(Out(y)) /\ "CLOSE" \notin Kinds(Out(y)')
    BY Zenon, <1>0, <2>1, <2>2, TakenKinds
  <2>4. CASE Moves(x, "ACTIVE", 0, 0, <<>>, TRUE)
    <3> DEFINE ky == Kinds(Out(y)) \ {"CLOSE"}
    <3>1. Kinds(Out(y)') \subseteq ky
      BY <2>3
    <3>2. WarnedAt("ACTIVE", 0, Kinds(Out(x)), session_state[y], ky)
      BY DEF WarnedAt
    <3>3. WarnedAt(session_state[y], recv_seq_num[y], ky, "ACTIVE", Kinds(Out(x)))
      BY <1>0 DEF WarnedAt
    <3> HIDE DEF ky
    <3>4. PairsOK'
      BY Zenon, <2>1, <2>4, <3>1, <3>2, <3>3, SilentPair
    <3> QED
      BY Zenon, <2>1, <2>2, <3>4
  <2>5. CASE /\ Quiet(session_state[x])
             /\ Moves(x, session_state[x], send_seq_num[x], recv_seq_num[x] + 1,
                      <<>>, TRUE)
    <3> DEFINE r == recv_seq_num[x] + 1
    <3>1. WarnedAt(session_state[x], r, Kinds(Out(x)), session_state[y], Kinds(Out(y)))
      BY Zenon, <1>0, <2>1, <2>5 DEF WarnedAt
    <3> HIDE DEF r
    <3>2. PairsOK'
      BY Zenon, <1>0, <2>1, <2>3, <2>5, <3>1, SilentPair DEF r
    <3> QED
      BY Zenon, <2>1, <2>2, <3>2
  <2> QED
    BY Zenon, <2>1, <2>4, <2>5
<1>4. ASSUME NEW burst \in Bursts(x), ReceiveRoute(x, v, burst)
      PROVE  PairsOK' /\ OnRoute' /\ faults' \subseteq faults \union {"out_of_seq"}
  <2> DEFINE n == send_seq_num[x] + Len(burst)
             r == recv_seq_num[x] + 1
  <2>0. Warned(x)
    BY Zenon DEF PairsOK
  <2>1. /\ Out(y) # <<>> /\ session_state[x] = "ESTABLISHED" /\ faults' = faults
        /\ Moves(x, "ESTABLISHED", n, r, RouteAnswer(x, burst), TRUE)
    BY Zenon, <1>4, <2>0, RouteRcvdMoves
  <2> HIDE DEF n, r
  <2>2. OnRoute'
    BY Zenon, <2>1 DEF Moves, Posted
  <2>3. "CLOSE" \notin Kinds(RouteAnswer(x, burst))
    BY Zenon, AnswerKinds
  <2> QED
    BY Zenon, <2>1, <2>2, <2>3, EstablishedPair
<1> QED
  BY Zenon, <1>1, <1>2, <1>3, <1>4 DEF HandleMessage

LEMMA SimSafe ==
  ASSUME SafeInv, ScriptSimStep,
         \A x \in Ends, v \in Paths : ~OpenMeetsIdle(x, v)
  PROVE  SafeInv'
<1>1. /\ SessionInv /\ OnRoute /\ PairsOK /\ Running
      /\ unscanned' = {}
  BY Zenon DEF SafeInv, ScriptSimStep
<1>2. PICK x \in Ends, v \in Paths : HandleMessage(x, v)
  BY Zenon DEF ScriptSimStep, SimStep
<1>4. PairsOK' /\ OnRoute' /\ faults' \subseteq faults \union {"out_of_seq"}
  BY Zenon, <1>1, <1>2, HandlePair
<1>5. SessionInv'
  BY Zenon, <1>1, <1>2, OutOfSeqOK, OpenRcvdOK, CloseRcvdOK, RouteRcvdOK
  DEF HandleMessage
<1>6. Running'
  BY <1>1, <1>4 DEF Running, Aborts
<1>7. unscanned' \subseteq Ends
  BY <1>1
<1> QED
  BY Zenon, <1>1, <1>4, <1>5, <1>6, <1>7 DEF SafeInv

LEMMA SafeInit == ScriptInit => SafeInv
<1> SUFFICES ASSUME ScriptInit PROVE SafeInv
  OBVIOUS
<1>1. Init /\ unscanned = {}
  BY Zenon DEF ScriptInit
<1>2. SessionInv
  BY Zenon, <1>1, InitOK
<1>3. Drained
  BY <1>1 DEF Init, Drained, InFlight
<1>4. OnRoute /\ Running
  BY <1>1 DEF Init, OnRoute, Running
<1>5. PairsOK
  <2> SUFFICES ASSUME NEW p \in Ends
               PROVE  CloseFirst(Out(p)) /\ Warned(p)
    BY Zenon DEF PairsOK
  <2>1. Out(p) = <<>> /\ Kinds(Out(p)) = {} /\ Kinds(Out(Other[p])) = {}
    BY <1>2, <1>3, DrainedOut
  <2>2. session_state[Other[p]] = "IDLE"
    BY <1>1 DEF Init
  <2>3. Warned(p)
    BY <2>1, <2>2 DEF Warned, WarnedAt
  <2> QED
    BY Zenon, <2>1, <2>3, KindsEmpty
<1>6. unscanned \subseteq Ends
  BY <1>1
<1> QED
  BY Zenon, <1>1, <1>2, <1>4, <1>5, <1>6 DEF SafeInv

(* sim run ends with the abort() of an OPEN that meets an IDLE end.        *)
StopStep ==
  ScriptSimStep /\ \E x \in Ends, v \in Paths : OpenMeetsIdle(x, v)

LEMMA SafeNext ==
  ASSUME SafeInv, [ScriptNext]_scriptVars, ~StopStep
  PROVE  SafeInv'
<1>1. CASE ScriptNext
  BY Zenon, <1>1, CommandSafe, RescanSafe, TopologySafe, SimSafe DEF ScriptNext, StopStep
<1>2. CASE UNCHANGED scriptVars
  <2>1. /\ UNCHANGED vars /\ unscanned' = unscanned
        /\ UNCHANGED <<session_state, recv_seq_num, queue, route, broken, faults>>
    BY <1>2 DEF scriptVars, vars
  <2>2. SessionInv'
    BY Zenon, <2>1, StutterOK DEF SafeInv
  <2> QED
    BY Zenon, <2>1, <2>2 DEF SafeInv, OnRoute, Running, PairsOK, Warned, Rescanned, Out
<1> QED
  BY <1>1, <1>2

-----------------------------------------------------------------------------
(* The invariant of the scripts in which both directions fail and recover  *)
(* together.                                                               *)

(* s, under way between an end that has used the numbers below snd and one *)
(* that expects rcv, is what the latter expects, in order.                 *)
Follows(s, n) ==
  \A k \in 1..Len(s) : s[k].seq_num = n + (k - 1) /\ s[k].type # "CLOSE"

SyncAt(snd, rcv, s) == snd = rcv + Len(s) /\ Follows(s, rcv)

(* An end has closed the session, and perhaps opened the next one; the     *)
(* other end does not know yet.                                            *)
ClosingAt(state, snd, rcv, s, otherState, t) ==
  /\ otherState = "ESTABLISHED" /\ t = <<>>
  /\ rcv = 0 /\ s # <<>> /\ s[1].type = "CLOSE"
  /\ \/ state = "IDLE" /\ Len(s) = 1
     \/ state = "OPENWAIT" /\ Len(s) = 2 /\ snd = 1 /\ s[2].type = "OPEN"

(* The values are those of the two ends of a peering.                      *)
PairAt(s1, n1, r1, o1, s2, n2, r2, o2) ==
  \/ SyncAt(n2, r1, o2) /\ SyncAt(n1, r2, o1)
  \/ ClosingAt(s1, n1, r1, o1, s2, o2)
  \/ ClosingAt(s2, n2, r2, o2, s1, o1)

InSync(p) == SyncAt(send_seq_num[Other[p]], recv_seq_num[p], Out(Other[p]))

PairOK(p) ==
  PairAt(session_state[p], send_seq_num[p], recv_seq_num[p], Out(p),
         session_state[Other[p]], send_seq_num[Other[p]], recv_seq_num[Other[p]],
         Out(Other[p]))

BothActive(p) == session_state[p] = "ACTIVE" /\ session_state[Other[p]] = "ACTIVE"

(* With routes, only ends that are to be rescanned both wait for the other *)
(* to open.                                                                *)
JointUp ==
  /\ \A p \in Ends : route[p] # NoRoute /\ PairOK(p)
  /\ unscanned # {} => \A p \in Ends : InSync(p)
  /\ \A p \in Ends : BothActive(p) => p \in unscanned

(* Without, an end that has been rescanned has given up.                   *)
JointDown ==
  /\ \A p \in Ends : route[p] = NoRoute
  /\ unscanned = Ends => \A p \in Ends : InSync(p)
  /\ \A p \in Ends \ unscanned : Quiet(session_state[p])

QuietExpectsOpen ==
  \A p \in Ends : Quiet(session_state[p]) => recv_seq_num[p] = 0

JointInv == faults = {} /\ QuietExpectsOpen /\ (JointUp \/ JointDown)

(* Only an end that is up has an OPEN under way.                           *)
OpenerIsUp ==
  \A p \in Ends : "OPEN" \in Kinds(Out(p)) => session_state[p] # "IDLE"

(* The run has ended.                                                      *)
Stopped ==
  /\ faults \cap Aborts = {"open_in_idle"} /\ unscanned = {} /\ ~Drained
  /\ ~oneway => faults = {"open_in_idle"}
  /\ \E p \in Ends : session_state[p] = "IDLE" /\ session_state[Other[p]] # "IDLE"

ScriptInv ==
  \/ SafeInv /\ OpenerIsUp /\ (~oneway => JointInv)
  \/ Stopped

-----------------------------------------------------------------------------
(* Numbers that follow each other.                                         *)

LEMMA SyncEmpty ==
  ASSUME NEW n \in Nat
  PROVE  SyncAt(n, n, <<>>)
BY DEF SyncAt, Follows

LEMMA SyncSend ==
  ASSUME NEW s \in Seq(Messages), NEW t \in Seq(Messages), NEW n \in Nat, NEW r \in Nat,
         SyncAt(n, r, s), Follows(t, n)
  PROVE  SyncAt(n + Len(t), r, s \o t)
<1>1. /\ Len(s) \in Nat /\ Len(t) \in Nat /\ Len(s \o t) = Len(s) + Len(t)
      /\ n = r + Len(s)
  BY DEF SyncAt, Follows
<1>2. ASSUME NEW k \in 1..Len(s \o t)
      PROVE  (s \o t)[k].seq_num = r + (k - 1) /\ (s \o t)[k].type # "CLOSE"
  <2>1. CASE k <= Len(s)
    <3>1. k \in 1..Len(s) /\ (s \o t)[k] = s[k]
      BY <1>1, <2>1
    <3> QED
      BY Zenon, <3>1 DEF SyncAt, Follows
  <2>2. CASE k > Len(s)
    <3>1. k - Len(s) \in 1..Len(t) /\ (s \o t)[k] = t[k - Len(s)]
      BY <1>1, <2>2
    <3>2. t[k - Len(s)].seq_num = n + ((k - Len(s)) - 1) /\ t[k - Len(s)].type # "CLOSE"
      BY Zenon, <3>1 DEF Follows
    <3>3. n + ((k - Len(s)) - 1) = r + (k - 1)
      BY <1>1
    <3> QED
      BY Zenon, <3>1, <3>2, <3>3
  <2> QED
    BY <1>1, <2>1, <2>2
<1>3. n + Len(t) = r + Len(s \o t)
  BY <1>1
<1> QED
  BY Zenon, <1>2, <1>3 DEF SyncAt, Follows

LEMMA SyncTake ==
  ASSUME NEW s \in Seq(Messages), NEW n \in Nat, NEW r \in Nat, SyncAt(n, r, s), s # <<>>
  PROVE  SyncAt(n, r + 1, Tail(s)) /\ s[1].seq_num = r /\ s[1].type # "CLOSE"
<1>1. /\ Len(s) \in Nat /\ Len(s) > 0 /\ Len(Tail(s)) = Len(s) - 1
      /\ n = r + Len(s)
  BY DEF SyncAt, Follows
<1>2. \A k \in 1..Len(Tail(s)) : k + 1 \in 1..Len(s) /\ Tail(s)[k] = s[k + 1]
  OBVIOUS
<1>3. ASSUME NEW k \in 1..Len(Tail(s))
      PROVE  Tail(s)[k].seq_num = (r + 1) + (k - 1) /\ Tail(s)[k].type # "CLOSE"
  <2>1. s[k + 1].seq_num = r + ((k + 1) - 1) /\ s[k + 1].type # "CLOSE"
    BY Zenon, <1>2 DEF SyncAt, Follows
  <2>2. r + ((k + 1) - 1) = (r + 1) + (k - 1)
    OBVIOUS
  <2> QED
    BY Zenon, <1>2, <2>1, <2>2
<1>4. n = (r + 1) + Len(Tail(s))
  BY <1>1
<1>5. s[1].seq_num = r /\ s[1].type # "CLOSE"
  BY <1>1 DEF SyncAt, Follows
<1> QED
  BY Zenon, <1>3, <1>4, <1>5 DEF SyncAt, Follows

LEMMA SyncNothing ==
  ASSUME NEW s \in Seq(Messages), NEW n \in Nat, NEW r \in Nat, SyncAt(n, r, s)
  PROVE  /\ n = 0 => r = 0 /\ s = <<>>
         /\ s = <<>> => n = r
<1>1. Len(s) \in Nat /\ n = r + Len(s)
  BY DEF SyncAt, Follows
<1>2. n = 0 => r = 0 /\ Len(s) = 0
  BY <1>1
<1> QED
  BY <1>1, <1>2

LEMMA NumberedSync ==
  ASSUME NEW burst \in Seq(Adverts), NEW n \in Nat, NEW i
  PROVE  /\ Len(Numbered(burst, n, i)) = Len(burst)
         /\ Follows(Numbered(burst, n, i), n)
<1> DEFINE N == Numbered(burst, n, i)
<1>1. Len(N) = Len(burst)
  BY DEF Numbered
<1>2. \A k \in 1..Len(burst) :
        /\ N[k].type = burst[k].type /\ burst[k] \in Adverts
        /\ N[k].seq_num = n + (k - 1)
  BY DEF Numbered
<1> HIDE DEF N
<1>3. ASSUME NEW k \in 1..Len(N)
      PROVE  N[k].seq_num = n + (k - 1) /\ N[k].type # "CLOSE"
  <2>1. k \in 1..Len(burst)
    BY <1>1
  <2>2. burst[k].type \in RouteTypes
    BY Zenon, <1>2, <2>1
  <2>3. burst[k].type # "CLOSE"
    BY Zenon, <2>2, KindsDiffer
  <2> QED
    BY Zenon, <1>2, <2>1, <2>3
<1>4. Follows(N, n)
  BY Zenon, <1>3 DEF Follows
<1> QED
  BY Zenon, <1>1, <1>4 DEF N

LEMMA SyncTell ==
  ASSUME NEW s \in Seq(Messages), NEW n \in Nat, NEW r \in Nat, NEW i \in Nat,
         NEW burst \in Seq(Adverts), SyncAt(n, r, s), n > 0
  PROVE  SyncAt(n + Len(burst), r, s \o Numbered(burst, n, i))
<1> DEFINE N == Numbered(burst, n, i)
<1>1. N \in Seq(Messages)
  BY NumberedOK DEF MsgsOK
<1>2. Len(N) = Len(burst) /\ Follows(N, n)
  BY Zenon, NumberedSync
<1> HIDE DEF N
<1>3. SyncAt(n + Len(N), r, s \o N)
  BY Zenon, <1>1, <1>2, SyncSend
<1> QED
  BY Zenon, <1>2, <1>3 DEF N

LEMMA SyncOpen ==
  ASSUME SessionInv, NEW x \in Ends, NEW r \in Nat, NEW s \in Seq(Messages), SyncAt(0, r, s)
  PROVE  SyncAt(1, r, s \o <<OpenMsg(x, 0)>>)
<1> DEFINE O == <<OpenMsg(x, 0)>>
<1>1. O \in Seq(Messages)
  BY Zenon, OpenMsgOK DEF MsgsOK
<1>2. Len(O) = 1 /\ O[1].seq_num = 0 /\ O[1].type # "CLOSE"
  BY DEF OpenMsg, Control
<1> HIDE DEF O
<1>3. Follows(O, 0)
  BY <1>2 DEF Follows
<1>4. SyncAt(0 + Len(O), r, s \o O)
  BY <1>1, <1>3, SyncSend
<1> QED
  BY <1>2, <1>4 DEF O

-----------------------------------------------------------------------------
(* The routes are there.                                                   *)

LEMMA PairSymmetric ==
  ASSUME NEW s1, NEW n1, NEW r1, NEW o1, NEW s2, NEW n2, NEW r2, NEW o2,
         PairAt(s1, n1, r1, o1, s2, n2, r2, o2)
  PROVE  PairAt(s2, n2, r2, o2, s1, n1, r1, o1)
BY Zenon DEF PairAt

(* The other peerings see nothing of a step of x.                          *)
LEMMA OtherPairs ==
  ASSUME NEW x \in Ends, NEW state, NEW snd, NEW rcv, NEW msgs, NEW taken,
         Moves(x, state, snd, rcv, msgs, taken), NEW p \in Ends, p \notin {x, Other[x]}
  PROVE  /\ PairOK(p) => PairOK(p)'
         /\ InSync(p) => InSync(p)'
         /\ session_state'[p] = session_state[p] /\ recv_seq_num'[p] = recv_seq_num[p]
         /\ session_state'[Other[p]] = session_state[Other[p]]
<1>1. Other[p] \in Ends /\ Other[p] \notin {x, Other[x]}
  OBVIOUS
<1>2. Out(p)' = Out(p) /\ Out(Other[p])' = Out(Other[p])
  BY Zenon, <1>1 DEF Moves, Posted
<1>3. /\ session_state'[p] = session_state[p] /\ recv_seq_num'[p] = recv_seq_num[p]
      /\ send_seq_num'[p] = send_seq_num[p]
      /\ session_state'[Other[p]] = session_state[Other[p]]
      /\ send_seq_num'[Other[p]] = send_seq_num[Other[p]]
      /\ recv_seq_num'[Other[p]] = recv_seq_num[Other[p]]
  BY <1>1 DEF Moves, OthersKeep
<1>4. PairOK(p) => PairOK(p)'
  BY Zenon, <1>2, <1>3 DEF PairOK
<1>5. InSync(p) => InSync(p)'
  BY Zenon, <1>2, <1>3 DEF InSync
<1> QED
  BY Zenon, <1>3, <1>4, <1>5

LEMMA MovedEnds ==
  ASSUME NEW x \in Ends, NEW state, NEW snd, NEW rcv, NEW msgs, NEW taken,
         Moves(x, state, snd, rcv, msgs, taken)
  PROVE  /\ session_state'[x] = state /\ send_seq_num'[x] = snd /\ recv_seq_num'[x] = rcv
         /\ session_state'[Other[x]] = session_state[Other[x]]
         /\ send_seq_num'[Other[x]] = send_seq_num[Other[x]]
         /\ recv_seq_num'[Other[x]] = recv_seq_num[Other[x]]
         /\ route' = route
<1>1. Other[x] \in Ends \ {x}
  OBVIOUS
<1> QED
  BY Zenon, <1>1 DEF Moves, OthersKeep, Posted

LEMMA QuietStep ==
  ASSUME QuietExpectsOpen, NEW x \in Ends, NEW state, NEW snd, NEW rcv, NEW msgs,
         NEW taken, Moves(x, state, snd, rcv, msgs, taken), Quiet(state) => rcv = 0
  PROVE  QuietExpectsOpen'
<1> SUFFICES ASSUME NEW p \in Ends, Quiet(session_state'[p])
             PROVE  recv_seq_num'[p] = 0
  BY Zenon DEF QuietExpectsOpen
<1>1. CASE p = x
  BY Zenon, <1>1 DEF Moves
<1>2. CASE p # x
  <2>1. session_state'[p] = session_state[p] /\ recv_seq_num'[p] = recv_seq_num[p]
    BY <1>2 DEF Moves, OthersKeep
  <2> QED
    BY Zenon, <2>1 DEF QuietExpectsOpen
<1> QED
  BY <1>1, <1>2

(* A step of a command or of a handler: it is enough to look at x's        *)
(* peering.                                                                *)
LEMMA UpStep ==
  ASSUME JointUp, QuietExpectsOpen, unscanned = {}, unscanned' = {},
         NEW x \in Ends, NEW state, NEW snd, NEW rcv, NEW msgs, NEW taken,
         Moves(x, state, snd, rcv, msgs, taken),
         PairAt(state, snd, rcv, Out(x)', session_state[Other[x]],
                send_seq_num[Other[x]], recv_seq_num[Other[x]], Out(Other[x])'),
         state = "ACTIVE" => session_state[Other[x]] # "ACTIVE",
         Quiet(state) => rcv = 0
  PROVE  JointUp' /\ QuietExpectsOpen'
<1> DEFINE y == Other[x]
<1>0. y \in Ends /\ Other[y] = x
  OBVIOUS
<1>1. QuietExpectsOpen'
  BY Zenon, QuietStep
<1>2. /\ session_state'[x] = state /\ send_seq_num'[x] = snd /\ recv_seq_num'[x] = rcv
      /\ session_state'[y] = session_state[y] /\ send_seq_num'[y] = send_seq_num[y]
      /\ recv_seq_num'[y] = recv_seq_num[y] /\ route' = route
  BY MovedEnds
<1>3. PairOK(x)'
  BY Zenon, <1>2 DEF PairOK
<1>4. PairAt(session_state[y], send_seq_num[y], recv_seq_num[y], Out(y)',
             state, snd, rcv, Out(x)')
  BY Zenon, PairSymmetric
<1>5. PairOK(y)'
  BY Zenon, <1>0, <1>2, <1>4 DEF PairOK
<1>6. ASSUME NEW p \in Ends
      PROVE  PairOK(p)'
  <2>1. PairOK(p)
    BY Zenon DEF JointUp
  <2>2. CASE p \notin {x, Other[x]}
    BY Zenon, <2>1, <2>2, OtherPairs
  <2> QED
    BY <1>3, <1>5, <2>2
<1>7. ASSUME NEW p \in Ends
      PROVE  ~BothActive(p)'
  <2>1. ~BothActive(p)
    BY DEF JointUp
  <2>2. CASE p = x
    BY Zenon, <1>2, <2>2 DEF BothActive
  <2>3. CASE p = y
    BY Zenon, <1>0, <1>2, <2>3 DEF BothActive
  <2>4. CASE p \notin {x, y}
    BY Zenon, <2>1, <2>4, OtherPairs DEF BothActive
  <2> QED
    BY <2>2, <2>3, <2>4
<1>8. JointUp'
  BY Zenon, <1>2, <1>6, <1>7 DEF JointUp
<1> QED
  BY Zenon, <1>1, <1>8

LEMMA UpSends ==
  ASSUME NEW x \in Ends, route[x] # NoRoute, NEW state, NEW snd, NEW rcv, NEW msgs,
         Moves(x, state, snd, rcv, msgs, FALSE)
  PROVE  Out(x)' = Out(x) \o msgs /\ Out(Other[x])' = Out(Other[x])
<1>1. Out(x)' = Out(x) \o msgs
  BY Zenon DEF Moves, Posted
<1>2. Out(Other[x])' = Out(Other[x])
  BY Zenon DEF Moves, Posted
<1> QED
  BY Zenon, <1>1, <1>2

LEMMA UpTakes ==
  ASSUME NEW x \in Ends, route[x] # NoRoute, NEW state, NEW snd, NEW rcv, NEW msgs,
         Moves(x, state, snd, rcv, msgs, TRUE)
  PROVE  Out(x)' = Out(x) \o msgs /\ Out(Other[x])' = Tail(Out(Other[x]))
<1>1. Out(x)' = Out(x) \o msgs
  BY Zenon DEF Moves, Posted
<1>2. Out(Other[x])' = Tail(Out(Other[x]))
  BY Zenon DEF Moves, Posted
<1> QED
  BY Zenon, <1>1, <1>2

(* The values of the two ends of x's peering.                              *)
LEMMA PairTypes ==
  ASSUME SessionInv, NEW x \in Ends
  PROVE  /\ Other[x] \in Ends /\ Other[Other[x]] = x
         /\ Out(x) \in Seq(Messages) /\ Out(Other[x]) \in Seq(Messages)
         /\ send_seq_num[x] \in Nat /\ recv_seq_num[x] \in Nat
         /\ send_seq_num[Other[x]] \in Nat /\ recv_seq_num[Other[x]] \in Nat
         /\ StateOK(session_state[x], send_seq_num[x], recv_seq_num[x])
         /\ StateOK(session_state[Other[x]], send_seq_num[Other[x]],
                    recv_seq_num[Other[x]])
<1>1. Other[x] \in Ends /\ Other[Other[x]] = x
  OBVIOUS
<1> QED
  BY Zenon, <1>1, OutOK, EndTypes, EndOK

LEMMA StateFacts ==
  ASSUME NEW s, NEW n, NEW r, StateOK(s, n, r)
  PROVE  /\ Quiet(s) <=> n = 0
         /\ InSession(s) <=> n # 0
         /\ s = "OPENWAIT" => r = 0
         /\ s = "ESTABLISHED" => r # 0
         /\ Quiet(s) \/ s = "OPENWAIT" \/ s = "ESTABLISHED"
         /\ InSession(s) <=> s = "OPENWAIT" \/ s = "ESTABLISHED"
         /\ Quiet(s) <=> s = "IDLE" \/ s = "ACTIVE"
BY DEF StateOK, States, Quiet, InSession

(* When nothing is under way, the numbers agree.                           *)
LEMMA DrainedSync ==
  ASSUME SessionInv, QuietExpectsOpen, NEW x \in Ends, PairOK(x),
         Out(x) = <<>>, Out(Other[x]) = <<>>
  PROVE  /\ send_seq_num[x] = recv_seq_num[Other[x]]
         /\ send_seq_num[Other[x]] = recv_seq_num[x]
         /\ InSession(session_state[x]) => /\ session_state[x] = "ESTABLISHED"
                                           /\ session_state[Other[x]] = "ESTABLISHED"
<1> DEFINE y == Other[x]
<1>1. /\ y \in Ends /\ Out(x) \in Seq(Messages) /\ Out(y) \in Seq(Messages)
      /\ send_seq_num[x] \in Nat /\ recv_seq_num[x] \in Nat
      /\ send_seq_num[y] \in Nat /\ recv_seq_num[y] \in Nat
      /\ StateOK(session_state[x], send_seq_num[x], recv_seq_num[x])
      /\ StateOK(session_state[y], send_seq_num[y], recv_seq_num[y])
  BY Zenon, PairTypes
<1>2. /\ SyncAt(send_seq_num[y], recv_seq_num[x], Out(y))
      /\ SyncAt(send_seq_num[x], recv_seq_num[y], Out(x))
  BY Zenon DEF PairOK, PairAt, ClosingAt
<1>3. send_seq_num[x] = recv_seq_num[y] /\ send_seq_num[y] = recv_seq_num[x]
  BY <1>1, <1>2 DEF SyncAt
<1>4. ASSUME InSession(session_state[x])
      PROVE  session_state[x] = "ESTABLISHED" /\ session_state[y] = "ESTABLISHED"
  <2>1. send_seq_num[x] # 0
    BY Zenon, <1>1, <1>4, StateFacts
  <2>2. ~Quiet(session_state[y])
    BY Zenon, <1>1, <1>3, <2>1 DEF QuietExpectsOpen
  <2>3. session_state[y] # "OPENWAIT"
    BY <1>1, <1>3, <2>1 DEF StateOK
  <2>4. session_state[y] = "ESTABLISHED"
    BY <1>1, <2>2, <2>3 DEF StateOK, States, Quiet
  <2>5. send_seq_num[y] # 0
    BY <1>1, <2>2 DEF StateOK, Quiet
  <2>6. session_state[x] # "OPENWAIT"
    BY <1>1, <1>3, <2>5 DEF StateOK
  <2>7. session_state[x] = "ESTABLISHED"
    BY <1>4, <2>6 DEF InSession
  <2> QED
    BY Zenon, <2>4, <2>7
<1> QED
  BY Zenon, <1>3, <1>4

(* An end that had not opened opens.                                       *)
LEMMA OpenPairAt ==
  ASSUME SessionInv, QuietExpectsOpen, NEW x \in Ends, Quiet(session_state[x]), PairOK(x)
  PROVE  /\ PairAt("OPENWAIT", 1, 0, Out(x) \o <<OpenMsg(x, 0)>>, session_state[Other[x]],
                   send_seq_num[Other[x]], recv_seq_num[Other[x]], Out(Other[x]))
         /\ recv_seq_num[x] = 0
         /\ SyncAt(send_seq_num[x], recv_seq_num[Other[x]], Out(x)) =>
              SyncAt(1, recv_seq_num[Other[x]], Out(x) \o <<OpenMsg(x, 0)>>)
<1> DEFINE y == Other[x]
           O == <<OpenMsg(x, 0)>>
<1>1. /\ y \in Ends /\ Out(x) \in Seq(Messages) /\ Out(y) \in Seq(Messages)
      /\ recv_seq_num[y] \in Nat
      /\ StateOK(session_state[x], send_seq_num[x], recv_seq_num[x])
  BY Zenon, PairTypes
<1>2. send_seq_num[x] = 0
  BY Zenon, <1>1, StateFacts
<1>3. recv_seq_num[x] = 0
  BY Zenon DEF QuietExpectsOpen
<1>4. ASSUME SyncAt(send_seq_num[x], recv_seq_num[y], Out(x))
      PROVE  SyncAt(1, recv_seq_num[y], Out(x) \o O)
  BY Zenon, <1>1, <1>2, <1>4, SyncOpen
<1>5. CASE /\ SyncAt(send_seq_num[y], recv_seq_num[x], Out(y))
           /\ SyncAt(send_seq_num[x], recv_seq_num[y], Out(x))
  BY Zenon, <1>3, <1>4, <1>5 DEF PairAt
<1>6. CASE ClosingAt(session_state[x], send_seq_num[x], recv_seq_num[x], Out(x),
                     session_state[y], Out(y))
  <2> DEFINE o == Out(x) \o O
  <2>1. /\ session_state[y] = "ESTABLISHED" /\ Out(y) = <<>>
        /\ Out(x) # <<>> /\ Out(x)[1].type = "CLOSE"
        /\ session_state[x] = "IDLE" \/ session_state[x] = "OPENWAIT"
        /\ session_state[x] = "IDLE" => Len(Out(x)) = 1
    BY Zenon, <1>6, KindsDiffer DEF ClosingAt
  <2>2. Len(Out(x)) = 1
    BY Zenon, <2>1, KindsDiffer
  <2>3. O[1].type = "OPEN" /\ Len(O) = 1
    BY DEF OpenMsg, Control
  <2>4. O \in Seq(Messages)
    BY Zenon, OpenMsgOK DEF MsgsOK
  <2> HIDE DEF O
  <2>5. Len(o) = 2 /\ o[1] = Out(x)[1] /\ o[2] = O[1] /\ o # <<>>
    <3> DEFINE a == Out(x)
    <3>1. a \in Seq(Messages) /\ Len(a) = 1
      BY Zenon, <1>1, <2>2
    <3> HIDE DEF a
    <3> QED
      BY Zenon, <2>3, <2>4, <3>1, TwoMessages DEF a
  <2> HIDE DEF o
  <2>6. ClosingAt("OPENWAIT", 1, 0, o, session_state[y], Out(y))
    BY Zenon, <2>1, <2>3, <2>5 DEF ClosingAt
  <2>7. ~SyncAt(send_seq_num[x], recv_seq_num[y], Out(x))
    BY <2>1, <2>2 DEF SyncAt, Follows
  <2> QED
    BY Zenon, <1>3, <2>6, <2>7 DEF PairAt, o, O
<1>7. CASE ClosingAt(session_state[y], send_seq_num[y], recv_seq_num[y], Out(y),
                     session_state[x], Out(x))
  BY Zenon, <1>7, KindsDiffer DEF ClosingAt
<1> QED
  BY Zenon, <1>5, <1>6, <1>7 DEF PairOK, PairAt

LEMMA OpenUp ==
  ASSUME SessionInv, JointUp, QuietExpectsOpen, unscanned = {}, unscanned' = {},
         NEW x \in Ends, Quiet(session_state[x]),
         Moves(x, "OPENWAIT", 1, 0, <<>> \o <<OpenMsg(x, 0)>>, FALSE)
  PROVE  JointUp' /\ QuietExpectsOpen'
<1>1. PairOK(x) /\ route[x] # NoRoute
  BY Zenon DEF JointUp
<1>2. <<>> \o <<OpenMsg(x, 0)>> = <<OpenMsg(x, 0)>>
  OBVIOUS
<1>3. Moves(x, "OPENWAIT", 1, 0, <<OpenMsg(x, 0)>>, FALSE)
  BY Zenon, <1>2
<1>4. Out(x)' = Out(x) \o <<OpenMsg(x, 0)>> /\ Out(Other[x])' = Out(Other[x])
  BY Zenon, <1>1, <1>3, UpSends
<1>5. PairAt("OPENWAIT", 1, 0, Out(x)', session_state[Other[x]],
             send_seq_num[Other[x]], recv_seq_num[Other[x]], Out(Other[x])')
  BY Zenon, <1>1, <1>4, OpenPairAt
<1>6. ~("OPENWAIT" = "ACTIVE") /\ ~Quiet("OPENWAIT")
  BY DEF Quiet
<1> QED
  BY Zenon, <1>3, <1>5, <1>6, UpStep

LEMMA CloseControl ==
  ASSUME SessionInv, NEW x \in Ends, InSession(session_state[x])
  PROVE  /\ Len(CloseMsgs(x)) = 1 /\ CloseMsgs(x)[1].type = "CLOSE"
         /\ CloseMsgs(x) \in Seq(Messages) /\ CloseMsgs(x) # <<>>
<1>1. CloseMsgs(x) = <<Control("CLOSE", send_seq_num[x], incarnation[x])>>
  BY Zenon DEF CloseMsgs, InSession
<1>2. Len(CloseMsgs(x)) = 1 /\ CloseMsgs(x)[1].type = "CLOSE"
  BY <1>1 DEF Control
<1>3. CloseMsgs(x) \in Seq(Messages)
  BY Zenon, CloseMsgsOK DEF MsgsOK
<1>4. CloseMsgs(x) # <<>>
  BY <1>1
<1> QED
  BY Zenon, <1>2, <1>3, <1>4

(* bgp router X peer Y down, when nothing is under way.                    *)
LEMMA CloseUp ==
  ASSUME SessionInv, JointUp, QuietExpectsOpen, unscanned = {}, unscanned' = {}, Drained,
         NEW x \in Ends, Moves(x, "IDLE", 0, 0, CloseMsgs(x), FALSE)
  PROVE  JointUp' /\ QuietExpectsOpen'
<1> DEFINE y == Other[x]
<1>1. PairOK(x) /\ route[x] # NoRoute
  BY Zenon DEF JointUp
<1>2. /\ y \in Ends /\ CloseMsgs(x) \in Seq(Messages)
      /\ recv_seq_num[y] \in Nat /\ send_seq_num[y] \in Nat
      /\ StateOK(session_state[x], send_seq_num[x], recv_seq_num[x])
  BY Zenon, PairTypes, CloseMsgsOK DEF MsgsOK
<1>3. Out(x) = <<>> /\ Out(y) = <<>>
  BY Zenon, <1>2, DrainedOut
<1>4. Out(x)' = Out(x) \o CloseMsgs(x) /\ Out(y)' = Out(y)
  BY Zenon, <1>1, UpSends
<1>5. Out(x)' = CloseMsgs(x)
  BY <1>2, <1>3, <1>4
<1>6. /\ send_seq_num[x] = recv_seq_num[y] /\ send_seq_num[y] = recv_seq_num[x]
      /\ InSession(session_state[x]) => session_state[y] = "ESTABLISHED"
  BY Zenon, <1>1, <1>3, DrainedSync
<1>7. PairAt("IDLE", 0, 0, Out(x)', session_state[y], send_seq_num[y],
             recv_seq_num[y], Out(y)')
  <2>1. CASE InSession(session_state[x])
    <3>1. /\ Len(CloseMsgs(x)) = 1 /\ CloseMsgs(x)[1].type = "CLOSE"
          /\ CloseMsgs(x) # <<>>
      BY Zenon, <2>1, CloseControl
    <3>2. ClosingAt("IDLE", 0, 0, Out(x)', session_state[y], Out(y)')
      BY Zenon, <1>3, <1>4, <1>5, <1>6, <2>1, <3>1 DEF ClosingAt
    <3> QED
      BY Zenon, <3>2 DEF PairAt
  <2>2. CASE ~InSession(session_state[x])
    <3>1. Quiet(session_state[x]) /\ send_seq_num[x] = 0
      BY Zenon, <1>2, <2>2, StateFacts
    <3>2. recv_seq_num[x] = 0
      BY Zenon, <3>1 DEF QuietExpectsOpen
    <3>3. CloseMsgs(x) = <<>>
      BY Zenon, <2>2, KindsClose
    <3>4. SyncAt(0, 0, <<>>)
      BY SyncEmpty
    <3> QED
      BY Zenon, <1>3, <1>4, <1>5, <1>6, <3>1, <3>2, <3>3, <3>4 DEF PairAt
  <2> QED
    BY Zenon, <2>1, <2>2
<1>8. "IDLE" # "ACTIVE"
  OBVIOUS
<1> QED
  BY Zenon, <1>7, <1>8, UpStep DEF y

(* bgp router X peer Y reset, when nothing is under way.                   *)
LEMMA ResetUp ==
  ASSUME SessionInv, JointUp, QuietExpectsOpen, unscanned = {}, unscanned' = {}, Drained,
         NEW x \in Ends, Moves(x, "OPENWAIT", 1, 0, CloseMsgs(x) \o <<OpenMsg(x, 0)>>, FALSE)
  PROVE  JointUp' /\ QuietExpectsOpen'
<1> DEFINE y == Other[x]
<1>0. StateOK(session_state[x], send_seq_num[x], recv_seq_num[x])
  BY Zenon, EndOK
<1>1. CASE ~InSession(session_state[x])
  <2>1. CloseMsgs(x) = <<>>
    BY Zenon, <1>1, KindsClose
  <2>2. Quiet(session_state[x])
    BY Zenon, <1>0, <1>1, StateFacts
  <2>3. Moves(x, "OPENWAIT", 1, 0, <<>> \o <<OpenMsg(x, 0)>>, FALSE)
    BY Zenon, <2>1
  <2> QED
    BY Zenon, <2>2, <2>3, OpenUp
<1>2. CASE InSession(session_state[x])
  <2> DEFINE C == CloseMsgs(x)
             O == <<OpenMsg(x, 0)>>
             o == C \o O
  <2>1. PairOK(x) /\ route[x] # NoRoute
    BY Zenon DEF JointUp
  <2>2. y \in Ends
    OBVIOUS
  <2>3. Out(x) = <<>> /\ Out(y) = <<>>
    BY Zenon, <2>2, DrainedOut
  <2>4. session_state[y] = "ESTABLISHED"
    BY Zenon, <1>2, <2>1, <2>3, DrainedSync
  <2>5. C \in Seq(Messages) /\ Len(C) = 1 /\ C[1].type = "CLOSE"
    BY Zenon, <1>2, CloseControl
  <2>6. O \in Seq(Messages)
    BY Zenon, OpenMsgOK DEF MsgsOK
  <2>7. Len(O) = 1 /\ O[1].type = "OPEN"
    BY DEF OpenMsg, Control
  <2>8. Moves(x, "OPENWAIT", 1, 0, o, FALSE)
    BY Zenon
  <2> HIDE DEF C, O
  <2>9. Len(o) = 2 /\ o # <<>> /\ o[1] = C[1] /\ o[2] = O[1]
    BY Zenon, <2>5, <2>6, <2>7, TwoMessages
  <2>10. o \in Seq(Messages)
    BY <2>5, <2>6
  <2> HIDE DEF o
  <2>11. Out(x)' = Out(x) \o o /\ Out(y)' = Out(y)
    BY Zenon, <2>1, <2>8, UpSends
  <2>12. Out(x)' = o
    BY <2>3, <2>10, <2>11
  <2>13. ClosingAt("OPENWAIT", 1, 0, Out(x)', session_state[y], Out(y)')
    BY Zenon, <2>3, <2>4, <2>5, <2>7, <2>9, <2>11, <2>12 DEF ClosingAt
  <2>14. PairAt("OPENWAIT", 1, 0, Out(x)', session_state[y], send_seq_num[y],
                recv_seq_num[y], Out(y)')
    BY Zenon, <2>13 DEF PairAt
  <2>15. ~("OPENWAIT" = "ACTIVE") /\ ~Quiet("OPENWAIT")
    BY DEF Quiet
  <2> QED
    BY Zenon, <2>8, <2>14, <2>15, UpStep DEF y
<1> QED
  BY Zenon, <1>1, <1>2

(* An ESTABLISHED end tells of its routes, when nothing is under way.      *)
LEMMA TellUp ==
  ASSUME SessionInv, JointUp, QuietExpectsOpen, unscanned = {}, unscanned' = {}, Drained,
         NEW x \in Ends, NEW burst \in Bursts(x), session_state[x] = "ESTABLISHED",
         Moves(x, session_state[x], send_seq_num[x] + Len(burst), recv_seq_num[x],
               Numbered(burst, send_seq_num[x], incarnation[x]), FALSE)
  PROVE  JointUp' /\ QuietExpectsOpen'
<1> DEFINE y == Other[x]
           n == send_seq_num[x] + Len(burst)
           N == Numbered(burst, send_seq_num[x], incarnation[x])
<1>1. PairOK(x) /\ route[x] # NoRoute
  BY Zenon DEF JointUp
<1>2. /\ y \in Ends /\ Out(x) \in Seq(Messages)
      /\ send_seq_num[x] \in Nat /\ recv_seq_num[y] \in Nat
  BY Zenon, PairTypes
<1>3. Out(x) = <<>> /\ Out(y) = <<>>
  BY Zenon, <1>2, DrainedOut
<1>4. /\ SyncAt(send_seq_num[y], recv_seq_num[x], Out(y))
      /\ SyncAt(send_seq_num[x], recv_seq_num[y], Out(x))
  BY Zenon, <1>1, <1>3 DEF PairOK, PairAt, ClosingAt
<1>5. burst \in Seq(Adverts) /\ incarnation[x] \in Nat /\ send_seq_num[x] > 0
  <2>1. StateOK("ESTABLISHED", send_seq_num[x], recv_seq_num[x]) /\ incarnation[x] \in Nat
    BY Zenon, EndOK, EndTypes
  <2>2. send_seq_num[x] > 0
    BY <2>1 DEF StateOK
  <2> QED
    BY Zenon, <2>1, <2>2, BurstsType
<1>6. SyncAt(n, recv_seq_num[y], Out(x) \o N)
  BY Zenon, <1>2, <1>4, <1>5, SyncTell
<1>7. Moves(x, session_state[x], n, recv_seq_num[x], N, FALSE)
  BY Zenon
<1> HIDE DEF n, N
<1>8. Out(x)' = Out(x) \o N /\ Out(y)' = Out(y)
  BY Zenon, <1>1, <1>7, UpSends
<1>9. PairAt(session_state[x], n, recv_seq_num[x], Out(x)', session_state[y],
             send_seq_num[y], recv_seq_num[y], Out(y)')
  BY Zenon, <1>4, <1>6, <1>8 DEF PairAt
<1>10. session_state[x] # "ACTIVE" /\ ~Quiet(session_state[x])
  BY DEF Quiet
<1> QED
  BY Zenon, <1>7, <1>9, <1>10, UpStep DEF y

(* What x handles is expected, or tells it that its session is closed.     *)
LEMMA FrontUp ==
  ASSUME SessionInv, NEW x \in Ends, PairOK(x), Out(Other[x]) # <<>>
  PROVE  \/ /\ SyncAt(send_seq_num[Other[x]], recv_seq_num[x], Out(Other[x]))
            /\ SyncAt(send_seq_num[x], recv_seq_num[Other[x]], Out(x))
            /\ FrontMsg(x).seq_num = recv_seq_num[x] /\ FrontMsg(x).type # "CLOSE"
         \/ /\ ClosingAt(session_state[Other[x]], send_seq_num[Other[x]],
                         recv_seq_num[Other[x]], Out(Other[x]), session_state[x], Out(x))
            /\ FrontMsg(x).type = "CLOSE"
<1> DEFINE y == Other[x]
<1>1. /\ Out(y) \in Seq(Messages) /\ send_seq_num[y] \in Nat /\ recv_seq_num[x] \in Nat
  BY Zenon, PairTypes
<1>2. CASE /\ SyncAt(send_seq_num[y], recv_seq_num[x], Out(y))
           /\ SyncAt(send_seq_num[x], recv_seq_num[y], Out(x))
  <2>1. Out(y)[1].seq_num = recv_seq_num[x] /\ Out(y)[1].type # "CLOSE"
    BY Zenon, <1>1, <1>2, SyncTake
  <2> QED
    BY Zenon, <1>2, <2>1 DEF FrontMsg
<1>3. CASE ClosingAt(session_state[x], send_seq_num[x], recv_seq_num[x], Out(x),
                     session_state[y], Out(y))
  BY Zenon, <1>3 DEF ClosingAt
<1>4. CASE ClosingAt(session_state[y], send_seq_num[y], recv_seq_num[y], Out(y),
                     session_state[x], Out(x))
  BY Zenon, <1>4 DEF ClosingAt, FrontMsg
<1> QED
  BY Zenon, <1>2, <1>3, <1>4 DEF PairOK, PairAt

(* x takes the message it expects, becomes or stays ESTABLISHED, and       *)
(* answers with the next numbers.                                          *)
LEMMA AnswerUp ==
  ASSUME SessionInv, JointUp, QuietExpectsOpen, unscanned = {}, unscanned' = {},
         NEW x \in Ends, NEW snd, NEW msgs, Out(Other[x]) # <<>>,
         FrontMsg(x).type # "CLOSE",
         Moves(x, "ESTABLISHED", snd, recv_seq_num[x] + 1, msgs, TRUE),
         SyncAt(send_seq_num[x], recv_seq_num[Other[x]], Out(x)) =>
           SyncAt(snd, recv_seq_num[Other[x]], Out(x) \o msgs)
  PROVE  JointUp' /\ QuietExpectsOpen'
<1> DEFINE y == Other[x]
           r == recv_seq_num[x] + 1
<1>1. PairOK(x) /\ route[x] # NoRoute
  BY Zenon DEF JointUp
<1>2. /\ Out(y) \in Seq(Messages) /\ send_seq_num[y] \in Nat /\ recv_seq_num[x] \in Nat
  BY Zenon, PairTypes
<1>3. /\ SyncAt(send_seq_num[y], recv_seq_num[x], Out(y))
      /\ SyncAt(send_seq_num[x], recv_seq_num[y], Out(x))
  BY Zenon, <1>1, FrontUp
<1>4. SyncAt(send_seq_num[y], r, Tail(Out(y)))
  BY Zenon, <1>2, <1>3, SyncTake
<1>5. Moves(x, "ESTABLISHED", snd, r, msgs, TRUE)
  BY Zenon
<1> HIDE DEF r
<1>6. Out(x)' = Out(x) \o msgs /\ Out(y)' = Tail(Out(y))
  BY Zenon, <1>1, <1>5, UpTakes
<1>7. PairAt("ESTABLISHED", snd, r, Out(x)', session_state[y], send_seq_num[y],
             recv_seq_num[y], Out(y)')
  BY Zenon, <1>3, <1>4, <1>6 DEF PairAt
<1>8. ~("ESTABLISHED" = "ACTIVE") /\ ~Quiet("ESTABLISHED")
  BY DEF Quiet
<1> QED
  BY Zenon, <1>5, <1>7, <1>8, UpStep DEF y

LEMMA SyncOpenAnswer ==
  ASSUME SessionInv, NEW x \in Ends, NEW burst \in Bursts(x), session_state[x] = "ACTIVE",
         SyncAt(send_seq_num[x], recv_seq_num[Other[x]], Out(x))
  PROVE  SyncAt(send_seq_num[x] + 1 + Len(burst), recv_seq_num[Other[x]],
                Out(x) \o OpenAnswer(x, burst))
<1> DEFINE O == <<OpenMsg(x, 0)>>
           N == Numbered(burst, 1, incarnation[x] + 1)
           r == recv_seq_num[Other[x]]
<1>1. burst \in Seq(Adverts) /\ Len(burst) \in Nat
  BY Zenon, BurstsType
<1>2. Out(x) \in Seq(Messages) /\ r \in Nat
  BY Zenon, PairTypes
<1>3. send_seq_num[x] = 0 /\ incarnation[x] + 1 \in Nat
  BY EndOK DEF StateOK
<1>4. SyncAt(1, r, Out(x) \o O)
  BY Zenon, <1>2, <1>3, SyncOpen
<1>5. O \in Seq(Messages)
  BY Zenon, OpenMsgOK DEF MsgsOK
<1>6. OpenAnswer(x, burst) = O \o N
  BY <1>3 DEF OpenAnswer
<1>7. N \in Seq(Messages)
  <2>1. MsgsOK(N)
    BY <1>1, <1>3, NumberedOK
  <2> QED
    BY Zenon, <2>1 DEF MsgsOK
<1>8. Out(x) \o O \in Seq(Messages)
  BY <1>2, <1>5
<1>9. SyncAt(1 + Len(burst), r, (Out(x) \o O) \o N)
  <2>1. 1 \in Nat /\ 1 > 0
    OBVIOUS
  <2> HIDE DEF O, r
  <2> QED
    BY Zenon, <1>1, <1>2, <1>3, <1>4, <1>8, <2>1, SyncTell
<1> HIDE DEF O, N, r
<1>10. (Out(x) \o O) \o N = Out(x) \o (O \o N)
  BY <1>2, <1>5, <1>7
<1>11. send_seq_num[x] + 1 + Len(burst) = 1 + Len(burst)
  BY <1>1, <1>3
<1> QED
  BY Zenon, <1>6, <1>9, <1>10, <1>11 DEF r

LEMMA SyncRouteAnswer ==
  ASSUME SessionInv, NEW x \in Ends, NEW burst \in Bursts(x), InSession(session_state[x]),
         SyncAt(send_seq_num[x], recv_seq_num[Other[x]], Out(x))
  PROVE  SyncAt(send_seq_num[x] + Len(burst), recv_seq_num[Other[x]],
                Out(x) \o RouteAnswer(x, burst))
<1>1. burst \in Seq(Adverts)
  BY Zenon, BurstsType
<1>2. /\ Out(x) \in Seq(Messages) /\ recv_seq_num[Other[x]] \in Nat
      /\ send_seq_num[x] \in Nat
  BY Zenon, PairTypes
<1>3. send_seq_num[x] > 0 /\ incarnation[x] \in Nat
  BY EndOK DEF StateOK, InSession
<1> QED
  BY Zenon, <1>1, <1>2, <1>3, SyncTell DEF RouteAnswer

(* x learns that its session is closed.                                    *)
LEMMA ClosedUp ==
  ASSUME SessionInv, JointUp, QuietExpectsOpen, unscanned = {}, unscanned' = {},
         NEW x \in Ends, Out(Other[x]) # <<>>, FrontMsg(x).type = "CLOSE",
         Moves(x, "ACTIVE", 0, 0, <<>>, TRUE)
  PROVE  JointUp' /\ QuietExpectsOpen'
<1> DEFINE y == Other[x]
           s == Out(y)
<1>1. PairOK(x) /\ route[x] # NoRoute
  BY Zenon DEF JointUp
<1>2. /\ y \in Ends /\ s \in Seq(Messages) /\ Out(x) \in Seq(Messages)
      /\ StateOK(session_state[y], send_seq_num[y], recv_seq_num[y])
  BY Zenon, PairTypes
<1>2a. s # <<>>
  BY Zenon
<1>3. MsgsOK(s)
  BY Zenon, <1>2, OutOK
<1>4. ClosingAt(session_state[y], send_seq_num[y], recv_seq_num[y], s,
                session_state[x], Out(x))
  BY Zenon, <1>1, FrontUp
<1>5. Out(x) = <<>> /\ recv_seq_num[y] = 0
  BY Zenon, <1>4 DEF ClosingAt
<1>6. Out(x)' = Out(x) \o <<>> /\ Out(y)' = Tail(s)
  BY Zenon, <1>1, UpTakes
<1>7. Out(x)' = <<>>
  BY <1>5, <1>6
<1>8. SyncAt(0, recv_seq_num[y], Out(x)')
  BY <1>5, <1>7, SyncEmpty
<1> HIDE DEF s
<1>9. SyncAt(send_seq_num[y], 0, Tail(s)) /\ session_state[y] # "ACTIVE"
  <2>1. CASE session_state[y] = "IDLE" /\ Len(s) = 1
    <3>1. send_seq_num[y] = 0
      BY <1>2, <2>1 DEF StateOK
    <3>2. Tail(s) = <<>>
      <4> DEFINE t == Tail(s)
      <4>1. t \in Seq(Messages) /\ Len(t) = Len(s) - 1
        BY Zenon, <1>2, <1>2a, TailFacts
      <4> HIDE DEF t
      <4>2. t = <<>>
        BY <2>1, <4>1
      <4> QED
        BY Zenon, <4>2 DEF t
    <3>3. SyncAt(0, 0, <<>>)
      BY SyncEmpty
    <3>4. session_state[y] # "ACTIVE"
      BY <2>1
    <3> QED
      BY Zenon, <3>1, <3>2, <3>3, <3>4
  <2>2. CASE /\ session_state[y] = "OPENWAIT" /\ Len(s) = 2 /\ send_seq_num[y] = 1
             /\ s[2].type = "OPEN"
    <3>1. s[2].seq_num = 0
      BY <2>2, <1>3 DEF MsgsOK, OpenIsZero
    <3>3. SyncAt(1, 0, Tail(s))
      <4> DEFINE t == Tail(s)
      <4>1. Len(t) = Len(s) - 1 /\ \A k \in 1..Len(s) - 1 : t[k] = s[k + 1]
        BY Zenon, <1>2, <1>2a, TailFacts
      <4> HIDE DEF t
      <4>2. Len(t) = 1 /\ t[1] = s[2]
        BY <2>2, <4>1
      <4>3. t[1].seq_num = 0 /\ t[1].type # "CLOSE"
        BY <2>2, <3>1, <4>2
      <4>4. SyncAt(1, 0, t)
        BY <4>2, <4>3 DEF SyncAt, Follows
      <4> QED
        BY Zenon, <4>4 DEF t
    <3>4. session_state[y] # "ACTIVE"
      BY <2>2
    <3> QED
      BY Zenon, <2>2, <3>3, <3>4
  <2> QED
    BY Zenon, <1>4, <2>1, <2>2 DEF ClosingAt
<1>10. PairAt("ACTIVE", 0, 0, Out(x)', session_state[y], send_seq_num[y],
              recv_seq_num[y], Out(y)')
  BY Zenon, <1>6, <1>8, <1>9 DEF PairAt
<1> QED
  BY Zenon, <1>9, <1>10, UpStep DEF y

LEMMA HandleUp ==
  ASSUME SessionInv, OnRoute, PairsOK, JointUp, QuietExpectsOpen, faults = {},
         unscanned = {}, unscanned' = {}, NEW x \in Ends, NEW v \in Paths,
         HandleMessage(x, v), ~OpenMeetsIdle(x, v)
  PROVE  JointUp' /\ QuietExpectsOpen' /\ faults' = {}
<1> DEFINE y == Other[x]
           r == recv_seq_num[x] + 1
<1>0. PairOK(x)
  BY Zenon DEF JointUp
<1>1. CASE ReceiveOutOfSeq(x, v)
  <2>1. Out(y) # <<>> /\ ~Expected(x, FrontMsg(x))
    BY Zenon, <1>1, OutOfSeqMoves
  <2>2. FrontMsg(x).type = "CLOSE" \/ FrontMsg(x).seq_num = recv_seq_num[x]
    BY Zenon, <1>0, <2>1, FrontUp
  <2> QED
    BY Zenon, <2>1, <2>2 DEF Expected
<1>2. ASSUME NEW burst \in Bursts(x), ReceiveOpen(x, v, burst)
      PROVE  JointUp' /\ QuietExpectsOpen' /\ faults' = {}
  <2> DEFINE n1 == send_seq_num[x] + 1 + Len(burst)
             n2 == send_seq_num[x] + Len(burst)
  <2>1. /\ Out(y) # <<>> /\ FrontMsg(x).type = "OPEN" /\ faults' = faults
        /\ \/ /\ session_state[x] = "ACTIVE"
              /\ Moves(x, "ESTABLISHED", n1, r, OpenAnswer(x, burst), TRUE)
           \/ /\ session_state[x] = "OPENWAIT"
              /\ Moves(x, "ESTABLISHED", n2, r, RouteAnswer(x, burst), TRUE)
    BY Zenon, <1>2, OpenRcvdMoves DEF OpenMeetsIdle
  <2>2. FrontMsg(x).type # "CLOSE"
    BY <2>1
  <2>3. CASE /\ session_state[x] = "ACTIVE"
             /\ Moves(x, "ESTABLISHED", n1, r, OpenAnswer(x, burst), TRUE)
    <3>1. SyncAt(send_seq_num[x], recv_seq_num[y], Out(x)) =>
            SyncAt(n1, recv_seq_num[y], Out(x) \o OpenAnswer(x, burst))
      BY Zenon, <2>3, SyncOpenAnswer
    <3> HIDE DEF n1
    <3> QED
      BY Zenon, <2>1, <2>2, <2>3, <3>1, AnswerUp
  <2>4. CASE /\ session_state[x] = "OPENWAIT"
             /\ Moves(x, "ESTABLISHED", n2, r, RouteAnswer(x, burst), TRUE)
    <3>1. InSession(session_state[x])
      BY <2>4 DEF InSession
    <3>2. SyncAt(send_seq_num[x], recv_seq_num[y], Out(x)) =>
            SyncAt(n2, recv_seq_num[y], Out(x) \o RouteAnswer(x, burst))
      BY Zenon, <3>1, SyncRouteAnswer
    <3> HIDE DEF n2
    <3> QED
      BY Zenon, <2>1, <2>2, <2>4, <3>2, AnswerUp
  <2> QED
    BY Zenon, <2>1, <2>3, <2>4
<1>3. CASE ReceiveClose(x, v)
  <2>1. /\ Out(y) # <<>> /\ FrontMsg(x).type = "CLOSE" /\ faults' = faults
        /\ InSession(session_state[x]) => Moves(x, "ACTIVE", 0, 0, <<>>, TRUE)
    <3>1. ~(InSession(session_state[x]) /\ Quiet(session_state[x]))
      BY DEF InSession, Quiet
    <3> QED
      BY Zenon, <1>3, <3>1, CloseRcvdMoves
  <2>2. session_state[x] = "ESTABLISHED"
    BY Zenon, <1>0, <2>1, FrontUp DEF ClosingAt
  <2>3. Moves(x, "ACTIVE", 0, 0, <<>>, TRUE)
    BY Zenon, <2>1, <2>2 DEF InSession
  <2> QED
    BY Zenon, <2>1, <2>3, ClosedUp
<1>4. ASSUME NEW burst \in Bursts(x), ReceiveRoute(x, v, burst)
      PROVE  JointUp' /\ QuietExpectsOpen' /\ faults' = {}
  <2> DEFINE n == send_seq_num[x] + Len(burst)
  <2>0. Warned(x)
    BY Zenon DEF PairsOK
  <2>1. /\ Out(y) # <<>> /\ FrontMsg(x).type \in RouteTypes
        /\ session_state[x] = "ESTABLISHED" /\ faults' = faults
        /\ Moves(x, "ESTABLISHED", n, r, RouteAnswer(x, burst), TRUE)
    BY Zenon, <1>4, <2>0, RouteRcvdMoves
  <2>2. FrontMsg(x).type # "CLOSE" /\ InSession(session_state[x])
    BY <2>1 DEF RouteTypes, InSession
  <2>3. SyncAt(send_seq_num[x], recv_seq_num[y], Out(x)) =>
          SyncAt(n, recv_seq_num[y], Out(x) \o RouteAnswer(x, burst))
    BY Zenon, <2>2, SyncRouteAnswer
  <2> HIDE DEF n
  <2> QED
    BY Zenon, <2>1, <2>2, <2>3, AnswerUp
<1> QED
  BY Zenon, <1>1, <1>2, <1>3, <1>4 DEF HandleMessage

-----------------------------------------------------------------------------
(* The routes are gone.                                                    *)

LEMMA DownOut ==
  ASSUME JointDown, NEW p \in Ends
  PROVE  Out(p) = <<>>
BY Zenon DEF JointDown, Out

LEMMA DownStep ==
  ASSUME JointDown, QuietExpectsOpen, NEW x \in Ends, NEW state, NEW snd, NEW msgs,
         NEW taken, Moves(x, state, snd, 0, msgs, taken), Quiet(state),
         unscanned' = unscanned \ {x}
  PROVE  JointDown' /\ QuietExpectsOpen'
<1>1. QuietExpectsOpen'
  BY Zenon, QuietStep
<1>2. \A p \in Ends : route'[p] = NoRoute
  BY Zenon DEF JointDown, Moves, Posted
<1>3. unscanned' # Ends
  OBVIOUS
<1>4. ASSUME NEW p \in Ends, p \notin unscanned'
      PROVE  Quiet(session_state'[p])
  <2>1. CASE p = x
    BY Zenon, <2>1 DEF Moves
  <2>2. CASE p # x
    <3>1. session_state'[p] = session_state[p]
      BY <2>2 DEF Moves, OthersKeep
    <3>2. p \in Ends \ unscanned
      BY <1>4, <2>2
    <3> QED
      BY Zenon, <3>1, <3>2 DEF JointDown
  <2> QED
    BY <2>1, <2>2
<1>5. JointDown'
  BY <1>2, <1>3, <1>4 DEF JointDown
<1> QED
  BY Zenon, <1>1, <1>5

-----------------------------------------------------------------------------
(* The steps of a script.                                                  *)

LEMMA CommandJoint ==
  ASSUME SafeInv, JointInv, NEW x \in Ends, ScriptCommand(x)
  PROVE  JointInv'
<1>1. /\ SessionInv /\ OnRoute /\ faults = {} /\ QuietExpectsOpen
      /\ JointUp \/ JointDown
  BY Zenon DEF SafeInv, JointInv
<1>2. unscanned = {} /\ unscanned' = {} /\ faults' = {} /\ UNCHANGED <<route, broken>>
  BY Zenon, <1>1
  DEF ScriptCommand, OpenSession, CloseSession, ResetSession, Disseminate
<1>3. unscanned' = unscanned \ {x}
  BY <1>2
<1>4. Quiet("IDLE") /\ Quiet("ACTIVE")
  BY Zenon, KindsDiffer
<1>5. JointUp => route[x] # NoRoute
  BY Zenon DEF JointUp
<1>6. JointDown => route[x] = NoRoute /\ Quiet(session_state[x])
  BY <1>2 DEF JointDown
<1>7. CASE OpenSession(x)
  <2>1. OpenAfter(x, <<>>) /\ Quiet(session_state[x])
    BY Zenon, <1>7 DEF OpenSession, Quiet
  <2>2. Opens(x, <<>>)
    BY Zenon, <1>1, <1>2, <2>1, OpenMoves, EmptyOK
  <2>3. CASE JointUp
    <3>1. Moves(x, "OPENWAIT", 1, 0, <<>> \o <<OpenMsg(x, 0)>>, FALSE)
      BY Zenon, <1>5, <2>2, <2>3 DEF Opens
    <3>2. JointUp' /\ QuietExpectsOpen'
      BY Zenon, <1>1, <1>2, <2>1, <2>3, <3>1, OpenUp
    <3> QED
      BY Zenon, <1>2, <3>2 DEF JointInv
  <2>4. CASE JointDown
    <3>1. Moves(x, "ACTIVE", 0, 0, <<>>, FALSE)
      BY Zenon, <1>6, <2>2, <2>4 DEF Opens
    <3>2. JointDown' /\ QuietExpectsOpen'
      BY Zenon, <1>1, <1>3, <1>4, <2>4, <3>1, DownStep
    <3> QED
      BY Zenon, <1>2, <3>2 DEF JointInv
  <2> QED
    BY Zenon, <1>1, <2>3, <2>4
<1>8. CASE Drained /\ CloseSession(x)
  <2>1. Become(x, "IDLE", 0, 0, FALSE, 0) /\ queue' = Queued(x, CloseMsgs(x))
    BY Zenon, <1>8 DEF CloseSession
  <2>2. Moves(x, "IDLE", 0, 0, CloseMsgs(x), FALSE)
    BY Zenon, <1>1, <1>2, <2>1, CloseMoves
  <2>3. CASE JointUp
    <3>1. JointUp' /\ QuietExpectsOpen'
      BY Zenon, <1>1, <1>2, <1>8, <2>2, <2>3, CloseUp
    <3> QED
      BY Zenon, <1>2, <3>1 DEF JointInv
  <2>4. CASE JointDown
    <3>1. JointDown' /\ QuietExpectsOpen'
      BY Zenon, <1>1, <1>3, <1>4, <2>2, <2>4, DownStep
    <3> QED
      BY Zenon, <1>2, <3>1 DEF JointInv
  <2> QED
    BY Zenon, <1>1, <2>3, <2>4
<1>9. CASE Drained /\ ResetSession(x)
  <2>1. OpenAfter(x, CloseMsgs(x))
    BY Zenon, <1>9 DEF ResetSession
  <2>2. Opens(x, CloseMsgs(x))
    BY Zenon, <1>1, <1>2, <2>1, OpenMoves, CloseMsgsOK
  <2>3. CASE JointUp
    <3>1. Moves(x, "OPENWAIT", 1, 0, CloseMsgs(x) \o <<OpenMsg(x, 0)>>, FALSE)
      BY Zenon, <1>5, <2>2, <2>3 DEF Opens
    <3>2. JointUp' /\ QuietExpectsOpen'
      BY Zenon, <1>1, <1>2, <1>9, <2>3, <3>1, ResetUp
    <3> QED
      BY Zenon, <1>2, <3>2 DEF JointInv
  <2>4. CASE JointDown
    <3>1. Moves(x, "ACTIVE", 0, 0, <<>>, FALSE)
      BY Zenon, <1>6, <2>2, <2>4 DEF Opens
    <3>2. JointDown' /\ QuietExpectsOpen'
      BY Zenon, <1>1, <1>3, <1>4, <2>4, <3>1, DownStep
    <3> QED
      BY Zenon, <1>2, <3>2 DEF JointInv
  <2> QED
    BY Zenon, <1>1, <2>3, <2>4
<1>10. ASSUME Drained, NEW burst \in Bursts(x), Disseminate(x, burst)
       PROVE  JointInv'
  <2>1. session_state[x] = "ESTABLISHED"
    BY Zenon, <1>10 DEF Disseminate
  <2>2. JointUp
    BY Zenon, <1>1, <1>6, <2>1, KindsDiffer
  <2>3. Moves(x, session_state[x], send_seq_num[x] + Len(burst), recv_seq_num[x],
              Numbered(burst, send_seq_num[x], incarnation[x]), FALSE)
    BY Zenon, <1>1, <1>10, TellMoves
  <2>4. JointUp' /\ QuietExpectsOpen'
    BY Zenon, <1>1, <1>2, <1>10, <2>1, <2>2, <2>3, TellUp
  <2> QED
    BY Zenon, <1>2, <2>4 DEF JointInv
<1> QED
  BY Zenon, <1>7, <1>8, <1>9, <1>10 DEF ScriptCommand

LEMMA SimJoint ==
  ASSUME SafeInv, JointInv, ScriptSimStep,
         \A x \in Ends, v \in Paths : ~OpenMeetsIdle(x, v)
  PROVE  JointInv'
<1>1. /\ SessionInv /\ OnRoute /\ PairsOK /\ faults = {} /\ QuietExpectsOpen
      /\ JointUp \/ JointDown
  BY Zenon DEF SafeInv, JointInv
<1>2. unscanned = {} /\ unscanned' = {}
  BY Zenon DEF ScriptSimStep
<1>3. PICK x \in Ends, v \in Paths : HandleMessage(x, v)
  BY Zenon DEF ScriptSimStep, SimStep
<1>5. Pending(x, v) # <<>>
  BY Zenon, <1>3
  DEF HandleMessage, ReceiveOutOfSeq, ReceiveOpen, ReceiveClose, ReceiveRoute, Arrives
<1>6. Other[x] \in Ends /\ Out(Other[x]) # <<>>
  BY Zenon, <1>1, <1>5, PendingOut, PairTypes
<1>7. JointUp
  BY Zenon, <1>1, <1>6, DownOut
<1>8. JointUp' /\ QuietExpectsOpen' /\ faults' = {}
  BY Zenon, <1>1, <1>2, <1>3, <1>7, HandleUp
<1> QED
  BY Zenon, <1>8 DEF JointInv

LEMMA SessionOkUp ==
  ASSUME OnRoute, NEW x \in Ends
  PROVE  session_ok(x) <=> route[x] # NoRoute /\ route[Other[x]] # NoRoute
BY DEF session_ok, Reaches, OnRoute

(* While some end is to be rescanned the numbers agree, so that the OPEN   *)
(* of x is the next message that the other end expects.                    *)
LEMMA RescanUp ==
  ASSUME SessionInv, JointUp, QuietExpectsOpen, NEW x \in Ends, x \in unscanned,
         unscanned' = unscanned \ {x}, Quiet(session_state[x]),
         Moves(x, "OPENWAIT", 1, 0, <<OpenMsg(x, 0)>>, FALSE)
  PROVE  JointUp' /\ QuietExpectsOpen'
<1> DEFINE y == Other[x]
<1>0. y \in Ends /\ Other[y] = x
  OBVIOUS
<1>1. PairOK(x) /\ route[x] # NoRoute /\ \A p \in Ends : InSync(p)
  BY DEF JointUp
<1>2. Out(x)' = Out(x) \o <<OpenMsg(x, 0)>> /\ Out(y)' = Out(y)
  BY Zenon, <1>1, UpSends
<1>3. /\ session_state'[x] = "OPENWAIT" /\ send_seq_num'[x] = 1 /\ recv_seq_num'[x] = 0
      /\ session_state'[y] = session_state[y] /\ send_seq_num'[y] = send_seq_num[y]
      /\ recv_seq_num'[y] = recv_seq_num[y] /\ route' = route
  <2>1. session_state'[x] = "OPENWAIT" /\ send_seq_num'[x] = 1 /\ recv_seq_num'[x] = 0
    BY Zenon DEF Moves
  <2>2. route' = route
    BY Zenon DEF Moves, Posted
  <2>3. OthersKeep(x) /\ y \in Ends \ {x}
    BY Zenon, <1>0 DEF Moves
  <2> QED
    BY Zenon, <2>1, <2>2, <2>3 DEF OthersKeep
<1>4. /\ SyncAt(send_seq_num[y], recv_seq_num[x], Out(y))
      /\ SyncAt(send_seq_num[x], recv_seq_num[y], Out(x))
  BY Zenon, <1>0, <1>1 DEF InSync
<1>5. recv_seq_num[x] = 0 /\ SyncAt(1, recv_seq_num[y], Out(x) \o <<OpenMsg(x, 0)>>)
  BY Zenon, <1>1, <1>4, OpenPairAt
<1>6. InSync(x)'
  BY Zenon, <1>2, <1>3, <1>4, <1>5 DEF InSync
<1>7. InSync(y)'
  BY Zenon, <1>0, <1>2, <1>3, <1>5 DEF InSync
<1>8. ASSUME NEW p \in Ends
      PROVE  InSync(p)'
  <2>1. CASE p \notin {x, Other[x]}
    BY Zenon, <1>1, <2>1, OtherPairs
  <2> QED
    BY <1>6, <1>7, <2>1
<1>9. ASSUME NEW p \in Ends
      PROVE  PairOK(p)'
  <2>1. Other[p] \in Ends /\ Other[Other[p]] = p
    OBVIOUS
  <2>2. InSync(p)' /\ InSync(Other[p])'
    BY Zenon, <1>8, <2>1
  <2> QED
    BY Zenon, <2>1, <2>2 DEF PairOK, PairAt, InSync
<1>10. ASSUME NEW p \in Ends, BothActive(p)'
       PROVE  p \in unscanned'
  <2>1. session_state'[x] # "ACTIVE"
    BY <1>3
  <2>2. p # x /\ p # y
    BY Zenon, <1>0, <1>10, <2>1 DEF BothActive
  <2>3. BothActive(p)
    BY Zenon, <1>10, <2>2, OtherPairs DEF BothActive
  <2>4. p \in unscanned
    BY Zenon, <2>3 DEF JointUp
  <2> QED
    BY <2>2, <2>4
<1>11. QuietExpectsOpen'
  <2>1. ~Quiet("OPENWAIT")
    BY Zenon, KindsDiffer
  <2> QED
    BY Zenon, <2>1, QuietStep
<1>12. JointUp'
  BY Zenon, <1>1, <1>3, <1>8, <1>9, <1>10 DEF JointUp
<1> QED
  BY Zenon, <1>11, <1>12

LEMMA RescanJoint ==
  ASSUME SafeInv, JointInv, NEW x \in Ends, Rescan(x)
  PROVE  JointInv'
<1>1. /\ SessionInv /\ OnRoute /\ faults = {} /\ QuietExpectsOpen
      /\ JointUp \/ JointDown
  BY Zenon DEF SafeInv, JointInv
<1>2. x \in unscanned /\ unscanned' = unscanned \ {x}
  BY Zenon DEF Rescan
<1>3. session_ok(x) <=> route[x] # NoRoute /\ route[Other[x]] # NoRoute
  BY Zenon, <1>1, SessionOkUp
<1>4. Other[x] \in Ends /\ Other[Other[x]] = x
  OBVIOUS
<1>5. JointUp => session_ok(x) /\ route[x] # NoRoute
  BY Zenon, <1>3, <1>4 DEF JointUp
<1>6. JointDown => ~session_ok(x)
  BY Zenon, <1>3 DEF JointDown
<1>7. CASE Stays(x) /\ UNCHANGED vars
  <2>1. UNCHANGED <<session_state, send_seq_num, recv_seq_num, queue, route, faults>>
    BY <1>7 DEF vars
  <2>2. \A p \in Ends : (InSync(p)' <=> InSync(p)) /\ (PairOK(p)' <=> PairOK(p))
    BY Zenon, <2>1 DEF InSync, PairOK, Out
  <2>3. QuietExpectsOpen'
    BY Zenon, <1>1, <2>1 DEF QuietExpectsOpen
  <2>4. CASE JointUp
    <3>1. session_state[x] # "ACTIVE"
      BY Zenon, <1>5, <1>7, <2>4 DEF Stays
    <3>2. ASSUME NEW p \in Ends, BothActive(p)'
          PROVE  p \in unscanned'
      <4>1. BothActive(p) /\ p # x
        BY Zenon, <2>1, <3>1, <3>2 DEF BothActive
      <4>2. p \in unscanned
        BY Zenon, <2>4, <4>1 DEF JointUp
      <4> QED
        BY <1>2, <4>1, <4>2
    <3>3. \A p \in Ends : route'[p] # NoRoute /\ PairOK(p)' /\ InSync(p)'
      BY <1>2, <2>1, <2>2, <2>4 DEF JointUp
    <3>4. JointUp'
      BY Zenon, <3>2, <3>3 DEF JointUp
    <3> QED
      BY Zenon, <1>1, <2>1, <2>3, <3>4 DEF JointInv
  <2>5. CASE JointDown
    <3>1. session_state[x] \in {"IDLE", "ACTIVE"}
      BY <1>6, <1>7, <2>5 DEF Stays
    <3>2. Quiet(session_state[x])
      BY Zenon, <3>1 DEF Quiet
    <3>3. unscanned' # Ends
      BY <1>2
    <3>4. ASSUME NEW p \in Ends, p \notin unscanned'
          PROVE  Quiet(session_state'[p])
      <4>1. p = x \/ p \in Ends \ unscanned
        BY <1>2, <3>4
      <4> QED
        BY Zenon, <2>1, <2>5, <3>2, <4>1 DEF JointDown
    <3>5. \A p \in Ends : route'[p] = NoRoute
      BY Zenon, <2>1, <2>5 DEF JointDown
    <3>6. JointDown'
      BY <3>3, <3>4, <3>5 DEF JointDown
    <3> QED
      BY Zenon, <1>1, <2>1, <2>3, <3>6 DEF JointInv
  <2> QED
    BY Zenon, <1>1, <2>4, <2>5
<1>8. CASE RefreshSession(x)
  <2>1. UNCHANGED <<route, broken>> /\ faults' = {}
    BY Zenon, <1>1, <1>8 DEF RefreshSession
  <2>2. CASE JointUp
    <3>1. session_state[x] = "ACTIVE" /\ OpenAfter(x, <<>>)
      BY Zenon, <1>5, <1>8, <2>2 DEF RefreshSession
    <3>2. Opens(x, <<>>)
      BY Zenon, <1>1, <2>1, <3>1, OpenMoves, EmptyOK
    <3>3. Moves(x, "OPENWAIT", 1, 0, <<>> \o <<OpenMsg(x, 0)>>, FALSE)
      BY Zenon, <1>5, <2>2, <3>2 DEF Opens
    <3>4. <<>> \o <<OpenMsg(x, 0)>> = <<OpenMsg(x, 0)>>
      OBVIOUS
    <3>5. Moves(x, "OPENWAIT", 1, 0, <<OpenMsg(x, 0)>>, FALSE)
      BY Zenon, <3>3, <3>4
    <3>6. Quiet(session_state[x])
      BY Zenon, <3>1, KindsDiffer
    <3>7. JointUp' /\ QuietExpectsOpen'
      BY Zenon, <1>1, <1>2, <2>2, <3>5, <3>6, RescanUp
    <3> QED
      BY Zenon, <2>1, <3>7 DEF JointInv
  <2>3. CASE JointDown
    <3>1. Become(x, "ACTIVE", 0, 0, FALSE, 0) /\ queue' = Queued(x, CloseMsgs(x))
      BY Zenon, <1>6, <1>8, <2>3 DEF RefreshSession
    <3>2. Moves(x, "ACTIVE", 0, 0, CloseMsgs(x), FALSE)
      BY Zenon, <1>1, <2>1, <3>1, CloseMoves
    <3>3. Quiet("ACTIVE")
      BY Zenon, KindsDiffer
    <3>4. JointDown' /\ QuietExpectsOpen'
      BY Zenon, <1>1, <1>2, <2>3, <3>2, <3>3, DownStep
    <3> QED
      BY Zenon, <2>1, <3>4 DEF JointInv
  <2> QED
    BY Zenon, <1>1, <2>2, <2>3
<1> QED
  BY Zenon, <1>7, <1>8 DEF Rescan

(* When nothing is under way the numbers agree, with routes or without.    *)
LEMMA SettledSync ==
  ASSUME SessionInv, JointInv, Drained, unscanned \in {{}, Ends}, NEW p \in Ends
  PROVE  recv_seq_num[p] = send_seq_num[Other[p]]
<1>0. Other[p] \in Ends
  OBVIOUS
<1>1. QuietExpectsOpen /\ (JointUp \/ JointDown)
  BY Zenon DEF JointInv
<1>2. Out(p) = <<>> /\ Out(Other[p]) = <<>>
  BY Zenon, <1>0, DrainedOut
<1>3. CASE JointUp
  <2>1. PairOK(p)
    BY Zenon, <1>3 DEF JointUp
  <2> QED
    BY Zenon, <1>1, <1>2, <2>1, DrainedSync
<1>4. CASE JointDown /\ unscanned = Ends
  <2>1. SyncAt(send_seq_num[Other[p]], recv_seq_num[p], <<>>)
    BY Zenon, <1>2, <1>4 DEF JointDown, InSync
  <2>2. recv_seq_num[p] \in Nat
    BY Zenon, EndTypes
  <2> QED
    BY <2>1, <2>2 DEF SyncAt
<1>5. CASE JointDown /\ unscanned = {}
  <2>1. Quiet(session_state[p]) /\ Quiet(session_state[Other[p]])
    BY <1>0, <1>5 DEF JointDown
  <2>2. recv_seq_num[p] = 0
    BY Zenon, <1>1, <2>1 DEF QuietExpectsOpen
  <2>3. StateOK(session_state[Other[p]], send_seq_num[Other[p]], recv_seq_num[Other[p]])
    BY Zenon, <1>0, EndOK
  <2>4. send_seq_num[Other[p]] = 0
    BY Zenon, <2>1, <2>3, StateFacts
  <2> QED
    BY Zenon, <2>2, <2>4
<1> QED
  BY <1>1, <1>3, <1>4, <1>5

LEMMA TopologyJoint ==
  ASSUME SafeInv, JointInv, NEW P \in Directions, NEW r \in Paths \union {NoRoute},
         ScriptTopology(P, r), ~oneway'
  PROVE  JointInv'
<1>1. /\ SessionInv /\ Drained /\ faults' = {} /\ QuietExpectsOpen
      /\ unscanned \in {{}, Ends} /\ unscanned' = Ends /\ queue' = queue /\ P = Ends
      /\ route' = [p \in Ends |-> IF p \in P THEN r ELSE route[p]]
      /\ UNCHANGED <<session_state, send_seq_num, recv_seq_num>>
  BY Zenon DEF SafeInv, JointInv, ScriptTopology, SessionUnchanged
<1>2. \A p \in Ends : route'[p] = r
  BY <1>1
<1>3. \A p \in Ends, v \in Paths : queue'[p][v] = <<>>
  BY Zenon, <1>1, DrainedOut
<1>4. \A p \in Ends : Out(p)' = <<>>
  BY <1>2, <1>3 DEF Out
<1>5. ASSUME NEW p \in Ends
      PROVE  InSync(p)'
  <2>1. Other[p] \in Ends
    OBVIOUS
  <2>2. recv_seq_num[p] = send_seq_num[Other[p]] /\ recv_seq_num[p] \in Nat
    BY Zenon, <1>1, SettledSync, EndTypes
  <2>3. SyncAt(recv_seq_num[p], recv_seq_num[p], <<>>)
    BY Zenon, <2>2, SyncEmpty
  <2>4. Out(Other[p])' = <<>>
    BY Zenon, <1>4, <2>1
  <2> QED
    BY Zenon, <1>1, <2>2, <2>3, <2>4 DEF InSync
<1>6. ASSUME NEW p \in Ends
      PROVE  PairOK(p)'
  <2>1. Other[p] \in Ends /\ Other[Other[p]] = p
    OBVIOUS
  <2>2. InSync(p)' /\ InSync(Other[p])'
    BY Zenon, <1>5, <2>1
  <2> QED
    BY Zenon, <2>1, <2>2 DEF PairOK, PairAt, InSync
<1>7. QuietExpectsOpen'
  BY Zenon, <1>1 DEF QuietExpectsOpen
<1>8. CASE r = NoRoute
  <2>1. JointDown'
    BY <1>1, <1>2, <1>5, <1>8 DEF JointDown
  <2> QED
    BY Zenon, <1>1, <1>7, <2>1 DEF JointInv
<1>9. CASE r # NoRoute
  <2>1. JointUp'
    BY Zenon, <1>1, <1>2, <1>5, <1>6, <1>9 DEF JointUp
  <2> QED
    BY Zenon, <1>1, <1>7, <2>1 DEF JointInv
<1> QED
  BY <1>8, <1>9

LEMMA JointInit == ScriptInit => JointInv
<1> SUFFICES ASSUME ScriptInit PROVE JointInv
  OBVIOUS
<1>1. SafeInv /\ Init /\ unscanned = {}
  BY Zenon, SafeInit DEF ScriptInit
<1>2. SessionInv /\ Drained
  BY <1>1 DEF SafeInv, Init, Drained, InFlight
<1>3. ASSUME NEW p \in Ends
      PROVE  PairOK(p) /\ route[p] # NoRoute /\ ~BothActive(p) /\ recv_seq_num[p] = 0
  <2>1. Other[p] \in Ends
    OBVIOUS
  <2>2. Out(p) = <<>> /\ Out(Other[p]) = <<>>
    BY Zenon, <1>2, <2>1, DrainedOut
  <2>3. /\ send_seq_num[p] = 0 /\ recv_seq_num[p] = 0
        /\ send_seq_num[Other[p]] = 0 /\ recv_seq_num[Other[p]] = 0
        /\ session_state[p] # "ACTIVE" /\ route[p] # NoRoute
    BY <1>1, <2>1 DEF Init
  <2>4. SyncAt(0, 0, <<>>)
    BY SyncEmpty
  <2>5. PairOK(p)
    BY Zenon, <2>2, <2>3, <2>4 DEF PairOK, PairAt
  <2> QED
    BY Zenon, <2>3, <2>5 DEF BothActive
<1>4. JointUp
  BY Zenon, <1>1, <1>3 DEF JointUp
<1>5. QuietExpectsOpen /\ faults = {}
  BY Zenon, <1>1, <1>3 DEF QuietExpectsOpen, Init
<1> QED
  BY Zenon, <1>4, <1>5 DEF JointInv

LEMMA JointNext ==
  ASSUME SafeInv, JointInv, [ScriptNext]_scriptVars, ~StopStep, ~oneway'
  PROVE  JointInv'
<1>1. CASE ScriptNext
  BY Zenon, <1>1, CommandJoint, RescanJoint, TopologyJoint, SimJoint
  DEF ScriptNext, StopStep
<1>2. CASE UNCHANGED scriptVars
  <2>1. UNCHANGED <<session_state, send_seq_num, recv_seq_num, queue, route, faults,
                    unscanned>>
    BY <1>2 DEF scriptVars, vars
  <2>2. \A p \in Ends : (InSync(p)' <=> InSync(p)) /\ (PairOK(p)' <=> PairOK(p))
    BY Zenon, <2>1 DEF InSync, PairOK, Out
  <2>3. \A p \in Ends : BothActive(p)' <=> BothActive(p)
    BY Zenon, <2>1 DEF BothActive
  <2>4. JointUp => JointUp'
    BY Zenon, <2>1, <2>2, <2>3 DEF JointUp
  <2>5. JointDown => JointDown'
    BY Zenon, <2>1, <2>2 DEF JointDown
  <2>6. QuietExpectsOpen'
    BY Zenon, <2>1 DEF JointInv, QuietExpectsOpen
  <2>7. faults' = {} /\ (JointUp \/ JointDown)
    BY Zenon, <2>1 DEF JointInv
  <2> QED
    BY Zenon, <2>4, <2>5, <2>6, <2>7 DEF JointInv
<1> QED
  BY <1>1, <1>2

(* oneway, once true, stays true.                                          *)
LEMMA OnewayStays ==
  ASSUME [ScriptNext]_scriptVars, oneway
  PROVE  oneway'
<1>1. CASE UNCHANGED scriptVars
  BY <1>1 DEF scriptVars
<1>2. CASE ScriptNext
  BY Zenon, <1>2 DEF ScriptNext, ScriptCommand, Rescan, ScriptTopology, ScriptSimStep
<1> QED
  BY <1>1, <1>2

-----------------------------------------------------------------------------
(* Only an end that is up has an OPEN under way.                           *)

LEMMA UpStates ==
  /\ "ACTIVE" # "IDLE" /\ "OPENWAIT" # "IDLE" /\ "ESTABLISHED" # "IDLE"
  /\ ~InSession("IDLE")
BY DEF InSession

LEMMA OpenerStep ==
  ASSUME SessionInv, PairsOK, OpenerIsUp, NEW x \in Ends, NEW state, NEW snd, NEW rcv,
         NEW msgs, NEW taken \in BOOLEAN, Moves(x, state, snd, rcv, msgs, taken),
         taken => Out(Other[x]) # <<>>,
         state = "IDLE" => "OPEN" \notin Kinds(Out(x)) \union Kinds(msgs)
  PROVE  OpenerIsUp'
<1> DEFINE y == Other[x]
<1>1. y \in Ends /\ y # x
  OBVIOUS
<1>2. Posted(x, msgs, taken) /\ MsgsOK(msgs) /\ session_state'[x] = state
  BY Zenon DEF Moves
<1>3. \A e \in Ends \ {x} : session_state'[e] = session_state[e]
  BY Zenon DEF Moves, OthersKeep
<1>4. "OPEN" \in Kinds(Out(x)') => session_state'[x] # "IDLE"
  BY Zenon, <1>2, SentKinds
<1>5. "OPEN" \in Kinds(Out(y)') => session_state'[y] # "IDLE"
  <2>1. Kinds(Out(y)') \subseteq Kinds(Out(y))
    BY Zenon, <1>1, <1>2, TakenKinds, PairFacts
  <2> QED
    BY Zenon, <1>1, <1>3, <2>1 DEF OpenerIsUp
<1>6. ASSUME NEW p \in Ends, p \notin {x, y}
      PROVE  "OPEN" \in Kinds(Out(p)') => session_state'[p] # "IDLE"
  <2>1. Out(p)' = Out(p)
    BY Zenon, <1>2, <1>6 DEF Posted
  <2> QED
    BY Zenon, <1>3, <1>6, <2>1 DEF OpenerIsUp
<1> QED
  BY Zenon, <1>4, <1>5, <1>6 DEF OpenerIsUp

LEMMA OpeningOpener ==
  ASSUME SessionInv, PairsOK, OpenerIsUp, NEW x \in Ends, NEW before, Opens(x, before)
  PROVE  OpenerIsUp'
BY Zenon, OpenerStep, UpStates DEF Opens

LEMMA CommandOpener ==
  ASSUME SafeInv, OpenerIsUp, NEW x \in Ends, ScriptCommand(x)
  PROVE  OpenerIsUp'
<1>1. SessionInv /\ OnRoute /\ PairsOK
  BY Zenon DEF SafeInv
<1>2. UNCHANGED <<route, broken>>
  BY Zenon DEF ScriptCommand, OpenSession, CloseSession, ResetSession, Disseminate
<1>3. CASE OpenSession(x)
  <2>1. Opens(x, <<>>)
    BY Zenon, <1>1, <1>2, <1>3, OpenMoves, EmptyOK DEF OpenSession
  <2> QED
    BY Zenon, <1>1, <2>1, OpeningOpener
<1>4. CASE Drained /\ CloseSession(x)
  <2>1. Become(x, "IDLE", 0, 0, FALSE, 0) /\ queue' = Queued(x, CloseMsgs(x))
    BY Zenon, <1>4 DEF CloseSession
  <2>2. Moves(x, "IDLE", 0, 0, CloseMsgs(x), FALSE)
    BY Zenon, <1>1, <1>2, <2>1, CloseMoves
  <2>3. Kinds(Out(x)) = {} /\ Kinds(CloseMsgs(x)) \subseteq {"CLOSE"}
    BY Zenon, <1>1, <1>4, DrainedOut, KindsClose, KindsEmpty
  <2>4. "OPEN" \notin Kinds(Out(x)) \union Kinds(CloseMsgs(x))
    BY <2>3
  <2> QED
    BY Zenon, <1>1, <2>2, <2>4, OpenerStep
<1>5. CASE Drained /\ ResetSession(x)
  <2>1. Opens(x, CloseMsgs(x))
    BY Zenon, <1>1, <1>2, <1>5, OpenMoves, CloseMsgsOK DEF ResetSession
  <2> QED
    BY Zenon, <1>1, <2>1, OpeningOpener
<1>6. ASSUME NEW burst \in Bursts(x), Disseminate(x, burst)
      PROVE  OpenerIsUp'
  <2>1. Moves(x, session_state[x], send_seq_num[x] + Len(burst), recv_seq_num[x],
              Numbered(burst, send_seq_num[x], incarnation[x]), FALSE)
    BY Zenon, <1>1, <1>6, TellMoves
  <2>2. session_state[x] = "ESTABLISHED"
    BY Zenon, <1>6 DEF Disseminate
  <2> QED
    BY Zenon, <1>1, <2>1, <2>2, OpenerStep, UpStates
<1> QED
  BY Zenon, <1>3, <1>4, <1>5, <1>6 DEF ScriptCommand

LEMMA RescanOpener ==
  ASSUME SafeInv, OpenerIsUp, NEW x \in Ends, Rescan(x)
  PROVE  OpenerIsUp'
<1>1. SessionInv /\ OnRoute /\ PairsOK
  BY Zenon DEF SafeInv
<1>2. CASE UNCHANGED vars
  <2>1. UNCHANGED <<session_state, queue, route>>
    BY <1>2 DEF vars
  <2> QED
    BY Zenon, <2>1 DEF OpenerIsUp, Out
<1>3. CASE RefreshSession(x)
  <2>1. UNCHANGED <<route, broken>>
    BY Zenon, <1>3 DEF RefreshSession
  <2>2. CASE /\ Become(x, "ACTIVE", 0, 0, FALSE, 0)
             /\ queue' = Queued(x, CloseMsgs(x))
    <3>1. Moves(x, "ACTIVE", 0, 0, CloseMsgs(x), FALSE)
      BY Zenon, <1>1, <2>1, <2>2, CloseMoves
    <3> QED
      BY Zenon, <1>1, <3>1, OpenerStep, UpStates
  <2>3. CASE OpenAfter(x, <<>>)
    <3>1. Opens(x, <<>>)
      BY Zenon, <1>1, <2>1, <2>3, OpenMoves, EmptyOK
    <3> QED
      BY Zenon, <1>1, <3>1, OpeningOpener
  <2> QED
    BY Zenon, <1>3, <2>2, <2>3 DEF RefreshSession
<1> QED
  BY Zenon, <1>2, <1>3 DEF Rescan

LEMMA TopologyOpener ==
  ASSUME SafeInv, NEW P \in Directions, NEW r \in Paths \union {NoRoute},
         ScriptTopology(P, r)
  PROVE  OpenerIsUp'
<1>1. SessionInv /\ Drained /\ queue' = queue
  BY Zenon DEF SafeInv, ScriptTopology
<1>2. SessionInv'
  BY Zenon, TopologySafe DEF SafeInv
<1>3. Drained'
  BY Zenon, <1>1 DEF Drained, InFlight
<1>4. ASSUME NEW p \in Ends
      PROVE  "OPEN" \notin Kinds(Out(p))'
  <2>1. \A v \in Paths : queue'[p][v] = <<>>
    BY Zenon, <1>1, DrainedOut
  <2>2. route'[p] \in Paths \union {NoRoute}
    BY <1>2 DEF SessionInv, TypeOK
  <2>3. Out(p)' = <<>>
    BY <2>1, <2>2 DEF Out
  <2>4. Kinds(Out(p)') = {}
    BY Zenon, <2>3, KindsEmpty
  <2> QED
    BY <2>4
<1> QED
  BY Zenon, <1>4 DEF OpenerIsUp

LEMMA EstablishedOpener ==
  ASSUME SessionInv, PairsOK, OpenerIsUp, NEW x \in Ends, NEW snd, NEW rcv, NEW msgs,
         Moves(x, "ESTABLISHED", snd, rcv, msgs, TRUE), Out(Other[x]) # <<>>
  PROVE  OpenerIsUp'
BY Zenon, OpenerStep, UpStates

(* A handler sends an OPEN only when it establishes the session.           *)
LEMMA HandleOpener ==
  ASSUME SessionInv, OnRoute, PairsOK, OpenerIsUp, NEW x \in Ends, NEW v \in Paths,
         HandleMessage(x, v), ~OpenMeetsIdle(x, v)
  PROVE  OpenerIsUp'
<1>1. session_state[x] = "IDLE" => "OPEN" \notin Kinds(Out(x)) \union Kinds(<<>>)
  BY Zenon, KindsEmpty DEF OpenerIsUp
<1>2. CASE ReceiveOutOfSeq(x, v)
  <2>1. /\ Out(Other[x]) # <<>>
        /\ Moves(x, session_state[x], send_seq_num[x], recv_seq_num[x], <<>>, TRUE)
    BY Zenon, <1>2, OutOfSeqMoves
  <2> QED
    BY Zenon, <1>1, <2>1, OpenerStep
<1>3. ASSUME NEW burst \in Bursts(x), ReceiveOpen(x, v, burst)
      PROVE  OpenerIsUp'
  <2>1. session_state[x] # "IDLE"
    BY Zenon, <1>3 DEF OpenMeetsIdle
  <2>2. /\ Out(Other[x]) # <<>>
        /\ \/ Moves(x, "ESTABLISHED", send_seq_num[x] + 1 + Len(burst),
                    recv_seq_num[x] + 1, OpenAnswer(x, burst), TRUE)
           \/ Moves(x, "ESTABLISHED", send_seq_num[x] + Len(burst),
                    recv_seq_num[x] + 1, RouteAnswer(x, burst), TRUE)
    BY Zenon, <1>3, <2>1, OpenRcvdMoves
  <2> QED
    BY Zenon, <2>2, EstablishedOpener
<1>4. CASE ReceiveClose(x, v)
  <2>1. /\ Out(Other[x]) # <<>>
        /\ \/ Moves(x, "ACTIVE", 0, 0, <<>>, TRUE)
           \/ Moves(x, session_state[x], send_seq_num[x], recv_seq_num[x] + 1,
                    <<>>, TRUE)
    BY Zenon, <1>4, CloseRcvdMoves
  <2> QED
    BY Zenon, <1>1, <2>1, OpenerStep, UpStates
<1>5. ASSUME NEW burst \in Bursts(x), ReceiveRoute(x, v, burst)
      PROVE  OpenerIsUp'
  <2>1. Warned(x)
    BY Zenon DEF PairsOK
  <2> QED
    BY Zenon, <1>5, <2>1, RouteRcvdMoves, EstablishedOpener
<1> QED
  BY Zenon, <1>2, <1>3, <1>4, <1>5 DEF HandleMessage

LEMMA OpenerNext ==
  ASSUME SafeInv, OpenerIsUp, [ScriptNext]_scriptVars, ~StopStep
  PROVE  OpenerIsUp'
<1>1. CASE ScriptSimStep
  <2>1. PICK x \in Ends, v \in Paths : HandleMessage(x, v)
    BY Zenon, <1>1 DEF ScriptSimStep, SimStep
  <2> QED
    BY Zenon, <1>1, <2>1, HandleOpener DEF StopStep, SafeInv
<1>2. CASE ScriptNext
  BY Zenon, <1>1, <1>2, CommandOpener, RescanOpener, TopologyOpener DEF ScriptNext
<1>3. CASE UNCHANGED scriptVars
  <2>1. UNCHANGED <<session_state, queue, route>>
    BY <1>3 DEF scriptVars, vars
  <2> QED
    BY Zenon, <2>1 DEF OpenerIsUp, Out
<1> QED
  BY <1>2, <1>3

LEMMA OpenerInit == ScriptInit => OpenerIsUp
<1> SUFFICES ASSUME ScriptInit, NEW p \in Ends
             PROVE  "OPEN" \notin Kinds(Out(p))
  BY Zenon DEF OpenerIsUp
<1>1. SessionInv /\ Drained
  BY SafeInit DEF SafeInv, ScriptInit, Init, Drained, InFlight
<1>2. Kinds(Out(p)) = {}
  BY Zenon, <1>1, DrainedOut
<1> QED
  BY <1>2

-----------------------------------------------------------------------------
(* The abort() of an OPEN that meets an IDLE end.                          *)

LEMMA Stopping ==
  ASSUME SafeInv, OpenerIsUp, ~oneway => JointInv, StopStep
  PROVE  Stopped'
<1>1. PICK x \in Ends, v \in Paths : OpenMeetsIdle(x, v)
  BY Zenon DEF StopStep
<1>2. PICK burst \in Bursts(x) : ReceiveOpen(x, v, burst)
  BY Zenon, <1>1 DEF OpenMeetsIdle
<1>3. session_state[x] = "IDLE" /\ Arrives(x, v, {"OPEN"})
  BY Zenon, <1>1, <1>2 DEF OpenMeetsIdle, ReceiveOpen
<1>4. Abort("open_in_idle")
  BY <1>2, <1>3 DEF ReceiveOpen
<1>5. /\ faults' = faults \union {"open_in_idle"} /\ queue' = queue
      /\ session_state' = session_state
      /\ unscanned = {} /\ unscanned' = unscanned /\ oneway' = oneway
  BY Zenon, <1>4 DEF Abort, StopStep, ScriptSimStep
<1>6. /\ faults \cap Aborts = {} /\ (~oneway => faults = {})
      /\ SessionInv /\ OnRoute /\ Other[x] \in Ends
  BY Zenon, PairFacts DEF SafeInv, JointInv, Running
<1>7. FrontMsg(x).type \in {"OPEN"} /\ FrontMsg(x).type \in Kinds(Out(Other[x]))
      /\ InFlight(Other[x])
  BY Zenon, <1>3, <1>6, Front
<1>8. "OPEN" \in Kinds(Out(Other[x]))
  BY <1>7
<1>9. session_state[Other[x]] # "IDLE"
  BY Zenon, <1>6, <1>8 DEF OpenerIsUp
<1>10. \E p \in Ends : session_state'[p] = "IDLE" /\ session_state'[Other[p]] # "IDLE"
  BY Zenon, <1>3, <1>5, <1>9
<1>11. ~Drained'
  BY Zenon, <1>5, <1>6, <1>7 DEF Drained, InFlight
<1>12. /\ faults' \cap Aborts = {"open_in_idle"}
       /\ ~oneway' => faults' = {"open_in_idle"}
  BY <1>5, <1>6 DEF Aborts
<1>13. unscanned' = {}
  BY Zenon, <1>5
<1> QED
  BY Zenon, <1>10, <1>11, <1>12, <1>13 DEF Stopped

LEMMA StaysStopped ==
  ASSUME Stopped, [ScriptNext]_scriptVars
  PROVE  Stopped'
<1>1. CASE UNCHANGED scriptVars
  <2>1. UNCHANGED <<session_state, queue, faults, unscanned, oneway>>
    BY <1>1 DEF scriptVars, vars
  <2> QED
    BY Zenon, <2>1 DEF Stopped, Drained, InFlight
<1>2. CASE ScriptNext
  <2>1. ~Running
    BY DEF Stopped, Running
  <2>2. unscanned = {}
    BY Zenon DEF Stopped
  <2>3. ~(\E p \in Ends : Rescan(p))
    BY <2>2 DEF Rescan
  <2>4. ~ScriptSimStep
    <3>1. \A p \in Ends, v \in Paths : \A types : ~Arrives(p, v, types)
      BY Zenon, <2>1 DEF Arrives
    <3>2. \A p \in Ends, v \in Paths : ~ReceiveOutOfSeq(p, v) /\ ~ReceiveClose(p, v)
      BY Zenon, <3>1 DEF ReceiveOutOfSeq, ReceiveClose
    <3>3. \A p \in Ends, v \in Paths : \A burst : ~ReceiveOpen(p, v, burst)
      BY Zenon, <3>1 DEF ReceiveOpen
    <3>4. \A p \in Ends, v \in Paths : \A burst : ~ReceiveRoute(p, v, burst)
      BY Zenon, <3>1 DEF ReceiveRoute
    <3>5. \A p \in Ends, v \in Paths : ~HandleMessage(p, v)
      BY Zenon, <3>2, <3>3, <3>4 DEF HandleMessage
    <3> QED
      BY Zenon, <3>5 DEF ScriptSimStep, SimStep
  <2>5. \A p \in Ends : ~ScriptCommand(p)
    <3>1. \A p \in Ends : ~OpenSession(p) /\ ~CloseSession(p) /\ ~ResetSession(p)
      BY Zenon, <2>1 DEF OpenSession, CloseSession, ResetSession, MayCommand
    <3>2. \A p \in Ends : \A burst : ~Disseminate(p, burst)
      BY Zenon, <2>1 DEF Disseminate
    <3> QED
      BY Zenon, <3>1, <3>2 DEF ScriptCommand
  <2>6. \A P \in Directions, r \in Paths \union {NoRoute} : ~ScriptTopology(P, r)
    BY Zenon, <2>1 DEF ScriptTopology
  <2> QED
    BY Zenon, <1>2, <2>3, <2>4, <2>5, <2>6 DEF ScriptNext
<1> QED
  BY <1>1, <1>2

-----------------------------------------------------------------------------
(* The theorems.                                                           *)

(* ScriptInv is inductive.                                                 *)
LEMMA ScriptInvariant == ScriptSpec => []ScriptInv
<1>1. ScriptInit => ScriptInv
  BY Zenon, SafeInit, OpenerInit, JointInit DEF ScriptInv
<1>2. ScriptInv /\ [ScriptNext]_scriptVars => ScriptInv'
  BY Zenon, SafeNext, OpenerNext, JointNext, OnewayStays, Stopping, StaysStopped
  DEF ScriptInv
<1> QED
  BY <1>1, <1>2, PTL DEF ScriptSpec

(* The only abort() that a script which follows the manual meets is that   *)
(* of an OPEN that reaches an end left down while the other end of the     *)
(* peering was started, and sim run never stops with a message out of      *)
(* sequence as long as the two directions of every peering fail and        *)
(* recover together, for any number of peerings and paths and any number   *)
(* of changes.                                                             *)
THEOREM ScriptsRunThrough == ScriptSpec => []RunsThrough
<1>1. ScriptInv => RunsThrough
  <2>1. CASE SafeInv /\ OpenerIsUp /\ (~oneway => JointInv)
    <3>1. faults \cap Aborts = {} /\ (~oneway => faults = {})
      BY Zenon, <2>1 DEF SafeInv, JointInv, Running
    <3>2. "open_in_idle" \notin faults
      BY <3>1 DEF Aborts
    <3> QED
      BY Zenon, <3>1, <3>2 DEF RunsThrough
  <2>2. CASE Stopped
    BY Zenon, <2>2 DEF Stopped, RunsThrough
  <2> QED
    BY Zenon, <2>1, <2>2 DEF ScriptInv
<1> QED
  BY <1>1, ScriptInvariant, PTL

(* Once everything is rescanned and handled, two ends that are up are      *)
(* ESTABLISHED exactly if they reach each other, and ACTIVE otherwise.     *)
THEOREM SessionsTrackTopology == ScriptSpec => []SessionsFollowTopology
<1>1. ScriptInv => SessionsFollowTopology
  <2> SUFFICES ASSUME ScriptInv, Settled, ~oneway, NEW p \in Ends,
                      session_state[p] # "IDLE", session_state[Other[p]] # "IDLE"
               PROVE  session_state[p] = IF session_ok(p) THEN "ESTABLISHED" ELSE "ACTIVE"
    BY Zenon DEF SessionsFollowTopology
  <2> DEFINE y == Other[p]
  <2>1. /\ SessionInv /\ OnRoute /\ QuietExpectsOpen /\ Drained /\ unscanned = {}
        /\ JointUp \/ JointDown
    BY Zenon DEF ScriptInv, SafeInv, JointInv, Stopped, Settled
  <2>2. y \in Ends /\ Other[y] = p
    OBVIOUS
  <2>3. session_ok(p) <=> route[p] # NoRoute /\ route[y] # NoRoute
    BY Zenon, <2>1, SessionOkUp
  <2>4. CASE JointUp
    <3>1. PairOK(p) /\ PairOK(y) /\ ~BothActive(p) /\ session_ok(p)
      BY <2>1, <2>2, <2>3, <2>4 DEF JointUp
    <3>2. Out(p) = <<>> /\ Out(y) = <<>>
      BY Zenon, <2>1, <2>2, DrainedOut
    <3>3. InSession(session_state[p]) => session_state[p] = "ESTABLISHED"
      BY Zenon, <2>1, <3>1, <3>2, DrainedSync
    <3>4. InSession(session_state[y]) => session_state[p] = "ESTABLISHED"
      BY Zenon, <2>1, <2>2, <3>1, <3>2, DrainedSync
    <3>5. session_state[p] \in States /\ session_state[y] \in States
      BY Zenon, <2>1, <2>2, EndTypes
    <3>6. session_state[p] = "ESTABLISHED"
      BY <3>1, <3>3, <3>4, <3>5 DEF States, InSession, BothActive
    <3> QED
      BY Zenon, <3>1, <3>6
  <2>5. CASE JointDown
    <3>1. Quiet(session_state[p]) /\ ~session_ok(p)
      BY <2>1, <2>3, <2>5 DEF JointDown
    <3>2. session_state[p] = "ACTIVE"
      BY <3>1 DEF Quiet
    <3> QED
      BY Zenon, <3>1, <3>2
  <2> QED
    BY Zenon, <2>1, <2>4, <2>5
<1> QED
  BY <1>1, ScriptInvariant, PTL
=============================================================================
