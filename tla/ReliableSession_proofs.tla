----------------------- MODULE ReliableSession_proofs -----------------------
(***************************************************************************)
(* Proofs about BGPSession over a reliable network, one path that never    *)
(* changes, for any number of peerings and whatever the user does: the     *)
(* setting of the run that checks SameSession, SettledAgreement and        *)
(* RouteAbortsAfterError.                                                  *)
(*                                                                         *)
(* None of them is inductive.  They rest on what travels: the numbers and  *)
(* incarnations along a queue, up to those its sender will use next, form  *)
(* a stream (Stream), and what a receiver expects is the next element of   *)
(* that stream, or else the stream goes on with another session            *)
(* (ReceiverInStep).  An end whose messages are all handled faces an       *)
(* ESTABLISHED one, or a CLOSE is on its way to it (AnswerUnderWay).       *)
(***************************************************************************)
EXTENDS BGPSession_proofs

USE EndsAssumption, AdvertsAssumption, PathsAssumption, BoundsAssumption

(* Nothing disturbs the only path.                                         *)
Reliable == Faults = {} /\ \A v, w \in Paths : v = w

Path == CHOOSE v \in Paths : TRUE

InSession(state) == state \in {"OPENWAIT", "ESTABLISHED"}

-----------------------------------------------------------------------------
(* Streams of messages.                                                    *)

(* A message numbered n of incarnation i may follow m.                     *)
After(m, n, i) ==
  n = 0 \/ (m.type # "CLOSE" /\ n = m.seq_num + 1 /\ i = m.inc)

(* The number and incarnation s starts with, if n and i follow it.         *)
FirstNum(s, n) == IF s = <<>> THEN n ELSE s[1].seq_num
FirstInc(s, i) == IF s = <<>> THEN i ELSE s[1].inc

(* s, followed by a message numbered n of incarnation i.                   *)
Stream(s, n, i) ==
  \A k \in 1..Len(s) :
    IF k < Len(s) THEN After(s[k], s[k + 1].seq_num, s[k + 1].inc)
                  ELSE After(s[k], n, i)

Has(s, type) == \E k \in 1..Len(s) : s[k].type = type

-----------------------------------------------------------------------------
(* The inductive invariant.                                                *)

(* What p sends is a stream that goes on with its next message.            *)
SenderInStep(p) == Stream(queue[p][Path], send_seq_num[p], incarnation[p])

(* An end that has received something is in step with the other one, or    *)
(* the next thing it hears of is a new session.                            *)
ReceiverInStep(p) ==
  LET q == Other[p]
      n == FirstNum(queue[q][Path], send_seq_num[q])
      i == FirstInc(queue[q][Path], incarnation[q])
  IN recv_seq_num[p] > 0 =>
       \/ n = 0
       \/ /\ session_state[p] = "ESTABLISHED"
          /\ n = recv_seq_num[p] /\ i = accepted[p]

(* Once all that p sent is handled, the other end is ESTABLISHED, and has  *)
(* sent the OPEN that p still waits for, unless it has closed the session. *)
AnswerUnderWay(p) ==
  LET q == Other[p]
  IN InSession(session_state[p]) /\ queue[p][Path] = <<>> =>
       \/ Has(queue[q][Path], "CLOSE")
       \/ /\ session_state[q] = "ESTABLISHED"
          /\ session_state[p] = "OPENWAIT" => Has(queue[q][Path], "OPEN")

(* An end that waits has sent its OPEN and nothing else.                   *)
OnlyOpenSent(p) == session_state[p] = "OPENWAIT" => send_seq_num[p] = 1

InStep(p) ==
  SenderInStep(p) /\ ReceiverInStep(p) /\ AnswerUnderWay(p) /\ OnlyOpenSent(p)

ReliableInv ==
  /\ SessionInv
  /\ \A p \in Ends : Reaches(p)
  /\ faults = {} => \A p \in Ends : InStep(p)
  /\ RouteAbortsAfterError

-----------------------------------------------------------------------------
(* Lemmas about streams.                                                   *)

LEMMA StreamEmpty ==
  ASSUME NEW n, NEW i
  PROVE  Stream(<<>>, n, i) /\ FirstNum(<<>>, n) = n /\ FirstInc(<<>>, i) = i
BY DEF Stream, FirstNum, FirstInc

(* A session may end without a CLOSE: the next message is then an OPEN.    *)
LEMMA StreamReset ==
  ASSUME NEW s, NEW n, NEW i, NEW j, Stream(s, n, i)
  PROVE  Stream(s, 0, j)
BY DEF Stream, After

LEMMA StreamSingle ==
  ASSUME NEW m, NEW n, NEW i, After(m, n, i)
  PROVE  /\ Stream(<<m>>, n, i)
         /\ FirstNum(<<m>>, n) = m.seq_num /\ FirstInc(<<m>>, i) = m.inc
BY DEF Stream, FirstNum, FirstInc

LEMMA EmptySeq ==
  ASSUME NEW S, NEW s \in Seq(S)
  PROVE  s = <<>> <=> Len(s) = 0
OBVIOUS

LEMMA StreamTail ==
  ASSUME NEW s \in Seq(Messages), NEW n, NEW i, s # <<>>, Stream(s, n, i)
  PROVE  /\ Stream(Tail(s), n, i)
         /\ After(s[1], FirstNum(Tail(s), n), FirstInc(Tail(s), i))
<1>0. Tail(s) \in Seq(Messages)
  OBVIOUS
<1>1. Len(s) \in Nat /\ Len(s) > 0 /\ Len(Tail(s)) = Len(s) - 1
  OBVIOUS
<1>2. \A k \in 1..Len(Tail(s)) : Tail(s)[k] = s[k + 1]
  OBVIOUS
<1>3. Stream(Tail(s), n, i)
  <2> SUFFICES ASSUME NEW k \in 1..Len(Tail(s))
               PROVE  IF k < Len(Tail(s))
                        THEN After(Tail(s)[k], Tail(s)[k + 1].seq_num,
                                   Tail(s)[k + 1].inc)
                        ELSE After(Tail(s)[k], n, i)
    BY DEF Stream
  <2>1. k + 1 \in 1..Len(s) /\ Tail(s)[k] = s[k + 1]
    BY <1>1, <1>2
  <2>2. CASE k < Len(Tail(s))
    <3>1. k + 1 < Len(s) /\ Tail(s)[k + 1] = s[(k + 1) + 1]
      BY <1>1, <1>2, <2>2
    <3> QED
      BY <2>1, <2>2, <3>1 DEF Stream
  <2>3. CASE ~(k < Len(Tail(s)))
    <3>1. ~(k + 1 < Len(s))
      BY <1>1, <2>3
    <3> QED
      BY <2>1, <2>3, <3>1 DEF Stream
  <2> QED
    BY <2>2, <2>3
<1>4. CASE Len(s) = 1
  <2>1. Tail(s) = <<>>
    <3>1. Len(Tail(s)) = 0
      BY <1>1, <1>4
    <3> QED
      BY Zenon, <1>0, <3>1, EmptySeq
  <2> QED
    BY <1>1, <1>3, <1>4, <2>1 DEF Stream, FirstNum, FirstInc
<1>5. CASE Len(s) > 1
  <2>1. Tail(s) # <<>> /\ Tail(s)[1] = s[2]
    <3>1. Len(Tail(s)) # 0
      BY <1>1, <1>5
    <3>2. 1 \in 1..Len(Tail(s)) /\ 1 + 1 = 2
      BY <1>1, <1>5
    <3>3. Tail(s)[1] = s[2]
      BY <1>2, <3>2
    <3> QED
      BY Zenon, <1>0, <3>1, <3>3, EmptySeq
  <2>2. After(s[1], s[2].seq_num, s[2].inc)
    BY <1>1, <1>5 DEF Stream
  <2> QED
    BY <1>3, <2>1, <2>2 DEF FirstNum, FirstInc
<1> QED
  BY <1>1, <1>4, <1>5

LEMMA FirstNumConcat ==
  ASSUME NEW s \in Seq(Messages), NEW t \in Seq(Messages), NEW n
  PROVE  FirstNum(s \o t, n) = FirstNum(s, FirstNum(t, n))
BY DEF FirstNum

LEMMA FirstIncConcat ==
  ASSUME NEW s \in Seq(Messages), NEW t \in Seq(Messages), NEW i
  PROVE  FirstInc(s \o t, i) = FirstInc(s, FirstInc(t, i))
BY DEF FirstInc

LEMMA StreamConcat ==
  ASSUME NEW s \in Seq(Messages), NEW t \in Seq(Messages),
         NEW n, NEW i, NEW n0, NEW i0,
         Stream(s, n0, i0), Stream(t, n, i),
         \/ FirstNum(t, n) = 0
         \/ FirstNum(t, n) = n0 /\ FirstInc(t, i) = i0
  PROVE  Stream(s \o t, n, i)
<1>1. \A k \in 1..Len(s) : (s \o t)[k] = s[k]
  OBVIOUS
<1>2. \A k \in 1..Len(t) : (s \o t)[Len(s) + k] = t[k]
  OBVIOUS
<1>3. /\ Len(s \o t) = Len(s) + Len(t)
      /\ Len(s) \in Nat /\ Len(t) \in Nat
  OBVIOUS
<1> SUFFICES ASSUME NEW k \in 1..Len(s \o t)
             PROVE  IF k < Len(s \o t)
                      THEN After((s \o t)[k], (s \o t)[k + 1].seq_num,
                                 (s \o t)[k + 1].inc)
                      ELSE After((s \o t)[k], n, i)
  BY DEF Stream
<1>4. CASE k < Len(s)
  <2>1. /\ k \in 1..Len(s) /\ k + 1 \in 1..Len(s) /\ k < Len(s \o t)
    BY <1>3, <1>4
  <2> QED
    BY <1>1, <1>4, <2>1 DEF Stream
<1>5. CASE k = Len(s)
  <2>1. k \in 1..Len(s) /\ (s \o t)[k] = s[k] /\ After(s[k], n0, i0)
    BY <1>1, <1>3, <1>5 DEF Stream
  <2>2. After(s[k], FirstNum(t, n), FirstInc(t, i))
    BY <2>1 DEF After
  <2>3. CASE t = <<>>
    BY <1>3, <1>5, <2>1, <2>2, <2>3 DEF FirstNum, FirstInc
  <2>4. CASE t # <<>>
    <3>1. Len(t) > 0 /\ k < Len(s \o t) /\ (s \o t)[k + 1] = t[1]
      BY <1>2, <1>3, <1>5, <2>4
    <3> QED
      BY <2>1, <2>2, <2>4, <3>1 DEF FirstNum, FirstInc
  <2> QED
    BY <2>3, <2>4
<1>6. CASE k > Len(s)
  <2> DEFINE j == k - Len(s)
  <2>1. j \in 1..Len(t) /\ k = Len(s) + j
    BY <1>3, <1>6
  <2>2. (s \o t)[k] = t[j]
    BY <1>2, <2>1
  <2>3. CASE j < Len(t)
    <3>1. k < Len(s \o t) /\ j + 1 \in 1..Len(t) /\ k + 1 = Len(s) + (j + 1)
      BY <1>3, <2>1, <2>3
    <3>2. (s \o t)[k + 1] = t[j + 1]
      BY <1>2, <3>1
    <3> HIDE DEF j
    <3> QED
      BY <2>1, <2>2, <2>3, <3>1, <3>2 DEF Stream
  <2>4. CASE ~(j < Len(t))
    <3>1. ~(k < Len(s \o t))
      BY <1>3, <2>1, <2>4
    <3> HIDE DEF j
    <3> QED
      BY <2>1, <2>2, <2>4, <3>1 DEF Stream
  <2> QED
    BY <2>3, <2>4
<1> QED
  BY <1>3, <1>4, <1>5, <1>6

(* A dissemination continues the numbers of its session.                   *)
LEMMA NumberedStream ==
  ASSUME NEW burst \in Seq(Adverts), NEW n \in Nat, NEW i
  PROVE  /\ Stream(Numbered(burst, n, i), n + Len(burst), i)
         /\ FirstNum(Numbered(burst, n, i), n + Len(burst)) = n
         /\ FirstInc(Numbered(burst, n, i), i) = i
<1> DEFINE N == Numbered(burst, n, i)
<1>1. Len(N) = Len(burst) /\ Len(burst) \in Nat
  BY DEF Numbered
<1>2. \A k \in 1..Len(burst) :
        /\ N[k].seq_num = n + (k - 1) /\ N[k].inc = i
        /\ N[k].type \in RouteTypes
  BY DEF Numbered
<1>3. N = <<>> <=> Len(burst) = 0
  BY DEF Numbered
<1> HIDE DEF N
<1>4. Stream(N, n + Len(burst), i)
  <2> SUFFICES ASSUME NEW k \in 1..Len(N)
               PROVE  IF k < Len(N)
                        THEN After(N[k], N[k + 1].seq_num, N[k + 1].inc)
                        ELSE After(N[k], n + Len(burst), i)
    BY DEF Stream
  <2>1. N[k].type # "CLOSE" /\ N[k].seq_num = n + (k - 1) /\ N[k].inc = i
    BY <1>1, <1>2 DEF RouteTypes
  <2>2. CASE k < Len(N)
    <3>1. N[k + 1].seq_num = n + ((k + 1) - 1) /\ N[k + 1].inc = i
      BY <1>1, <1>2, <2>2
    <3>2. n + ((k + 1) - 1) = (n + (k - 1)) + 1
      BY <1>1
    <3> QED
      BY <2>1, <2>2, <3>1, <3>2 DEF After
  <2>3. CASE ~(k < Len(N))
    <3>1. n + Len(burst) = (n + (k - 1)) + 1
      BY <1>1, <2>3
    <3> QED
      BY <2>1, <2>3, <3>1 DEF After
  <2> QED
    BY <2>2, <2>3
<1>5. FirstNum(N, n + Len(burst)) = n /\ FirstInc(N, i) = i
  <2>1. CASE Len(burst) = 0
    BY <1>3, <2>1 DEF FirstNum, FirstInc
  <2>2. CASE Len(burst) # 0
    BY <1>1, <1>2, <1>3, <2>2 DEF FirstNum, FirstInc
  <2> QED
    BY <2>1, <2>2
<1> QED
  BY <1>4, <1>5 DEF N

LEMMA HasConcat ==
  ASSUME NEW s \in Seq(Messages), NEW t \in Seq(Messages), NEW type,
         Has(s, type) \/ Has(t, type)
  PROVE  Has(s \o t, type)
<1>1. CASE Has(s, type)
  BY <1>1 DEF Has
<1>2. CASE Has(t, type)
  <2>1. PICK k \in 1..Len(t) : t[k].type = type
    BY <1>2 DEF Has
  <2>2. Len(s) + k \in 1..Len(s \o t) /\ (s \o t)[Len(s) + k] = t[k]
    OBVIOUS
  <2> QED
    BY <2>1, <2>2 DEF Has
<1> QED
  BY <1>1, <1>2

LEMMA HasTail ==
  ASSUME NEW s \in Seq(Messages), NEW type, Has(s, type), s[1].type # type
  PROVE  Has(Tail(s), type)
<1>1. PICK k \in 1..Len(s) : s[k].type = type
  BY DEF Has
<1>2. k # 1 /\ k - 1 \in 1..Len(Tail(s)) /\ Tail(s)[k - 1] = s[k]
  BY <1>1
<1> QED
  BY <1>1, <1>2 DEF Has

-----------------------------------------------------------------------------
(* The queues over the only path.                                          *)

LEMMA ThePath ==
  ASSUME Reliable
  PROVE  Path \in Paths /\ \A v \in Paths : v = Path
BY DEF Reliable, Path

LEMMA QueueType ==
  ASSUME Reliable, SessionInv, NEW p \in Ends
  PROVE  /\ queue[p][Path] \in Seq(Messages)
         /\ OpenIsZero(queue[p][Path])
         /\ Other[p] \in Ends /\ Other[p] # p /\ Other[Other[p]] = p
BY ThePath, QueueInv DEF QueueOK

(* p has sent msgs, and nothing else has happened to the queues.           *)
Sends(p, msgs) ==
  /\ queue'[p][Path] = queue[p][Path] \o msgs
  /\ \A e \in Ends \ {p} : queue'[e][Path] = queue[e][Path]

(* p has taken the first message of the other end and sent msgs.           *)
Swaps(p, msgs) ==
  /\ queue'[p][Path] = queue[p][Path] \o msgs
  /\ queue[Other[p]][Path] # <<>>
  /\ queue'[Other[p]][Path] = Tail(queue[Other[p]][Path])
  /\ \A e \in Ends \ {p, Other[p]} : queue'[e][Path] = queue[e][Path]

LEMMA QueuedSends ==
  ASSUME Reliable, SessionInv, NEW p \in Ends, Reaches(p), NEW msgs,
         queue' = Queued(p, msgs)
  PROVE  Sends(p, msgs)
<1>1. route[p] = Path /\ Path \in Paths
  BY ThePath DEF Reaches, SessionInv, TypeOK
<1>2. queue' = [queue EXCEPT ![p][Path] = queue[p][Path] \o msgs]
  BY <1>1 DEF Queued
<1>3. queue \in [Ends -> [Paths -> Seq(Messages)]]
  BY DEF SessionInv, TypeOK
<1> QED
  BY <1>1, <1>2, <1>3 DEF Sends

LEMMA ExchangeSwaps ==
  ASSUME Reliable, SessionInv, NEW p \in Ends, NEW v \in Paths, Reaches(p),
         NEW msgs, MsgsOK(msgs), Pending(p, v) # <<>>, Exchange(p, v, msgs)
  PROVE  Swaps(p, msgs)
<1> DEFINE Q == Queued(p, msgs)
           q == Other[p]
<1>1. route[p] = Path /\ Path \in Paths /\ v = Path
  BY ThePath DEF Reaches, SessionInv, TypeOK
<1>2. Q = [queue EXCEPT ![p][Path] = queue[p][Path] \o msgs]
  BY <1>1 DEF Queued
<1>3. queue \in [Ends -> [Paths -> Seq(Messages)]]
  BY DEF SessionInv, TypeOK
<1>4. q \in Ends /\ q # p
  OBVIOUS
<1>5. /\ Q[p][Path] = queue[p][Path] \o msgs
      /\ \A e \in Ends \ {p} : Q[e][Path] = queue[e][Path]
  BY <1>1, <1>2, <1>3
<1>6. Q \in [Ends -> [Paths -> Seq(Messages)]]
  BY QueuedOK DEF QueueOK
<1>7. queue' = [Q EXCEPT ![q][Path] = Tail(Q[q][Path])]
  BY <1>1 DEF Exchange
<1> HIDE DEF Q
<1>8. /\ queue'[q][Path] = Tail(Q[q][Path])
      /\ \A e \in Ends \ {q} : queue'[e][Path] = Q[e][Path]
  BY <1>1, <1>4, <1>6, <1>7
<1>9. queue[q][Path] # <<>>
  BY <1>1 DEF Pending
<1> QED
  BY <1>4, <1>5, <1>8, <1>9 DEF Swaps

-----------------------------------------------------------------------------
(* Every operation on a session ends like this.                            *)

(* msgs, then the numbers snd and inc, continue the stream of p.           *)
Continues(p, msgs, snd, inc) ==
  /\ msgs \in Seq(Messages)
  /\ Stream(msgs, snd, inc)
  /\ \/ FirstNum(msgs, snd) = 0
     \/ /\ FirstNum(msgs, snd) = send_seq_num[p]
        /\ FirstInc(msgs, inc) = incarnation[p]

(* Nothing happens to the other ends.                                      *)
OthersStay(x) ==
  \A e \in Ends \ {x} :
    /\ session_state'[e] = session_state[e]
    /\ send_seq_num'[e] = send_seq_num[e]
    /\ recv_seq_num'[e] = recv_seq_num[e]
    /\ incarnation'[e] = incarnation[e]
    /\ accepted'[e] = accepted[e]

(* What Become and the numbering assign.                                   *)
Assigned(x, state, snd, rcv, acc, inc) ==
  /\ session_state'[x] = state /\ send_seq_num'[x] = snd
  /\ recv_seq_num'[x] = rcv /\ accepted'[x] = acc /\ incarnation'[x] = inc
  /\ OthersStay(x)

LEMMA BecomeAssigns ==
  ASSUME SessionInv, NEW x \in Ends, NEW state, NEW snd, NEW rcv, NEW id,
         NEW acc, NEW inc,
         Become(x, state, snd, rcv, id, acc),
         incarnation' = [incarnation EXCEPT ![x] = inc]
  PROVE  Assigned(x, state, snd, rcv, acc, inc)
BY DEF Become, Assigned, OthersStay, SessionInv, TypeOK

LEMMA RoutesDoNotClose == \A t \in RouteTypes : t # "CLOSE"
BY DEF RouteTypes

LEMMA StepInStep ==
  ASSUME Reliable, SessionInv, \A p \in Ends : InStep(p),
         NEW x \in Ends, NEW msgs, OthersStay(x),
         Sends(x, msgs) \/ Swaps(x, msgs),
         Continues(x, msgs, send_seq_num'[x], incarnation'[x]),
         OnlyOpenSent(x)', ReceiverInStep(x)',
         AnswerUnderWay(x)', AnswerUnderWay(Other[x])'
  PROVE  \A p \in Ends : InStep(p)'
<1> DEFINE y   == Other[x]
           snd == send_seq_num'[x]
           inc == incarnation'[x]
<1>1. y \in Ends /\ y # x /\ Other[y] = x
  OBVIOUS
<1>2. \A p \in Ends : queue[p][Path] \in Seq(Messages)
  BY Zenon, QueueType
<1>3. queue'[x][Path] = queue[x][Path] \o msgs
  BY DEF Sends, Swaps
<1>4. \A e \in Ends \ {x} :
        /\ session_state'[e] = session_state[e]
        /\ send_seq_num'[e] = send_seq_num[e]
        /\ recv_seq_num'[e] = recv_seq_num[e]
        /\ incarnation'[e] = incarnation[e]
        /\ accepted'[e] = accepted[e]
  BY DEF OthersStay
<1>5. InStep(x) /\ InStep(y)
  BY <1>1
<1>6. SenderInStep(x)'
  <2>1. Stream(queue[x][Path], send_seq_num[x], incarnation[x])
    BY <1>5 DEF InStep, SenderInStep
  <2>2. Stream(queue[x][Path] \o msgs, snd, inc)
    BY <1>2, <2>1, StreamConcat DEF Continues
  <2> QED
    BY <1>3, <1>4, <2>2 DEF SenderInStep
<1>7. SenderInStep(y)'
  <2>1. Stream(queue[y][Path], send_seq_num[y], incarnation[y])
    BY <1>5 DEF InStep, SenderInStep
  <2>2. CASE Sends(x, msgs)
    BY <1>1, <1>4, <2>1, <2>2 DEF Sends, SenderInStep
  <2>3. CASE Swaps(x, msgs)
    <3>1. Stream(Tail(queue[y][Path]), send_seq_num[y], incarnation[y])
      BY <1>1, <1>2, <2>1, <2>3, StreamTail DEF Swaps
    <3> QED
      BY <1>1, <1>4, <2>3, <3>1 DEF Swaps, SenderInStep
  <2> QED
    BY <2>2, <2>3
<1>8. ReceiverInStep(y)'
  <2> DEFINE n  == FirstNum(queue[x][Path], send_seq_num[x])
             i  == FirstInc(queue[x][Path], incarnation[x])
             n1 == FirstNum(queue'[x][Path], send_seq_num'[x])
             i1 == FirstInc(queue'[x][Path], incarnation'[x])
  <2>1. /\ n1 = FirstNum(queue[x][Path], FirstNum(msgs, snd))
        /\ i1 = FirstInc(queue[x][Path], FirstInc(msgs, inc))
    BY <1>2, <1>3, <1>4, FirstNumConcat, FirstIncConcat DEF Continues
  <2>2. n1 = 0 \/ (n1 = n /\ i1 = i)
    BY <2>1 DEF Continues, FirstNum, FirstInc
  <2>3. recv_seq_num[y] > 0 =>
          \/ n = 0
          \/ /\ session_state[y] = "ESTABLISHED"
             /\ n = recv_seq_num[y] /\ i = accepted[y]
    BY Zenon, <1>1, <1>5 DEF InStep, ReceiverInStep
  <2>4. recv_seq_num'[y] > 0 =>
          \/ n1 = 0
          \/ /\ session_state'[y] = "ESTABLISHED"
             /\ n1 = recv_seq_num'[y] /\ i1 = accepted'[y]
    <3> HIDE DEF n, i, n1, i1
    <3> QED
      BY <1>1, <1>4, <2>2, <2>3
  <2> QED
    BY <1>1, <2>4 DEF ReceiverInStep
<1>9. OnlyOpenSent(x)' /\ OnlyOpenSent(y)'
  BY <1>1, <1>4, <1>5 DEF InStep, OnlyOpenSent
<1>10. ASSUME NEW e \in Ends \ {x, y}
       PROVE  InStep(e)'
  <2>1. Other[e] \in Ends \ {x, y}
    BY <1>1
  <2>2. /\ queue'[e][Path] = queue[e][Path]
        /\ queue'[Other[e]][Path] = queue[Other[e]][Path]
    BY <1>1, <2>1 DEF Sends, Swaps
  <2>3. InStep(e)
    OBVIOUS
  <2> QED
    <3>1. SenderInStep(e)' /\ OnlyOpenSent(e)'
      BY Zenon, <1>4, <2>1, <2>2, <2>3 DEF InStep, SenderInStep, OnlyOpenSent
    <3>2. ReceiverInStep(e)'
      BY Zenon, <1>4, <2>1, <2>2, <2>3 DEF InStep, ReceiverInStep
    <3>3. AnswerUnderWay(e)'
      BY Zenon, <1>4, <2>1, <2>2, <2>3 DEF InStep, AnswerUnderWay
    <3> QED
      BY Zenon, <3>1, <3>2, <3>3 DEF InStep
<1> QED
  BY <1>1, <1>6, <1>7, <1>8, <1>9, <1>10 DEF InStep

-----------------------------------------------------------------------------
(* The commands.                                                           *)

(* What closes the session of p continues its stream.                      *)
LEMMA CloseContinues ==
  ASSUME SessionInv, NEW p \in Ends, NEW j
  PROVE  Continues(p, CloseMsgs(p), 0, j)
<1>1. CloseMsgs(p) \in Seq(Messages)
  BY CloseMsgsOK DEF MsgsOK
<1>2. CASE session_state[p] \in {"OPENWAIT", "ESTABLISHED"}
  <2> DEFINE m == Control("CLOSE", send_seq_num[p], incarnation[p])
  <2>1. CloseMsgs(p) = <<m>>
    BY <1>2 DEF CloseMsgs
  <2>2. m.seq_num = send_seq_num[p] /\ m.inc = incarnation[p]
    BY DEF Control
  <2>3. After(m, 0, j)
    BY DEF After
  <2> HIDE DEF m
  <2> QED
    BY <1>1, <2>1, <2>2, <2>3, StreamSingle DEF Continues
<1>3. CASE session_state[p] \notin {"OPENWAIT", "ESTABLISHED"}
  <2>1. CloseMsgs(p) = <<>>
    BY <1>3 DEF CloseMsgs
  <2> QED
    BY <1>1, <2>1, StreamEmpty DEF Continues
<1> QED
  BY <1>2, <1>3

(* Whoever closes a session that the other end is still in has sent a      *)
(* CLOSE, or had received one.                                             *)
LEMMA CloseAnswers ==
  ASSUME Reliable, SessionInv, \A p \in Ends : InStep(p),
         NEW x \in Ends, NEW t \in Seq(Messages),
         Sends(x, CloseMsgs(x) \o t),
         session_state'[Other[x]] = session_state[Other[x]]
  PROVE  AnswerUnderWay(Other[x])'
<1> DEFINE y == Other[x]
<1>1. y \in Ends /\ y # x /\ Other[y] = x
  OBVIOUS
<1>2. queue[x][Path] \in Seq(Messages) /\ CloseMsgs(x) \in Seq(Messages)
  BY QueueType, CloseMsgsOK DEF MsgsOK
<1> SUFFICES ASSUME InSession(session_state[y]), queue[y][Path] = <<>>
             PROVE  Has(queue'[x][Path], "CLOSE")
  BY Zenon, <1>1 DEF AnswerUnderWay, Sends
<1>3. Has(queue[x][Path], "CLOSE") \/ session_state[x] = "ESTABLISHED"
  BY <1>1 DEF InStep, AnswerUnderWay
<1>4. CASE session_state[x] = "ESTABLISHED"
  <2>1. CloseMsgs(x) = <<Control("CLOSE", send_seq_num[x], incarnation[x])>>
    BY <1>4 DEF CloseMsgs
  <2>2. Has(CloseMsgs(x), "CLOSE")
    BY <2>1 DEF Has, Control
  <2>3. Has(CloseMsgs(x) \o t, "CLOSE") /\ CloseMsgs(x) \o t \in Seq(Messages)
    BY <1>2, <2>2, HasConcat
  <2> QED
    BY Zenon, <1>2, <2>3, HasConcat DEF Sends
<1>5. CASE Has(queue[x][Path], "CLOSE")
  <2>1. CloseMsgs(x) \o t \in Seq(Messages)
    BY <1>2
  <2> QED
    BY Zenon, <1>2, <1>5, <2>1, HasConcat DEF Sends
<1> QED
  BY <1>3, <1>4, <1>5

(* up, and reset: the CLOSE of the session before, if any, and an OPEN.    *)
LEMMA OpenInStep ==
  ASSUME Reliable, SessionInv, \A p \in Ends : InStep(p),
         NEW x \in Ends, Reaches(x), OpenAfter(x, CloseMsgs(x))
  PROVE  \A p \in Ends : InStep(p)'
<1> DEFINE o    == OpenMsg(x, 0)
           i    == incarnation[x] + 1
           c    == CloseMsgs(x)
<1>1. incarnation[x] \in Nat /\ i \in Nat /\ incarnation \in [Ends -> Nat]
  BY EndOK DEF SessionInv, TypeOK
<1>2. /\ Become(x, "OPENWAIT", 1, 0, FALSE, 0)
      /\ incarnation' = [incarnation EXCEPT ![x] = i]
      /\ queue' = Queued(x, c \o <<o>>)
  BY Zenon DEF OpenAfter, Reaches, StartNumbering
<1>3. Sends(x, c \o <<o>>)
  BY <1>2, QueuedSends
<1>4. /\ <<o>> \in Seq(Messages) /\ c \in Seq(Messages)
  BY Zenon, <1>1, ControlOK, CloseMsgsOK DEF MsgsOK, OpenMsg
<1>5. o.seq_num = 0 /\ o.inc = i /\ o.type # "CLOSE"
  BY DEF OpenMsg, Control
<1> HIDE DEF o
<1>6. Continues(x, c \o <<o>>, 1, i)
  <2>1. After(o, 1, i)
    BY <1>5 DEF After
  <2>2. Stream(<<o>>, 1, i) /\ FirstNum(<<o>>, 1) = 0 /\ FirstInc(<<o>>, i) = i
    BY <1>5, <2>1, StreamSingle
  <2>3. Continues(x, c, 0, i)
    BY CloseContinues
  <2>4. Stream(c \o <<o>>, 1, i)
    BY Zenon, <1>4, <2>2, <2>3, StreamConcat DEF Continues
  <2>5. /\ FirstNum(c \o <<o>>, 1) = FirstNum(c, 0)
        /\ FirstInc(c \o <<o>>, i) = FirstInc(c, i)
    <3> HIDE DEF c, i
    <3>1. FirstNum(c \o <<o>>, 1) = FirstNum(c, FirstNum(<<o>>, 1))
      BY <1>4, FirstNumConcat
    <3>2. FirstInc(c \o <<o>>, i) = FirstInc(c, FirstInc(<<o>>, i))
      BY Zenon, <1>4, FirstIncConcat
    <3> QED
      BY Zenon, <2>2, <3>1, <3>2
  <2> QED
    BY <1>4, <2>3, <2>4, <2>5 DEF Continues
<1>7. session_state'[x] = "OPENWAIT" /\ recv_seq_num'[x] = 0
      /\ session_state'[Other[x]] = session_state[Other[x]]
  BY <1>2 DEF Become, SessionInv, TypeOK
<1>8. ReceiverInStep(x)'
  BY <1>7 DEF ReceiverInStep
<1>9. AnswerUnderWay(x)'
  <2>1. queue[x][Path] \in Seq(Messages)
    BY QueueType
  <2>2. queue'[x][Path] # <<>>
    BY <1>3, <1>4, <2>1 DEF Sends
  <2> QED
    BY <2>2 DEF AnswerUnderWay
<1>10. AnswerUnderWay(Other[x])'
  BY Zenon, <1>3, <1>4, <1>7, CloseAnswers
<1>11. Assigned(x, "OPENWAIT", 1, 0, 0, i)
  BY Zenon, <1>2, BecomeAssigns
<1>12. /\ Continues(x, c \o <<o>>, send_seq_num'[x], incarnation'[x])
       /\ OnlyOpenSent(x)' /\ OthersStay(x)
  BY Zenon, <1>6, <1>11 DEF Assigned, OnlyOpenSent
<1> QED
  BY Zenon, <1>3, <1>8, <1>9, <1>10, <1>12, StepInStep

(* down *)
LEMMA CloseInStep ==
  ASSUME Reliable, SessionInv, \A p \in Ends : InStep(p),
         NEW x \in Ends, Reaches(x), NEW state \in {"IDLE", "ACTIVE"},
         Become(x, state, 0, 0, FALSE, 0), UNCHANGED incarnation,
         queue' = Queued(x, CloseMsgs(x))
  PROVE  \A p \in Ends : InStep(p)'
<1> DEFINE c == CloseMsgs(x)
<1>1. Sends(x, c) /\ c \in Seq(Messages)
  BY QueuedSends, CloseMsgsOK DEF MsgsOK
<1>2. incarnation' = [incarnation EXCEPT ![x] = incarnation[x]]
  BY DEF SessionInv, TypeOK
<1>3. session_state'[x] = state /\ recv_seq_num'[x] = 0
      /\ session_state'[Other[x]] = session_state[Other[x]]
  BY DEF Become, SessionInv, TypeOK
<1>4. ReceiverInStep(x)' /\ AnswerUnderWay(x)'
  BY <1>3 DEF ReceiverInStep, AnswerUnderWay, InSession
<1>5. AnswerUnderWay(Other[x])'
  <2>1. c \o <<>> = c /\ <<>> \in Seq(Messages)
    BY <1>1
  <2> QED
    BY Zenon, <1>1, <1>3, <2>1, CloseAnswers
<1>6. Continues(x, c, 0, incarnation[x])
  BY CloseContinues
<1>7. Assigned(x, state, 0, 0, 0, incarnation[x])
  BY Zenon, <1>2, BecomeAssigns
<1>8. /\ Continues(x, c, send_seq_num'[x], incarnation'[x])
      /\ OthersStay(x)
  BY Zenon, <1>6, <1>7 DEF Assigned
<1>9. OnlyOpenSent(x)'
  BY <1>3 DEF OnlyOpenSent
<1> QED
  BY Zenon, <1>1, <1>4, <1>5, <1>8, <1>9, StepInStep

LEMMA DisseminateInStep ==
  ASSUME Reliable, SessionInv, \A p \in Ends : InStep(p),
         NEW x \in Ends, Reaches(x), NEW burst \in Bursts(x),
         Disseminate(x, burst)
  PROVE  \A p \in Ends : InStep(p)'
<1> DEFINE n   == send_seq_num[x]
           i   == incarnation[x]
           msg == Numbered(burst, n, i)
           y   == Other[x]
<1>1. burst \in Seq(Adverts) /\ Len(burst) \in Nat /\ burst # <<>>
  BY BurstsType DEF Disseminate
<1>2. /\ session_state[x] = "ESTABLISHED" /\ n \in Nat /\ n > 0 /\ i \in Nat
  BY EndOK DEF Disseminate, StateOK
<1>3. /\ Become(x, "ESTABLISHED", n + Len(burst), recv_seq_num[x],
                router_id[x], accepted[x])
      /\ incarnation' = [incarnation EXCEPT ![x] = i]
  BY <1>2 DEF Disseminate, Become, SessionInv, TypeOK
<1>4. Sends(x, msg)
  BY QueuedSends DEF Disseminate
<1>5. /\ msg \in Seq(Messages)
      /\ Stream(msg, n + Len(burst), i)
      /\ FirstNum(msg, n + Len(burst)) = n /\ FirstInc(msg, i) = i
  <2>1. MsgsOK(msg)
    BY Zenon, <1>1, <1>2, NumberedOK
  <2>2. msg \in Seq(Messages)
    BY Zenon, <2>1 DEF MsgsOK
  <2> QED
    <3>1. n \in Nat /\ burst \in Seq(Adverts)
      BY <1>1, <1>2
    <3> HIDE DEF n, i
    <3> QED
      BY Zenon, <2>2, <3>1, NumberedStream
<1>6. msg # <<>>
  BY <1>1 DEF Numbered
<1> HIDE DEF msg
<1>7. Continues(x, msg, n + Len(burst), i)
  BY <1>5 DEF Continues
<1>8. /\ queue[x][Path] \in Seq(Messages)
      /\ y \in Ends /\ y # x /\ Other[y] = x
  BY QueueType
<1>9. queue'[x][Path] = queue[x][Path] \o msg /\ queue'[y][Path] = queue[y][Path]
  BY <1>4, <1>8 DEF Sends
<1>10. UNCHANGED <<session_state, recv_seq_num, accepted>>
       /\ send_seq_num'[y] = send_seq_num[y] /\ incarnation'[y] = incarnation[y]
  BY <1>8 DEF Disseminate, SessionInv, TypeOK
<1>11. ReceiverInStep(x)'
  BY <1>9, <1>10 DEF InStep, ReceiverInStep
<1>12. AnswerUnderWay(x)'
  <2>1. queue'[x][Path] # <<>>
    BY <1>5, <1>6, <1>8, <1>9
  <2> QED
    BY <2>1 DEF AnswerUnderWay
<1>13. AnswerUnderWay(y)'
  <2> SUFFICES ASSUME InSession(session_state[y]), queue[y][Path] = <<>>
               PROVE  session_state[y] = "OPENWAIT" =>
                        Has(queue'[x][Path], "OPEN") \/ Has(queue'[x][Path], "CLOSE")
    BY <1>2, <1>8, <1>9, <1>10 DEF AnswerUnderWay
  <2>1. \/ Has(queue[x][Path], "CLOSE")
        \/ session_state[y] = "OPENWAIT" => Has(queue[x][Path], "OPEN")
    BY <1>8 DEF InStep, AnswerUnderWay
  <2> QED
    BY <1>5, <1>8, <1>9, <2>1, HasConcat
<1>14. Assigned(x, "ESTABLISHED", n + Len(burst), recv_seq_num[x], accepted[x], i)
  BY Zenon, <1>3, BecomeAssigns
<1>15. /\ Continues(x, msg, send_seq_num'[x], incarnation'[x])
       /\ OthersStay(x)
  BY Zenon, <1>7, <1>14 DEF Assigned
<1>16. OnlyOpenSent(x)'
  BY <1>14 DEF OnlyOpenSent, Assigned
<1> QED
  BY Zenon, <1>4, <1>11, <1>12, <1>13, <1>15, <1>16, StepInStep

-----------------------------------------------------------------------------
(* The handlers.                                                           *)

(* The first message of the path, as a receiver in step sees it.           *)
LEMMA HeadInStep ==
  ASSUME Reliable, SessionInv, \A p \in Ends : InStep(p),
         NEW x \in Ends, NEW v \in Paths, Pending(x, v) # <<>>
  PROVE  LET y == Other[x]
             Q == queue[y][Path]
             m == Head(Pending(x, v))
         IN  /\ Q # <<>> /\ m = Q[1] /\ m \in Messages
             /\ m.type = "OPEN" <=> m.seq_num = 0
             /\ After(m, FirstNum(Tail(Q), send_seq_num[y]),
                      FirstInc(Tail(Q), incarnation[y]))
             /\ recv_seq_num[x] > 0 =>
                  \/ m.seq_num = 0
                  \/ /\ session_state[x] = "ESTABLISHED"
                     /\ m.seq_num = recv_seq_num[x] /\ m.inc = accepted[x]
<1> DEFINE y == Other[x]
           Q == queue[y][Path]
           m == Head(Pending(x, v))
<1>1. /\ y \in Ends /\ Other[y] = x
      /\ Q \in Seq(Messages)
  BY QueueType
<1>2. Pending(x, v) = Q
  BY ThePath DEF Pending
<1>3. Q # <<>> /\ m = Q[1]
  BY <1>1, <1>2
<1>4. m \in Messages /\ (m.type = "OPEN" <=> m.seq_num = 0)
  BY HeadOK
<1>5. Stream(Q, send_seq_num[y], incarnation[y])
  BY <1>1 DEF InStep, SenderInStep
<1>6. After(Q[1], FirstNum(Tail(Q), send_seq_num[y]),
            FirstInc(Tail(Q), incarnation[y]))
  BY <1>1, <1>3, <1>5, StreamTail
<1>7. /\ FirstNum(Q, send_seq_num[y]) = Q[1].seq_num
      /\ FirstInc(Q, incarnation[y]) = Q[1].inc
  BY <1>3 DEF FirstNum, FirstInc
<1>8. recv_seq_num[x] > 0 =>
        \/ Q[1].seq_num = 0
        \/ /\ session_state[x] = "ESTABLISHED"
           /\ Q[1].seq_num = recv_seq_num[x] /\ Q[1].inc = accepted[x]
  BY <1>7 DEF InStep, ReceiverInStep
<1> QED
  BY Zenon, <1>3, <1>4, <1>6, <1>8

(* x has handled a message of the other end, whose session is as before.   *)
Handled(x, state, rcv, acc, msgs) ==
  LET y == Other[x]
  IN  /\ session_state'[x] = state /\ recv_seq_num'[x] = rcv
      /\ accepted'[x] = acc
      /\ session_state'[y] = session_state[y]
      /\ send_seq_num'[y] = send_seq_num[y]
      /\ incarnation'[y] = incarnation[y]
      /\ queue'[y][Path] = Tail(queue[y][Path])
      /\ queue'[x][Path] = queue[x][Path] \o msgs

LEMMA SenderStays ==
  ASSUME SessionInv, NEW x \in Ends, NEW state, NEW snd, NEW rcv, NEW id,
         NEW acc, NEW inc, NEW msgs,
         Become(x, state, snd, rcv, id, acc),
         incarnation' = [incarnation EXCEPT ![x] = inc], Swaps(x, msgs)
  PROVE  Handled(x, state, rcv, acc, msgs)
<1>1. Other[x] \in Ends /\ Other[x] # x
  OBVIOUS
<1> QED
  BY <1>1 DEF Handled, Become, Swaps, SessionInv, TypeOK

(* A message accepted by an end that is then ESTABLISHED.                  *)
LEMMA AcceptInStep ==
  ASSUME Reliable, SessionInv, \A p \in Ends : InStep(p),
         NEW x \in Ends, NEW v \in Paths, Pending(x, v) # <<>>,
         NEW snd, NEW id, NEW inc, NEW msgs,
         LET m == Head(Pending(x, v))
         IN  Become(x, "ESTABLISHED", snd, m.seq_num + 1, id, m.inc),
         incarnation' = [incarnation EXCEPT ![x] = inc], Swaps(x, msgs)
  PROVE  ReceiverInStep(x)'
<1> DEFINE y == Other[x]
           T == Tail(queue[y][Path])
           m == Head(Pending(x, v))
<1>1. After(m, FirstNum(T, send_seq_num[y]), FirstInc(T, incarnation[y]))
  BY Zenon, HeadInStep
<1>2. /\ session_state'[x] = "ESTABLISHED" /\ recv_seq_num'[x] = m.seq_num + 1
      /\ accepted'[x] = m.inc
      /\ send_seq_num'[y] = send_seq_num[y] /\ incarnation'[y] = incarnation[y]
      /\ queue'[y][Path] = T
  <2>1. Handled(x, "ESTABLISHED", m.seq_num + 1, m.inc, msgs)
    BY Zenon, SenderStays
  <2> QED
    BY Zenon, <2>1 DEF Handled
<1> HIDE DEF T, m, y
<1>3. \/ FirstNum(T, send_seq_num[y]) = 0
      \/ /\ FirstNum(T, send_seq_num[y]) = m.seq_num + 1
         /\ FirstInc(T, incarnation[y]) = m.inc
  BY <1>1 DEF After
<1> QED
  BY <1>2, <1>3 DEF ReceiverInStep, y

LEMMA OpenRcvdInStep ==
  ASSUME Reliable, SessionInv, \A p \in Ends : InStep(p),
         NEW x \in Ends, Reaches(x), NEW v \in Paths,
         NEW burst \in Bursts(x), ReceiveOpen(x, v, burst), UNCHANGED faults
  PROVE  \A p \in Ends : InStep(p)'
<1> DEFINE m == Head(Pending(x, v))
           n == send_seq_num[x]
           i == incarnation[x]
           y == Other[x]
<1>1. burst \in Seq(Adverts) /\ Len(burst) \in Nat
  BY BurstsType
<1>2. /\ StateOK(session_state[x], n, recv_seq_num[x])
      /\ n \in Nat /\ i \in Nat
  BY EndOK DEF StateOK
<1>3. Pending(x, v) # <<>> /\ m.type = "OPEN" /\ Expected(x, m)
  BY Zenon DEF ReceiveOpen, Arrives
<1>4. m \in Messages /\ m.seq_num = 0 /\ queue[y][Path][1] = m
      /\ queue[y][Path] # <<>>
      /\ After(m, FirstNum(Tail(queue[y][Path]), send_seq_num[y]),
               FirstInc(Tail(queue[y][Path]), incarnation[y]))
  BY Zenon, <1>3, HeadInStep
<1>5. recv_seq_num[x] = 0
  BY <1>3, <1>4 DEF Expected
<1>6. /\ queue[x][Path] \in Seq(Messages) /\ queue[y][Path] \in Seq(Messages)
      /\ y \in Ends /\ y # x /\ Other[y] = x
      /\ OpenIsZero(queue[x][Path])
  BY QueueType
<1>7. CASE session_state[x] = "ACTIVE"
  <2> DEFINE o == OpenMsg(x, n)
             N == Numbered(burst, n + 1, i + 1)
  <2>1. n = 0
    BY <1>2, <1>7 DEF StateOK
  <2>2. /\ Become(x, "ESTABLISHED", n + 1 + Len(burst), m.seq_num + 1,
                  router_id[x], m.inc)
        /\ incarnation' = [incarnation EXCEPT ![x] = i + 1]
        /\ Exchange(x, v, <<o>> \o N)
    BY <1>4, <1>5, <1>7, Zenon DEF ReceiveOpen, StartNumbering
  <2>3. MsgsOK(<<o>>) /\ <<o>> \in Seq(Messages)
    BY <1>2, <2>1, ControlOK DEF OpenMsg, MsgsOK
  <2>4. MsgsOK(N) /\ N \in Seq(Messages)
    BY <1>1, <1>2, <2>1, NumberedOK DEF MsgsOK
  <2>5. Swaps(x, <<o>> \o N)
    BY Zenon, <1>3, <2>2, <2>3, <2>4, ConcatOK, ExchangeSwaps
  <2>6. /\ Stream(N, n + 1 + Len(burst), i + 1)
        /\ FirstNum(N, n + 1 + Len(burst)) = n + 1 /\ FirstInc(N, i + 1) = i + 1
    <3>1. n + 1 \in Nat
      BY <1>2
    <3> QED
      BY Zenon, <1>1, <3>1, NumberedStream
  <2>7. o.seq_num = 0 /\ o.inc = i + 1 /\ o.type = "OPEN"
    BY <2>1 DEF OpenMsg, Control
  <2> HIDE DEF o, N
  <2>8. Continues(x, <<o>> \o N, n + 1 + Len(burst), i + 1)
    <3>1. After(o, n + 1, i + 1)
      BY <2>1, <2>7 DEF After
    <3>2. Stream(<<o>>, n + 1, i + 1) /\ FirstNum(<<o>>, n + 1) = 0
      BY <2>7, <3>1, StreamSingle
    <3>3. Stream(<<o>> \o N, n + 1 + Len(burst), i + 1)
      BY Zenon, <2>3, <2>4, <2>6, <3>2, StreamConcat
    <3>4. FirstNum(<<o>> \o N, n + 1 + Len(burst)) = 0
      <4>1. FirstNum(<<o>> \o N, n + 1 + Len(burst)) =
              FirstNum(<<o>>, FirstNum(N, n + 1 + Len(burst)))
        BY Zenon, <2>3, <2>4, FirstNumConcat
      <4> QED
        BY Zenon, <2>6, <3>2, <4>1
    <3>5. <<o>> \o N \in Seq(Messages)
      BY <2>3, <2>4
    <3> QED
      BY <3>3, <3>4, <3>5 DEF Continues
  <2>9. ReceiverInStep(x)'
    BY Zenon, <1>3, <2>2, <2>5, AcceptInStep
  <2>10. /\ session_state'[x] = "ESTABLISHED"
         /\ queue'[x][Path] = queue[x][Path] \o (<<o>> \o N)
    <3>1. Handled(x, "ESTABLISHED", m.seq_num + 1, m.inc, <<o>> \o N)
      BY Zenon, <2>2, <2>5, SenderStays
    <3> QED
      BY Zenon, <3>1 DEF Handled
  <2>11. Has(queue'[x][Path], "OPEN")
    <3>1. Has(<<o>>, "OPEN")
      BY <2>7 DEF Has
    <3>2. <<o>> \o N \in Seq(Messages)
      BY <2>3, <2>4
    <3>3. Has(<<o>> \o N, "OPEN")
      BY Zenon, <2>3, <2>4, <3>1, HasConcat
    <3> QED
      BY Zenon, <1>6, <2>10, <3>2, <3>3, HasConcat
  <2>12. AnswerUnderWay(x)'
    <3>1. queue'[x][Path] # <<>>
      BY <2>11 DEF Has
    <3> QED
      BY <3>1 DEF AnswerUnderWay
  <2>13. AnswerUnderWay(y)'
    BY <1>6, <2>10, <2>11 DEF AnswerUnderWay
  <2>14. Assigned(x, "ESTABLISHED", n + 1 + Len(burst), m.seq_num + 1, m.inc, i + 1)
    BY Zenon, <2>2, BecomeAssigns
  <2>15. /\ Continues(x, <<o>> \o N, send_seq_num'[x], incarnation'[x])
         /\ OthersStay(x)
    BY Zenon, <2>8, <2>14 DEF Assigned
  <2>16. OnlyOpenSent(x)'
    BY <2>10 DEF OnlyOpenSent
  <2> QED
    BY Zenon, <2>5, <2>9, <2>12, <2>13, <2>15, <2>16, StepInStep
<1>8. CASE session_state[x] = "OPENWAIT"
  <2> DEFINE N == Numbered(burst, n, i)
  <2>1. n = 1
    BY <1>8 DEF InStep, OnlyOpenSent
  <2>2. /\ Become(x, "ESTABLISHED", n + Len(burst), m.seq_num + 1, TRUE, m.inc)
        /\ Exchange(x, v, N)
        /\ UNCHANGED incarnation
    BY <1>4, <1>5, <1>8, Zenon DEF ReceiveOpen
  <2>3. incarnation' = [incarnation EXCEPT ![x] = i]
    BY <2>2 DEF SessionInv, TypeOK
  <2>4. MsgsOK(N) /\ N \in Seq(Messages)
    BY <1>1, <1>2, <2>1, NumberedOK DEF MsgsOK
  <2>5. Swaps(x, N)
    BY Zenon, <1>3, <2>2, <2>4, ExchangeSwaps
  <2>6. Continues(x, N, n + Len(burst), i)
    BY Zenon, <1>1, <1>2, <2>4, NumberedStream DEF Continues
  <2> HIDE DEF N
  <2>7. ReceiverInStep(x)'
    BY Zenon, <1>3, <2>2, <2>3, <2>5, AcceptInStep
  <2>8. /\ session_state'[x] = "ESTABLISHED"
        /\ session_state'[y] = session_state[y]
        /\ queue'[x][Path] = queue[x][Path] \o N
        /\ queue'[y][Path] = Tail(queue[y][Path])
    <3>1. Handled(x, "ESTABLISHED", m.seq_num + 1, m.inc, N)
      BY Zenon, <2>2, <2>3, <2>5, SenderStays
    <3> QED
      BY Zenon, <3>1 DEF Handled
  <2>9. AnswerUnderWay(x)'
    <3> SUFFICES ASSUME queue'[x][Path] = <<>>
                 PROVE  Has(Tail(queue[y][Path]), "CLOSE")
                        \/ session_state[y] = "ESTABLISHED"
      BY <2>8 DEF AnswerUnderWay
    <3>1. queue[x][Path] = <<>>
      BY <1>6, <2>4, <2>8
    <3>2. Has(queue[y][Path], "CLOSE") \/ session_state[y] = "ESTABLISHED"
      BY <1>8, <3>1 DEF InStep, AnswerUnderWay, InSession
    <3>3. queue[y][Path][1].type # "CLOSE"
      BY Zenon, <1>3, <1>4
    <3> QED
      BY <1>6, <3>2, <3>3, HasTail
  <2>10. AnswerUnderWay(y)'
    <3> SUFFICES ASSUME Tail(queue[y][Path]) = <<>>, session_state[y] = "OPENWAIT"
                 PROVE  Has(queue'[x][Path], "OPEN")
      BY Zenon, <1>6, <2>8 DEF AnswerUnderWay
    <3>1. Len(queue[y][Path]) = 1
      <4>1. Len(Tail(queue[y][Path])) = Len(queue[y][Path]) - 1
            /\ Len(queue[y][Path]) \in Nat
        BY <1>4, <1>6
      <4>2. Len(Tail(queue[y][Path])) = 0
        <5>1. Len(<<>>) = 0
          OBVIOUS
        <5> QED
          BY Zenon, <5>1
      <4> QED
        BY <4>1, <4>2
    <3>2. ~Has(queue[y][Path], "CLOSE")
      BY <1>3, <1>4, <3>1 DEF Has
    <3>3. queue[x][Path] # <<>>
      BY <1>8, <3>2 DEF InStep, AnswerUnderWay, InSession
    <3> DEFINE k == Len(queue[x][Path])
    <3>4. k \in 1..Len(queue[x][Path])
      BY <1>6, <3>3
    <3>5. After(queue[x][Path][k], n, i)
      BY <3>4 DEF InStep, SenderInStep, Stream
    <3>6. queue[x][Path][k] \in Messages
      BY <1>6, <3>4
    <3>7. queue[x][Path][k].seq_num = 0
      BY <2>1, <3>5, <3>6 DEF After, Messages
    <3>8. Has(queue[x][Path], "OPEN")
      BY <1>6, <3>4, <3>7 DEF Has, OpenIsZero
    <3> QED
      BY <1>6, <2>4, <2>8, <3>8, HasConcat
  <2>11. Assigned(x, "ESTABLISHED", n + Len(burst), m.seq_num + 1, m.inc, i)
    BY Zenon, <2>2, <2>3, BecomeAssigns
  <2>12. /\ Continues(x, N, send_seq_num'[x], incarnation'[x])
         /\ OthersStay(x)
    BY Zenon, <2>6, <2>11 DEF Assigned
  <2>13. OnlyOpenSent(x)'
    BY <2>8 DEF OnlyOpenSent
  <2> QED
    BY Zenon, <2>5, <2>7, <2>9, <2>10, <2>12, <2>13, StepInStep
<1>9. CASE session_state[x] \in {"IDLE", "ESTABLISHED"}
  <2>1. CASE session_state[x] = "ESTABLISHED"
    BY <1>2, <1>5, <2>1 DEF StateOK
  <2>2. CASE session_state[x] = "IDLE"
    <3>1. Abort("open_in_idle")
      BY Zenon, <2>2 DEF ReceiveOpen
    <3> QED
      BY Zenon, <3>1 DEF Abort, Arrives, ReceiveOpen, Running, Aborts
  <2> QED
    BY <1>9, <2>1, <2>2
<1> QED
  BY <1>2, <1>7, <1>8, <1>9 DEF StateOK, States

LEMMA CloseRcvdInStep ==
  ASSUME Reliable, SessionInv, \A p \in Ends : InStep(p),
         NEW x \in Ends, Reaches(x), NEW v \in Paths, ReceiveClose(x, v)
  PROVE  \A p \in Ends : InStep(p)'
<1> DEFINE m == Head(Pending(x, v))
           y == Other[x]
           i == incarnation[x]
<1>1. Pending(x, v) # <<>> /\ m.type = "CLOSE"
  BY DEF ReceiveClose, Arrives
<1>2. /\ queue[y][Path][1] = m /\ queue[y][Path] # <<>>
      /\ After(m, FirstNum(Tail(queue[y][Path]), send_seq_num[y]),
               FirstInc(Tail(queue[y][Path]), incarnation[y]))
  BY <1>1, HeadInStep
<1>3. FirstNum(Tail(queue[y][Path]), send_seq_num[y]) = 0
  BY <1>1, <1>2 DEF After
<1>4. Swaps(x, <<>>)
  BY <1>1, EmptyOK, ExchangeSwaps DEF ReceiveClose
<1>5. incarnation' = [incarnation EXCEPT ![x] = i]
  BY DEF ReceiveClose, SessionInv, TypeOK
<1>6. /\ queue[x][Path] \in Seq(Messages) /\ queue[y][Path] \in Seq(Messages)
      /\ y \in Ends /\ y # x /\ Other[y] = x
  BY QueueType
<1>7. StateOK(session_state[x], send_seq_num[x], recv_seq_num[x])
      /\ StateOK(session_state[y], send_seq_num[y], recv_seq_num[y])
  BY <1>6, EndOK
<1>8. ASSUME NEW state \in {"IDLE", "ACTIVE"}, NEW rcv, NEW id, NEW acc,
             Become(x, state, 0, rcv, id, acc)
      PROVE  \A p \in Ends : InStep(p)'
  <2>1. /\ session_state'[x] = state
        /\ session_state'[y] = session_state[y]
        /\ send_seq_num'[y] = send_seq_num[y]
        /\ queue'[y][Path] = Tail(queue[y][Path])
    <3>1. Handled(x, state, rcv, acc, <<>>)
      BY Zenon, <1>4, <1>5, <1>8, SenderStays
    <3> QED
      BY Zenon, <3>1 DEF Handled
  <2>2. ReceiverInStep(x)'
    BY <1>3, <2>1 DEF ReceiverInStep
  <2>3. AnswerUnderWay(x)'
    BY <2>1 DEF AnswerUnderWay, InSession
  <2>4. AnswerUnderWay(y)'
    <3> SUFFICES ASSUME InSession(session_state[y]), Tail(queue[y][Path]) = <<>>
                 PROVE  FALSE
      BY Zenon, <2>1 DEF AnswerUnderWay
    <3>1. send_seq_num[y] = 0
      BY <1>3 DEF FirstNum
    <3> QED
      BY <1>7, <3>1 DEF StateOK, InSession
  <2>5. Continues(x, <<>>, 0, i)
    BY StreamEmpty DEF Continues
  <2>6. Assigned(x, state, 0, rcv, acc, i)
    BY Zenon, <1>5, <1>8, BecomeAssigns
  <2>7. Continues(x, <<>>, send_seq_num'[x], incarnation'[x]) /\ OthersStay(x)
    BY Zenon, <2>5, <2>6 DEF Assigned
  <2>8. OnlyOpenSent(x)'
    BY <2>1 DEF OnlyOpenSent
  <2> QED
    BY Zenon, <1>4, <2>2, <2>3, <2>4, <2>7, <2>8, StepInStep
<1>9. CASE session_state[x] \in {"OPENWAIT", "ESTABLISHED"}
  <2>1. Become(x, "ACTIVE", 0, 0, FALSE, 0)
    BY Zenon, <1>9 DEF ReceiveClose
  <2> QED
    BY Zenon, <1>8, <2>1
<1>10. CASE session_state[x] \notin {"OPENWAIT", "ESTABLISHED"}
  <2>1. session_state[x] \in {"IDLE", "ACTIVE"} /\ send_seq_num[x] = 0
    BY <1>7, <1>10 DEF StateOK, States
  <2>2. Become(x, session_state[x], 0, recv_seq_num[x] + 1, router_id[x],
               accepted[x])
    BY <1>10, <2>1 DEF ReceiveClose
  <2> QED
    BY <1>8, <2>1, <2>2
<1> QED
  BY <1>9, <1>10

(* An UPDATE or WITHDRAW that is accepted finds its receiver ESTABLISHED,  *)
(* and belongs to the session whose OPEN that receiver accepted.           *)
LEMMA RouteFindsSession ==
  ASSUME Reliable, SessionInv, \A p \in Ends : InStep(p),
         NEW x \in Ends, NEW v \in Paths, RouteAccepted(x, v)
  PROVE  /\ session_state[x] = "ESTABLISHED"
         /\ Head(Pending(x, v)).seq_num = recv_seq_num[x]
         /\ Head(Pending(x, v)).inc = accepted[x]
<1> DEFINE m == Head(Pending(x, v))
<1>1. Pending(x, v) # <<>> /\ m.type \in RouteTypes /\ Expected(x, m)
  BY Zenon DEF RouteAccepted, Arrives
<1>2. m.seq_num = recv_seq_num[x]
  BY <1>1 DEF Expected, RouteTypes
<1>3. m \in Messages /\ m.seq_num # 0
  BY <1>1, HeadInStep DEF RouteTypes
<1>4. recv_seq_num[x] > 0
  BY <1>2, <1>3 DEF Messages
<1>5. \/ m.seq_num = 0
      \/ session_state[x] = "ESTABLISHED" /\ m.inc = accepted[x]
  BY <1>1, <1>4, HeadInStep
<1> QED
  BY <1>2, <1>3, <1>5

LEMMA RouteRcvdInStep ==
  ASSUME Reliable, SessionInv, \A p \in Ends : InStep(p),
         NEW x \in Ends, Reaches(x), NEW v \in Paths,
         NEW burst \in Bursts(x), ReceiveRoute(x, v, burst)
  PROVE  (\A p \in Ends : InStep(p)') /\ UNCHANGED faults
<1> DEFINE m == Head(Pending(x, v))
           n == send_seq_num[x]
           i == incarnation[x]
           y == Other[x]
           N == Numbered(burst, n, i)
<1>1. burst \in Seq(Adverts) /\ Len(burst) \in Nat
  BY BurstsType
<1>2. Pending(x, v) # <<>> /\ m.type \in RouteTypes /\ RouteAccepted(x, v)
  BY Zenon DEF ReceiveRoute, Arrives, RouteAccepted
<1>3. /\ session_state[x] = "ESTABLISHED"
      /\ m.seq_num = recv_seq_num[x] /\ m.inc = accepted[x]
  BY <1>2, RouteFindsSession
<1>4. n \in Nat /\ n > 0 /\ i \in Nat
  BY <1>3, EndOK DEF StateOK
<1>5. /\ Become(x, "ESTABLISHED", n + Len(burst), m.seq_num + 1, router_id[x], m.inc)
      /\ Exchange(x, v, N)
      /\ UNCHANGED <<incarnation, faults>>
  BY <1>3, Zenon DEF ReceiveRoute
<1>6. incarnation' = [incarnation EXCEPT ![x] = i]
  BY <1>5 DEF SessionInv, TypeOK
<1>7. MsgsOK(N) /\ N \in Seq(Messages)
  BY Zenon, <1>1, <1>4, NumberedOK DEF MsgsOK
<1>8. Swaps(x, N)
  BY Zenon, <1>2, <1>5, <1>7, ExchangeSwaps
<1>9. Continues(x, N, n + Len(burst), i)
  <2>1. /\ Stream(N, n + Len(burst), i)
        /\ FirstNum(N, n + Len(burst)) = n /\ FirstInc(N, i) = i
    BY Zenon, <1>1, <1>4, NumberedStream
  <2> HIDE DEF N
  <2> QED
    BY <1>7, <2>1 DEF Continues
<1> HIDE DEF N
<1>10. ReceiverInStep(x)'
  BY Zenon, <1>2, <1>5, <1>6, <1>8, AcceptInStep
<1>11. /\ session_state'[x] = "ESTABLISHED"
       /\ session_state'[y] = session_state[y]
       /\ queue'[x][Path] = queue[x][Path] \o N
       /\ queue'[y][Path] = Tail(queue[y][Path])
  <2>1. Handled(x, "ESTABLISHED", m.seq_num + 1, m.inc, N)
    BY Zenon, <1>5, <1>6, <1>8, SenderStays
  <2> QED
    BY Zenon, <2>1 DEF Handled
<1>12. /\ queue[x][Path] \in Seq(Messages) /\ queue[y][Path] \in Seq(Messages)
       /\ y \in Ends /\ y # x /\ Other[y] = x
  BY QueueType
<1>13. /\ m \in Messages /\ m.seq_num # 0 /\ queue[y][Path][1] = m
       /\ After(m, FirstNum(Tail(queue[y][Path]), send_seq_num[y]),
                FirstInc(Tail(queue[y][Path]), incarnation[y]))
  BY Zenon, <1>2, HeadInStep DEF RouteTypes
<1>14. AnswerUnderWay(x)'
  <2> SUFFICES ASSUME queue'[x][Path] = <<>>
               PROVE  Has(Tail(queue[y][Path]), "CLOSE")
                      \/ session_state[y] = "ESTABLISHED"
    BY <1>11 DEF AnswerUnderWay
  <2>1. queue[x][Path] = <<>>
    BY <1>7, <1>11, <1>12
  <2>2. Has(queue[y][Path], "CLOSE") \/ session_state[y] = "ESTABLISHED"
    BY <1>3, <2>1 DEF InStep, AnswerUnderWay, InSession
  <2>3. queue[y][Path][1].type # "CLOSE"
    <3> HIDE DEF m, y
    <3> QED
      BY <1>2, <1>13, RoutesDoNotClose
  <2> QED
    BY <1>12, <2>2, <2>3, HasTail
<1>15. AnswerUnderWay(y)'
  <2> SUFFICES ASSUME Tail(queue[y][Path]) = <<>>, session_state[y] = "OPENWAIT"
               PROVE  FALSE
    BY Zenon, <1>11, <1>12 DEF AnswerUnderWay
  <2>1. After(m, send_seq_num[y], incarnation[y])
    BY Zenon, <1>13 DEF FirstNum, FirstInc
  <2>2. send_seq_num[y] = 1
    BY Zenon, <1>12 DEF InStep, OnlyOpenSent
  <2> QED
    BY <1>13, <2>1, <2>2 DEF After, Messages
<1>16. Assigned(x, "ESTABLISHED", n + Len(burst), m.seq_num + 1, m.inc, i)
  BY Zenon, <1>5, <1>6, BecomeAssigns
<1>17. /\ Continues(x, N, send_seq_num'[x], incarnation'[x])
       /\ OthersStay(x)
  BY Zenon, <1>9, <1>16 DEF Assigned
<1>18. OnlyOpenSent(x)'
  BY <1>11 DEF OnlyOpenSent
<1>19. \A p \in Ends : InStep(p)'
  BY Zenon, <1>8, <1>10, <1>14, <1>15, <1>17, <1>18, StepInStep
<1> QED
  BY <1>5, <1>19

-----------------------------------------------------------------------------
(* The theorems.                                                           *)

LEMMA ReliableInit == ASSUME Reliable PROVE Init => ReliableInv
<1> SUFFICES ASSUME Init PROVE ReliableInv
  OBVIOUS
<1>1. SessionInv
  BY InitOK
<1>2. \A p \in Ends : Reaches(p)
  BY DEF Init, Reaches
<1>3. ASSUME NEW p \in Ends PROVE InStep(p)
  <2>1. Other[p] \in Ends
    OBVIOUS
  <2>2. /\ queue[p][Path] = <<>> /\ send_seq_num[p] = 0 /\ recv_seq_num[p] = 0
        /\ session_state[p] = "IDLE"
    BY ThePath DEF Init
  <2> QED
    BY <2>1, <2>2, StreamEmpty
    DEF InStep, SenderInStep, ReceiverInStep, AnswerUnderWay, OnlyOpenSent, InSession
<1>4. RouteAbortsAfterError
  BY DEF Init, RouteAbortsAfterError
<1> QED
  BY <1>1, <1>2, <1>3, <1>4 DEF ReliableInv

(* Routes and links stay as they are.                                      *)
LEMMA ReachesStays ==
  ASSUME Reliable, \A p \in Ends : Reaches(p), SessionInv, Next
  PROVE  UNCHANGED <<route, broken>> /\ \A p \in Ends : Reaches(p)'
<1>1. ASSUME NEW p \in Ends, Command(p)
      PROVE  UNCHANGED <<route, broken>>
  BY Zenon, <1>1 DEF Command, OpenSession, CloseSession, ResetSession, RefreshSession,
              Disseminate
<1>2. ASSUME NEW p \in Ends, NEW v \in Paths, HandleMessage(p, v)
      PROVE  UNCHANGED <<route, broken>>
  BY Zenon, <1>2 DEF HandleMessage, ReceiveOutOfSeq, ReceiveOpen, ReceiveClose,
              ReceiveRoute, Abort
<1>3. ASSUME NEW p \in Ends, NetworkStep(p)
      PROVE  UNCHANGED <<route, broken>>
  BY <1>3 DEF NetworkStep, ChangeRoute, ChangeLink, LoseMessage, Reliable
<1>4. UNCHANGED <<route, broken>>
  BY <1>1, <1>2, <1>3 DEF Next, ClearQueue
<1> QED
  BY <1>4 DEF Reaches

(* No message is lost, and no queue is cleared.                            *)
LEMMA NoDisturbance ==
  ASSUME Reliable, \A p \in Ends : Reaches(p), SessionInv, Next
  PROVE  \/ \E p \in Ends : Command(p)
         \/ \E p \in Ends, v \in Paths : HandleMessage(p, v)
<1>1. ASSUME NEW p \in Ends, NetworkStep(p) PROVE FALSE
  <2>1. \A v \in Paths : v \notin broken[p]
    BY ThePath DEF Reaches, SessionInv, TypeOK
  <2> QED
    BY <1>1, <2>1 DEF NetworkStep, ChangeRoute, ChangeLink, LoseMessage, Reliable
<1>2. ~ClearQueue
  BY DEF ClearQueue, Reliable
<1> QED
  BY <1>1, <1>2 DEF Next

(* A step of a run without an error keeps the ends in step, unless it is   *)
(* the first error or the abort() of an OPEN received while IDLE.          *)
LEMMA StepOK ==
  ASSUME Reliable, SessionInv, \A p \in Ends : Reaches(p) /\ InStep(p),
         faults = {}, Next
  PROVE  \/ faults' = {} /\ \A p \in Ends : InStep(p)'
         \/ faults' = {"out_of_seq"} \/ faults' = {"open_in_idle"}
         \/ faults' = {"open_in_established"}
<1>1. ASSUME NEW x \in Ends, Command(x)
      PROVE  faults' = {} /\ \A p \in Ends : InStep(p)'
  <2>1. session_ok(x)
    BY DEF session_ok
  <2>2. CASE OpenSession(x)
    <3>1. CloseMsgs(x) = <<>>
      BY <2>2 DEF OpenSession, CloseMsgs
    <3> QED
      BY <2>2, <3>1, OpenInStep DEF OpenSession
  <2>3. CASE CloseSession(x)
    BY Zenon, <2>3, CloseInStep DEF CloseSession
  <2>4. CASE ResetSession(x)
    BY <2>4, OpenInStep DEF ResetSession
  <2>5. CASE RefreshSession(x)
    <3>1. session_state[x] = "ACTIVE" /\ OpenAfter(x, <<>>) /\ UNCHANGED faults
      BY <2>1, <2>5 DEF RefreshSession
    <3>2. CloseMsgs(x) = <<>>
      BY <3>1 DEF CloseMsgs
    <3> QED
      BY <3>1, <3>2, OpenInStep
  <2>6. ASSUME NEW burst \in Bursts(x), Disseminate(x, burst)
        PROVE  faults' = {} /\ \A p \in Ends : InStep(p)'
    BY Zenon, <2>6, DisseminateInStep DEF Disseminate
  <2> QED
    BY <1>1, <2>2, <2>3, <2>4, <2>5, <2>6 DEF Command
<1>2. ASSUME NEW x \in Ends, NEW v \in Paths, HandleMessage(x, v)
      PROVE  \/ faults' = {} /\ \A p \in Ends : InStep(p)'
             \/ faults' = {"out_of_seq"} \/ faults' = {"open_in_idle"}
             \/ faults' = {"open_in_established"}
  <2>1. CASE ReceiveOutOfSeq(x, v)
    BY <2>1 DEF ReceiveOutOfSeq
  <2>2. ASSUME NEW burst \in Bursts(x), ReceiveOpen(x, v, burst)
        PROVE  \/ faults' = {} /\ \A p \in Ends : InStep(p)'
               \/ faults' = {"open_in_idle"} \/ faults' = {"open_in_established"}
    <3>1. CASE UNCHANGED faults
      BY <2>2, <3>1, OpenRcvdInStep
    <3>2. CASE Abort("open_in_idle") \/ Abort("open_in_established")
      BY <3>2 DEF Abort
    <3> QED
      BY Zenon, <2>2, <3>1, <3>2 DEF ReceiveOpen
  <2>3. CASE ReceiveClose(x, v)
    BY Zenon, <2>3, CloseRcvdInStep DEF ReceiveClose
  <2>4. ASSUME NEW burst \in Bursts(x), ReceiveRoute(x, v, burst)
        PROVE  faults' = {} /\ \A p \in Ends : InStep(p)'
    BY <2>4, RouteRcvdInStep
  <2> QED
    BY <1>2, <2>1, <2>2, <2>3, <2>4 DEF HandleMessage
<1> QED
  BY <1>1, <1>2, NoDisturbance

(* An abort() ends the program, and an error is not forgotten.             *)
LEMMA ErrorsStay ==
  ASSUME Reliable, \A p \in Ends : Reaches(p), SessionInv, Next
  PROVE  faults \subseteq faults' /\ Running
<1>1. ASSUME NEW p \in Ends, Command(p)
      PROVE  faults \subseteq faults' /\ Running
  BY Zenon, <1>1 DEF Command, OpenSession, CloseSession, ResetSession, RefreshSession,
              Disseminate, MayCommand
<1>2. ASSUME NEW p \in Ends, NEW v \in Paths, HandleMessage(p, v)
      PROVE  faults \subseteq faults' /\ Running
  BY Zenon, <1>2 DEF HandleMessage, ReceiveOutOfSeq, ReceiveOpen, ReceiveClose,
              ReceiveRoute, Abort, Arrives
<1> QED
  BY <1>1, <1>2, NoDisturbance

LEMMA ReliableNext ==
  ASSUME Reliable
  PROVE  ReliableInv /\ SessionInv' /\ [Next]_vars => ReliableInv'
<1> SUFFICES ASSUME ReliableInv, SessionInv', [Next]_vars PROVE ReliableInv'
  OBVIOUS
<1>1. SessionInv /\ \A p \in Ends : Reaches(p)
  BY DEF ReliableInv
<1>2. CASE Next
  <2>1. \A p \in Ends : Reaches(p)'
    BY <1>1, <1>2, ReachesStays
  <2>2. faults \subseteq faults' /\ Running
    BY <1>1, <1>2, ErrorsStay
  <2>3. CASE faults = {}
    <3>1. \/ faults' = {} /\ \A p \in Ends : InStep(p)'
          \/ faults' = {"out_of_seq"} \/ faults' = {"open_in_idle"}
          \/ faults' = {"open_in_established"}
      BY <1>1, <1>2, <2>3, StepOK DEF ReliableInv
    <3>2. RouteAbortsAfterError'
      BY <3>1 DEF RouteAbortsAfterError
    <3> QED
      BY <2>1, <3>1, <3>2 DEF ReliableInv
  <2>4. CASE faults # {}
    <3>1. "out_of_seq" \in faults
      BY Zenon, <1>1, <2>2, <2>4 DEF Running, SessionInv, TypeOK, Outcomes
    <3>2. "out_of_seq" \in faults'
      BY <2>2, <3>1
    <3> QED
      BY <2>1, <3>2 DEF ReliableInv, RouteAbortsAfterError
  <2> QED
    BY <2>3, <2>4
<1>3. CASE UNCHANGED vars
  BY Zenon, <1>3 DEF ReliableInv, vars, Reaches, InStep, SenderInStep, ReceiverInStep,
              AnswerUnderWay, OnlyOpenSent, RouteAbortsAfterError
<1> QED
  BY <1>2, <1>3

LEMMA ReliableInvariant == ASSUME Reliable PROVE Spec => []ReliableInv
<1>1. Init => ReliableInv
  BY ReliableInit
<1>2. ReliableInv /\ SessionInv' /\ [Next]_vars => ReliableInv'
  BY ReliableNext
<1> QED
  BY <1>1, <1>2, SessionInvariant, PTL DEF Spec

(* Over a reliable path an ESTABLISHED end only acts upon the UPDATEs and  *)
(* WITHDRAWs of the session whose OPEN it accepted, as long as no run has  *)
(* stopped with an error: the numbers of two sessions are never mixed up.  *)
THEOREM SessionsAreNotMixed == ASSUME Reliable PROVE Spec => []SameSession
<1>1. ReliableInv => SameSession
  BY RouteFindsSession DEF ReliableInv, SameSession
<1> QED
  BY <1>1, ReliableInvariant, PTL

(* Over a reliable path the two ends of a peering agree whenever all       *)
(* events are handled without an error: both ESTABLISHED, each having      *)
(* received all that the other sent, or none of them, and no end waits for *)
(* an OPEN that does not come.                                             *)
THEOREM EndsAgreeWhenSettled == ASSUME Reliable PROVE Spec => []SettledAgreement
<1>1. ReliableInv => SettledAgreement
  <2> SUFFICES ASSUME ReliableInv, Drained, faults = {}, NEW p \in Ends
               PROVE  /\ session_state[p] # "OPENWAIT"
                      /\ session_state[p] = "ESTABLISHED" =>
                           /\ session_state[Other[p]] = "ESTABLISHED"
                           /\ send_seq_num[p] = recv_seq_num[Other[p]]
    BY DEF SettledAgreement
  <2> DEFINE q == Other[p]
  <2>1. SessionInv /\ InStep(p) /\ InStep(q) /\ q \in Ends /\ Other[q] = p
    BY DEF ReliableInv
  <2>2. queue[p][Path] = <<>> /\ queue[q][Path] = <<>>
    BY <2>1, ThePath DEF Drained, InFlight
  <2>3. ~Has(queue[q][Path], "CLOSE") /\ ~Has(queue[q][Path], "OPEN")
    BY <2>2 DEF Has
  <2>4. session_state[p] # "OPENWAIT"
    BY <2>1, <2>2, <2>3 DEF InStep, AnswerUnderWay, InSession
  <2>5. ASSUME session_state[p] = "ESTABLISHED"
        PROVE  session_state[q] = "ESTABLISHED" /\ send_seq_num[p] = recv_seq_num[q]
    <3>1. session_state[q] = "ESTABLISHED"
      BY Zenon, <2>1, <2>2, <2>3, <2>5 DEF InStep, AnswerUnderWay, InSession
    <3>2. recv_seq_num[q] > 0 /\ send_seq_num[p] # 0
      BY Zenon, <2>1, <2>5, <3>1, EndOK DEF StateOK
    <3> QED
      BY Zenon, <2>1, <2>2, <3>1, <3>2 DEF InStep, ReceiverInStep, FirstNum
  <2> QED
    BY <2>4, <2>5
<1> QED
  BY <1>1, ReliableInvariant, PTL

(* Over a reliable path the abort() of the UPDATE and WITHDRAW handlers is *)
(* never the first thing to go wrong.                                      *)
THEOREM RouteAbortsFollowErrors ==
  ASSUME Reliable PROVE Spec => []RouteAbortsAfterError
<1>1. ReliableInv => RouteAbortsAfterError
  BY DEF ReliableInv
<1> QED
  BY <1>1, ReliableInvariant, PTL
=============================================================================
