-------------------------- MODULE Scheduler_proofs --------------------------
(***************************************************************************)
(* The schedulers lose no event, keep the order of the events and do not   *)
(* go back in time, for any delays, times, limits and number of events.    *)
(***************************************************************************)
EXTENDS Scheduler, TLAPS

(***************************************************************************)
(* The list of buckets of the dynamic scheduler: what a post, the handling *)
(* of an event and the removal of a bucket do to the order of the buckets  *)
(* and to the events in them.                                              *)
(***************************************************************************)
Increasing(fifo) == \A i, j \in DOMAIN fifo : i < j => fifo[i] < fifo[j]

SortedByTime(bs) == \A i, j \in DOMAIN bs : i < j => bs[i].time < bs[j].time

EachIncreasing(bs) == \A i \in DOMAIN bs : Increasing(bs[i].events)

(* The events of the buckets with their times. *)
Dated(bs) ==
  UNION {{[id |-> e, due |-> bs[i].time] : e \in Range(bs[i].events)} : i \in DOMAIN bs}

(* What the rounding of the times has to do with the rest: it keeps their  *)
(* order, and a time that was rounded once stays as it is.                 *)
LEMMA FloatMonotone ==
  /\ \A x \in Nat : Float(x) \in Nat /\ Float(Float(x)) = Float(x)
  /\ \A x, y \in Nat : x <= y => Float(x) <= Float(y)
  /\ Float(0) = 0
  BY SMT DEF Float, Exact

(* Sequences. *)
LEMMA LenOf ==
  ASSUME NEW S, NEW q \in Seq(S)
  PROVE  Len(q) \in Nat /\ DOMAIN q = 1 .. Len(q) /\ \A i \in DOMAIN q : q[i] \in S
  OBVIOUS

(* The concatenation of two sequences. *)
LEMMA ConcatOf ==
  ASSUME NEW S, NEW p \in Seq(S), NEW q \in Seq(S)
  PROVE  /\ p \o q \in Seq(S) /\ Len(p \o q) = Len(p) + Len(q)
         /\ \A i \in 1 .. Len(p) + Len(q) :
              (p \o q)[i] = IF i <= Len(p) THEN p[i] ELSE q[i - Len(p)]
  OBVIOUS

(* The first element and the others. *)
LEMMA TailOf ==
  ASSUME NEW S, NEW q \in Seq(S), q # <<>>
  PROVE  /\ Head(q) = q[1] /\ Head(q) \in S /\ Tail(q) \in Seq(S)
         /\ Len(Tail(q)) = Len(q) - 1
         /\ \A i \in 1 .. Len(Tail(q)) : Tail(q)[i] = q[i + 1]
  OBVIOUS

(* Another element at one place. *)
LEMMA ExceptOf ==
  ASSUME NEW S, NEW q \in Seq(S), NEW i \in 1 .. Len(q), NEW x \in S
  PROVE  /\ [q EXCEPT ![i] = x] \in Seq(S) /\ Len([q EXCEPT ![i] = x]) = Len(q)
         /\ \A j \in 1 .. Len(q) : [q EXCEPT ![i] = x][j] = IF j = i THEN x ELSE q[j]
  OBVIOUS

(* A sequence with an index is not empty. *)
LEMMA NotEmpty ==
  ASSUME NEW q, NEW i \in DOMAIN q
  PROVE  q # <<>>
  OBVIOUS

(* The numbers given up to the next one. *)
LEMMA NextNumber ==
  ASSUME NEW n \in Nat
  PROVE  n + 1 \notin 1 .. n /\ 1 .. (n + 1) = (1 .. n) \cup {n + 1}
  OBVIOUS

(* The types of a list of buckets. *)
LEMMA BucketType ==
  ASSUME NEW bs \in Seq(Bucket)
  PROVE  /\ Len(bs) \in Nat /\ DOMAIN bs = 1 .. Len(bs)
         /\ \A i \in DOMAIN bs : /\ bs[i] \in Bucket /\ bs[i].time \in Nat
                                 /\ bs[i].events \in Seq(1 .. MaxEvents)
  <1>1. /\ Len(bs) \in Nat /\ DOMAIN bs = 1 .. Len(bs)
        /\ \A i \in DOMAIN bs : bs[i] \in Bucket
    OBVIOUS
  <1>2. \A b \in Bucket : b.time \in Nat /\ b.events \in Seq(1 .. MaxEvents)
    BY DEF Bucket, Fifo
  <1> QED  BY <1>1, <1>2

(* What it is to be a dated event of a bucket. *)
LEMMA DatedMember ==
  ASSUME NEW bs, NEW x
  PROVE  x \in Dated(bs) <=>
           \E i \in DOMAIN bs : \E k \in DOMAIN bs[i].events :
             x = [id |-> bs[i].events[k], due |-> bs[i].time]
  BY DEF Dated, Range

(* What it is to be an event of a bucket. *)
LEMMA SomeBucketMember ==
  ASSUME NEW bs, NEW e
  PROVE  e \in InSomeBucket(bs) <=>
           \E i \in DOMAIN bs : \E k \in DOMAIN bs[i].events : e = bs[i].events[k]
  BY DEF InSomeBucket, Range

(* The ids of the buckets and the dated events say the same. *)
LEMMA SomeBucketDated ==
  ASSUME NEW bs, NEW e
  PROVE  e \in InSomeBucket(bs) <=> \E x \in Dated(bs) : e = x.id
  <1>1. ASSUME e \in InSomeBucket(bs)
        PROVE  \E x \in Dated(bs) : e = x.id
    <2>1. PICK i \in DOMAIN bs : \E k \in DOMAIN bs[i].events : e = bs[i].events[k]
      BY <1>1, SomeBucketMember
    <2>2. PICK k \in DOMAIN bs[i].events : e = bs[i].events[k]
      BY <2>1
    <2>3. [id |-> bs[i].events[k], due |-> bs[i].time] \in Dated(bs)
      BY DatedMember
    <2> QED  BY <2>2, <2>3
  <1>2. ASSUME NEW x \in Dated(bs), e = x.id
        PROVE  e \in InSomeBucket(bs)
    BY <1>2, DatedMember, SomeBucketMember
  <1> QED  BY <1>1, <1>2

(* A post to a time that has a bucket. *)
PostOld(bs, t, e, nb, k) ==
  /\ k + 1 \in DOMAIN bs /\ bs[k + 1].time = t
  /\ Len(nb) = Len(bs)
  /\ \A i \in DOMAIN bs : i # k + 1 => nb[i] = bs[i]
  /\ nb[k + 1].time = t /\ nb[k + 1].events = Append(bs[k + 1].events, e)

(* A post to a time that has none. *)
PostNew(bs, t, e, nb, k) ==
  /\ Len(nb) = Len(bs) + 1
  /\ \A i \in 1 .. k : nb[i] = bs[i] /\ bs[i].time < t
  /\ nb[k + 1].time = t /\ nb[k + 1].events = <<e>>
  /\ \A i \in k + 1 .. Len(bs) : nb[i + 1] = bs[i] /\ bs[i].time > t

(* list_insert_at, in terms of sub-sequences. *)
LEMMA Inserted ==
  ASSUME NEW q, NEW i, NEW x
  PROVE  list_insert_at(q, i, x) = SubSeq(q, 1, i - 1) \o <<x>> \o SubSeq(q, i, Len(q))
  BY DEF list_insert_at

(* A post appends to the bucket of its time, or inserts a bucket. *)
LEMMA PostShape ==
  ASSUME NEW bs \in Seq(Bucket), NEW t \in Nat, NEW e \in 1 .. MaxEvents,
         NEW nb \in BucketPost(bs, t, e)
  PROVE  /\ nb \in Seq(Bucket)
         /\ \E k \in 0 .. Len(bs) : PostOld(bs, t, e, nb, k) \/ PostNew(bs, t, e, nb, k)
  <1> DEFINE new == [time |-> t, events |-> <<e>>]
  <1>1. /\ Len(bs) \in Nat /\ DOMAIN bs = 1 .. Len(bs)
        /\ \A i \in 1 .. Len(bs) : bs[i] \in Bucket /\ bs[i].time \in Nat
                                   /\ bs[i].events \in Seq(1 .. MaxEvents)
    BY BucketType
  <1>2. new \in Bucket /\ new.time = t /\ new.events = <<e>>
    BY DEF Bucket, Fifo
  <1>3. \/ \E i \in DOMAIN bs : bs[i].time = t /\ nb = [bs EXCEPT ![i].events = Append(@, e)]
        \/ \E i \in Places(bs, t) : nb = list_insert_at(bs, i, new)
    BY DEF BucketPost
  <1> HIDE DEF new
  <1>5. ASSUME NEW i \in DOMAIN bs, bs[i].time = t, nb = [bs EXCEPT ![i].events = Append(@, e)]
        PROVE  nb \in Seq(Bucket) /\ \E k \in 0 .. Len(bs) : PostOld(bs, t, e, nb, k)
    <2> DEFINE k == i - 1
               appended == [bs[k + 1] EXCEPT !.events = Append(@, e)]
    <2>0. k \in 0 .. Len(bs) /\ k + 1 = i
      BY <1>1, <1>5
    <2>1. /\ appended.time = t /\ appended.events = Append(bs[k + 1].events, e)
          /\ appended \in Bucket
      <3> DEFINE fifo == Append(bs[k + 1].events, e)
      <3>1. fifo \in Fifo /\ bs[k + 1] \in Bucket
        BY <1>1, <1>5, <2>0 DEF Fifo
      <3> HIDE DEF fifo
      <3>2. \A b \in Bucket : LET c == [b EXCEPT !.events = fifo]
                              IN c.time = b.time /\ c.events = fifo /\ c \in Bucket
        BY <3>1 DEF Bucket
      <3>3. appended = [bs[k + 1] EXCEPT !.events = fifo]
        BY DEF fifo
      <3> HIDE DEF appended
      <3> QED  BY <1>5, <2>0, <3>1, <3>2, <3>3, Zenon DEF fifo
    <2>2. nb = [bs EXCEPT ![k + 1] = appended]
      BY <1>5, <2>0, Zenon
    <2> HIDE DEF appended, k
    <2>3. /\ nb \in Seq(Bucket) /\ Len(nb) = Len(bs)
          /\ \A j \in 1 .. Len(bs) : nb[j] = IF j = k + 1 THEN appended ELSE bs[j]
      <3>1. k + 1 \in 1 .. Len(bs) /\ appended \in Bucket
        BY <1>1, <1>5, <2>0, <2>1
      <3> QED  BY <2>2, <3>1, ExceptOf
    <2>4. PostOld(bs, t, e, nb, k)
      BY <1>1, <1>5, <2>0, <2>1, <2>3 DEF PostOld
    <2> QED  BY <2>0, <2>3, <2>4
  <1>6. ASSUME NEW k \in 0 .. Len(bs), nb = list_insert_at(bs, k + 1, new),
               \A i \in 1 .. k : bs[i].time < t, \A i \in k + 1 .. Len(bs) : bs[i].time > t
        PROVE  nb \in Seq(Bucket) /\ PostNew(bs, t, e, nb, k)
    <2>1. nb = SubSeq(bs, 1, k) \o <<new>> \o SubSeq(bs, k + 1, Len(bs))
      <3>1. nb = SubSeq(bs, 1, (k + 1) - 1) \o <<new>> \o SubSeq(bs, k + 1, Len(bs))
        BY <1>6, Inserted, Zenon
      <3>2. (k + 1) - 1 = k  BY <1>1
      <3> QED  BY <3>1, <3>2, Zenon
    <2> DEFINE a == SubSeq(bs, 1, k)
               c == SubSeq(bs, k + 1, Len(bs))
    <2>2. /\ a \in Seq(Bucket) /\ Len(a) = k /\ \A i \in 1 .. k : a[i] = bs[i]
      BY <1>1
    <2>3. /\ c \in Seq(Bucket) /\ Len(c) = Len(bs) - k
          /\ \A i \in 1 .. Len(bs) - k : c[i] = bs[k + i]
      <3>1. /\ k + 1 \in Int /\ Len(bs) \in Int
            /\ \A i \in k + 1 .. Len(bs) : bs[i] \in Bucket
        BY <1>1
      <3>2. /\ c \in Seq(Bucket)
            /\ Len(c) = IF k + 1 <= Len(bs) THEN Len(bs) - (k + 1) + 1 ELSE 0
            /\ \A i \in 1 .. Len(bs) - (k + 1) + 1 : c[i] = bs[(k + 1) + i - 1]
        BY <3>1
      <3>3. /\ Len(bs) - (k + 1) + 1 = Len(bs) - k
            /\ \A i \in Int : (k + 1) + i - 1 = k + i
        BY <1>1
      <3> HIDE DEF c
      <3>4. Len(c) = Len(bs) - k
        <4>1. Len(c) = IF k + 1 <= Len(bs) THEN Len(bs) - (k + 1) + 1 ELSE 0  BY <3>2
        <4>2. k \in Nat /\ Len(bs) \in Nat /\ k <= Len(bs)  BY <1>1
        <4> QED  BY <4>1, <4>2
      <3>5. ASSUME NEW i \in 1 .. Len(bs) - k PROVE c[i] = bs[k + i]
        <4>1. c[i] = bs[(k + 1) + i - 1]  BY <3>2, <3>3, Zenon
        <4>2. (k + 1) + i - 1 = k + i  BY <1>1
        <4> QED  BY <4>1, <4>2, Zenon
      <3> QED  BY <3>2, <3>4, <3>5
    <2>4. nb = a \o <<new>> \o c  BY <2>1
    <2> HIDE DEF a, c
    <2>5. /\ nb \in Seq(Bucket) /\ Len(nb) = Len(bs) + 1
          /\ \A i \in 1 .. k : nb[i] = a[i]
          /\ nb[k + 1] = new
          /\ \A i \in k + 2 .. Len(bs) + 1 : nb[i] = c[i - k - 1]
      <3> DEFINE an == a \o <<new>>
      <3>1. /\ an \in Seq(Bucket) /\ Len(an) = k + 1
            /\ \A i \in 1 .. k : an[i] = a[i]
            /\ an[k + 1] = new
        <4> DEFINE one == <<new>>
        <4>1. one \in Seq(Bucket) /\ Len(one) = 1 /\ one[1] = new
          BY <1>2
        <4> HIDE DEF one
        <4>2. /\ a \o one \in Seq(Bucket) /\ Len(a \o one) = Len(a) + Len(one)
              /\ \A i \in 1 .. Len(a) + Len(one) :
                   (a \o one)[i] = IF i <= Len(a) THEN a[i] ELSE one[i - Len(a)]
          BY <2>2, <4>1, ConcatOf, Zenon
        <4> QED  BY <1>1, <2>2, <4>1, <4>2 DEF one
      <3>2. nb = an \o c  BY <2>4
      <3> HIDE DEF an
      <3>3. /\ nb \in Seq(Bucket) /\ Len(nb) = Len(an) + Len(c)
            /\ \A i \in 1 .. Len(an) + Len(c) :
                  nb[i] = IF i <= Len(an) THEN an[i] ELSE c[i - Len(an)]
        BY <2>3, <3>1, <3>2, ConcatOf, Zenon
      <3>4. Len(an) + Len(c) = Len(bs) + 1
        BY <1>1, <1>2, <2>3, <3>1
      <3>5. ASSUME NEW i \in k + 2 .. Len(bs) + 1 PROVE nb[i] = c[i - k - 1]
        <4>1. nb[i] = c[i - (k + 1)]  BY <1>1, <1>2, <3>1, <3>3, <3>4
        <4>2. i - (k + 1) = i - k - 1  BY <1>1
        <4> QED  BY <4>1, <4>2
      <3> QED  BY <1>1, <1>2, <3>1, <3>3, <3>4, <3>5
    <2>6. ASSUME NEW i \in k + 1 .. Len(bs) PROVE nb[i + 1] = bs[i]
      <3>1. /\ i + 1 \in k + 2 .. Len(bs) + 1 /\ (i + 1) - k - 1 = i - k
            /\ i - k \in 1 .. Len(bs) - k /\ k + (i - k) = i
        BY <1>1
      <3>2. nb[i + 1] = c[i - k]
        <4> DEFINE j == i + 1
        <4>1. j \in k + 2 .. Len(bs) + 1 /\ j - k - 1 = i - k  BY <1>1, <1>2, <3>1
        <4> HIDE DEF j
        <4>2. nb[j] = c[j - k - 1]  BY <2>5, <4>1
        <4> QED  BY <4>1, <4>2 DEF j
      <3>3. c[i - k] = bs[k + (i - k)]  BY <2>3, <3>1, Zenon
      <3> QED  BY <3>1, <3>2, <3>3, Zenon
    <2> QED  BY <1>1, <1>2, <1>6, <2>2, <2>5, <2>6 DEF PostNew
  <1>7. ASSUME NEW i \in Places(bs, t), nb = list_insert_at(bs, i, new)
        PROVE  nb \in Seq(Bucket) /\ \E k \in 0 .. Len(bs) : PostNew(bs, t, e, nb, k)
    <2> DEFINE k == i - 1
    <2>1. k \in 0 .. Len(bs) /\ i = k + 1
      BY <1>1 DEF Places
    <2>2. (\A j \in 1 .. k : bs[j].time < t) /\ \A j \in k + 1 .. Len(bs) : bs[j].time > t
      BY <2>1 DEF Places
    <2> HIDE DEF k
    <2> QED  BY <1>6, <1>7, <2>1, <2>2
  <1> QED  BY <1>3, <1>5, <1>7

(* A FIFO with one more event. *)
LEMMA Appended ==
  ASSUME NEW q \in Seq(1 .. MaxEvents), NEW e \in 1 .. MaxEvents
  PROVE  /\ Len(q) \in Nat /\ DOMAIN q = 1 .. Len(q)
         /\ Append(q, e) \in Seq(1 .. MaxEvents)
         /\ DOMAIN Append(q, e) = 1 .. Len(q) + 1
         /\ \A i \in DOMAIN q : Append(q, e)[i] = q[i] /\ q[i] \in Nat
         /\ Append(q, e)[Len(q) + 1] = e
  <1>1. Len(q) \in Nat /\ DOMAIN q = 1 .. Len(q) /\ \A i \in DOMAIN q : q[i] \in Nat
    <2>1. \A i \in 1 .. MaxEvents : i \in Nat  BY SchedulerAssumption
    <2> QED  BY <2>1, LenOf, Zenon
  <1>2. /\ Append(q, e) \in Seq(1 .. MaxEvents) /\ Len(Append(q, e)) = Len(q) + 1
        /\ \A i \in 1 .. Len(q) : Append(q, e)[i] = q[i]
        /\ Append(q, e)[Len(q) + 1] = e
    OBVIOUS
  <1> QED  BY <1>1, <1>2

(* A post to a bucket that is there. *)
LEMMA PostOldFacts ==
  ASSUME NEW bs \in Seq(Bucket), SortedByTime(bs), EachIncreasing(bs),
         NEW t \in Nat, NEW e \in 1 .. MaxEvents, NEW k \in Nat,
         NEW nb \in Seq(Bucket), PostOld(bs, t, e, nb, k),
         \A x \in InSomeBucket(bs) : x < e
  PROVE  /\ SortedByTime(nb) /\ EachIncreasing(nb)
         /\ Dated(nb) = Dated(bs) \cup {[id |-> e, due |-> t]}
         /\ \A i \in DOMAIN nb : nb[i].time = bs[i].time
         /\ DOMAIN nb = DOMAIN bs
  <1>1. /\ Len(bs) \in Nat /\ DOMAIN bs = 1 .. Len(bs)
        /\ \A i \in DOMAIN bs : bs[i].time \in Nat /\ bs[i].events \in Seq(1 .. MaxEvents)
    BY BucketType
  <1>2. /\ DOMAIN nb = DOMAIN bs /\ k + 1 \in DOMAIN bs /\ bs[k + 1].time = t
        /\ \A i \in DOMAIN bs : nb[i].time = bs[i].time
        /\ \A i \in DOMAIN bs : i # k + 1 => nb[i].events = bs[i].events
        /\ nb[k + 1].events = Append(bs[k + 1].events, e)
    <2>1. DOMAIN nb = DOMAIN bs  BY <1>1 DEF PostOld
    <2>2. k + 1 \in DOMAIN bs /\ bs[k + 1].time = t  BY DEF PostOld
    <2>3. nb[k + 1].events = Append(bs[k + 1].events, e)  BY DEF PostOld
    <2>4. \A i \in DOMAIN bs : i # k + 1 => nb[i].events = bs[i].events  BY DEF PostOld
    <2>5. \A i \in DOMAIN bs : nb[i].time = bs[i].time  BY DEF PostOld
    <2> QED  BY <2>1, <2>2, <2>3, <2>4, <2>5
  <1> DEFINE q == bs[k + 1].events
             r == nb[k + 1].events
  <1>3. /\ q \in Seq(1 .. MaxEvents) /\ r = Append(q, e) /\ Len(q) \in Nat
        /\ DOMAIN q = 1 .. Len(q) /\ DOMAIN r = 1 .. Len(q) + 1
        /\ \A i \in DOMAIN q : r[i] = q[i] /\ q[i] \in Nat
        /\ r[Len(q) + 1] = e
    <2>1. q \in Seq(1 .. MaxEvents) /\ r = Append(q, e)  BY <1>1, <1>2, Zenon
    <2> HIDE DEF q, r
    <2> QED  BY <2>1, Appended
  <1>4. \A i \in DOMAIN q : q[i] < e
    BY <1>2, SomeBucketMember
  <1>5. SortedByTime(nb)
    BY <1>2 DEF SortedByTime
  <1>6. EachIncreasing(nb)
    <2>1. Increasing(q)  BY <1>2 DEF EachIncreasing
    <2>2. Increasing(r)
      <3> HIDE DEF q, r
      <3> QED  BY <1>3, <1>4, <2>1 DEF Increasing
    <2> QED  BY <1>2, <2>2, Zenon DEF EachIncreasing
  <1>7. ASSUME NEW x PROVE x \in Dated(nb) <=> x \in Dated(bs) \/ x = [id |-> e, due |-> t]
    <2>1. ASSUME NEW i \in DOMAIN nb, NEW m \in DOMAIN nb[i].events,
                 x = [id |-> nb[i].events[m], due |-> nb[i].time]
          PROVE  x \in Dated(bs) \/ x = [id |-> e, due |-> t]
      <3>1. CASE i = k + 1 /\ m = Len(q) + 1
        BY <1>2, <1>3, <2>1, <3>1
      <3>2. CASE i = k + 1 /\ m # Len(q) + 1
        <4>1. m \in DOMAIN q /\ nb[i].events[m] = q[m]
          <5>1. nb[i].events = r /\ m \in DOMAIN r  BY <3>2
          <5> HIDE DEF q, r
          <5> QED  BY <1>3, <3>2, <5>1
        <4> QED  BY <1>2, <2>1, <3>2, <4>1, DatedMember
      <3>3. CASE i # k + 1
        BY <1>2, <2>1, <3>3, DatedMember
      <3> QED  BY <3>1, <3>2, <3>3
    <2>2. ASSUME NEW i \in DOMAIN bs, NEW m \in DOMAIN bs[i].events,
                 x = [id |-> bs[i].events[m], due |-> bs[i].time]
          PROVE  x \in Dated(nb)
      <3>1. m \in DOMAIN nb[i].events /\ nb[i].events[m] = bs[i].events[m]
        <4>1. CASE i = k + 1
          <5>1. nb[i].events = r /\ bs[i].events = q  BY <4>1
          <5> HIDE DEF q, r
          <5> QED  BY <1>3, <5>1
        <4>2. CASE i # k + 1  BY <1>2, <4>2
        <4> QED  BY <4>1, <4>2
      <3> QED  BY <1>2, <2>2, <3>1, DatedMember
    <2>3. ASSUME x = [id |-> e, due |-> t] PROVE x \in Dated(nb)
      <3>1. Len(q) + 1 \in DOMAIN r  BY <1>3
      <3> QED  BY <1>2, <1>3, <2>3, <3>1, DatedMember, Zenon
    <2> QED  BY <2>1, <2>2, <2>3, DatedMember
  <1> QED  BY <1>2, <1>5, <1>6, <1>7

(* A post that creates its bucket. *)
LEMMA PostNewFacts ==
  ASSUME NEW bs \in Seq(Bucket), SortedByTime(bs), EachIncreasing(bs),
         NEW t \in Nat, NEW e \in 1 .. MaxEvents, NEW k \in 0 .. Len(bs),
         NEW nb \in Seq(Bucket), PostNew(bs, t, e, nb, k)
  PROVE  /\ SortedByTime(nb) /\ EachIncreasing(nb)
         /\ Dated(nb) = Dated(bs) \cup {[id |-> e, due |-> t]}
  <1>1. /\ Len(bs) \in Nat /\ DOMAIN bs = 1 .. Len(bs)
        /\ \A i \in DOMAIN bs : bs[i].time \in Nat /\ bs[i].events \in Seq(1 .. MaxEvents)
    BY BucketType
  <1>2. DOMAIN nb = 1 .. Len(bs) + 1
    BY DEF PostNew
  <1> DEFINE old(i) == IF i <= k THEN i ELSE i - 1
  <1>3. \A i \in DOMAIN nb : i # k + 1 =>
          old(i) \in DOMAIN bs /\ nb[i] = bs[old(i)]
    <2> TAKE i \in DOMAIN nb
    <2> HAVE i # k + 1
    <2>1. CASE i <= k  BY <1>1, <1>2, <2>1 DEF PostNew
    <2>2. CASE i > k + 1
      <3>1. i - 1 \in k + 1 .. Len(bs) /\ (i - 1) + 1 = i  BY <1>1, <1>2, <2>2
      <3>2. nb[(i - 1) + 1] = bs[i - 1]  BY <3>1 DEF PostNew
      <3> QED  BY <1>1, <2>2, <3>1, <3>2
    <2> QED  BY <1>1, <1>2, <2>1, <2>2
  <1>4. nb[k + 1].time = t /\ nb[k + 1].events = <<e>> /\ k + 1 \in DOMAIN nb
    BY <1>1, <1>2 DEF PostNew
  <1>5. SortedByTime(nb)
    <2> SUFFICES ASSUME NEW i \in DOMAIN nb, NEW j \in DOMAIN nb, i < j
                 PROVE  nb[i].time < nb[j].time
      BY DEF SortedByTime
    <2>1. CASE i # k + 1 /\ j # k + 1
      <3>1. old(i) < old(j)  BY <1>1, <1>2, <2>1
      <3> QED  BY <1>3, <2>1, <3>1 DEF SortedByTime
    <2>2. CASE i = k + 1
      <3>1. old(j) \in k + 1 .. Len(bs) /\ j # k + 1  BY <1>1, <1>2, <2>2
      <3>2. bs[old(j)].time > t  BY <3>1 DEF PostNew
      <3> QED  BY <1>1, <1>3, <1>4, <2>2, <3>1, <3>2
    <2>3. CASE j = k + 1
      <3>1. i \in 1 .. k /\ i # k + 1 /\ old(i) = i  BY <1>1, <1>2, <2>3
      <3>2. bs[i].time < t  BY <3>1 DEF PostNew
      <3> QED  BY <1>3, <1>4, <2>3, <3>1, <3>2
    <2> QED  BY <2>1, <2>2, <2>3
  <1>6. EachIncreasing(nb)
    <2> SUFFICES ASSUME NEW i \in DOMAIN nb PROVE Increasing(nb[i].events)
      BY DEF EachIncreasing
    <2>1. CASE i = k + 1  BY <1>4, <2>1 DEF Increasing
    <2>2. CASE i # k + 1  BY <1>3, <2>2 DEF EachIncreasing
    <2> QED  BY <2>1, <2>2
  <1>7. ASSUME NEW x PROVE x \in Dated(nb) <=> x \in Dated(bs) \/ x = [id |-> e, due |-> t]
    <2>1. ASSUME NEW i \in DOMAIN nb, NEW m \in DOMAIN nb[i].events,
                 x = [id |-> nb[i].events[m], due |-> nb[i].time]
          PROVE  x \in Dated(bs) \/ x = [id |-> e, due |-> t]
      <3>1. CASE i = k + 1  BY <1>4, <2>1, <3>1
      <3>2. CASE i # k + 1  BY <1>3, <2>1, <3>2, DatedMember
      <3> QED  BY <3>1, <3>2
    <2>2. ASSUME NEW i \in DOMAIN bs, NEW m \in DOMAIN bs[i].events,
                 x = [id |-> bs[i].events[m], due |-> bs[i].time]
          PROVE  x \in Dated(nb)
      <3>1. \E j \in DOMAIN nb : nb[j] = bs[i]
        <4>1. CASE i <= k
          BY <1>1, <1>2, <4>1 DEF PostNew
        <4>2. CASE i > k
          <5>1. i \in k + 1 .. Len(bs) /\ i + 1 \in DOMAIN nb  BY <1>1, <1>2, <4>2
          <5> QED  BY <5>1 DEF PostNew
        <4> QED  BY <1>1, <4>1, <4>2
      <3> QED  BY <2>2, <3>1, DatedMember
    <2>3. ASSUME x = [id |-> e, due |-> t] PROVE x \in Dated(nb)
      <3>1. 1 \in DOMAIN nb[k + 1].events /\ nb[k + 1].events[1] = e  BY <1>4
      <3> QED  BY <1>4, <2>3, <3>1, DatedMember
    <2> QED  BY <2>1, <2>2, <2>3, DatedMember
  <1> QED  BY <1>5, <1>6, <1>7

(* What a post does to the buckets. *)
LEMMA PostFacts ==
  ASSUME NEW bs \in Seq(Bucket), SortedByTime(bs), EachIncreasing(bs),
         NEW t \in Nat, NEW e \in 1 .. MaxEvents,
         \A x \in InSomeBucket(bs) : x < e, NEW nb \in BucketPost(bs, t, e)
  PROVE  /\ nb \in Seq(Bucket) /\ SortedByTime(nb) /\ EachIncreasing(nb)
         /\ Dated(nb) = Dated(bs) \cup {[id |-> e, due |-> t]}
         /\ \A i \in DOMAIN nb :
              nb[i].time = t \/ \E j \in DOMAIN bs : nb[i].time = bs[j].time
         /\ bs # <<>> /\ bs[1].time <= t => nb # <<>> /\ nb[1].time = bs[1].time
  <1>1. /\ Len(bs) \in Nat /\ DOMAIN bs = 1 .. Len(bs)
        /\ \A i \in DOMAIN bs : bs[i].time \in Nat
    BY BucketType
  <1>2. PICK k \in 0 .. Len(bs) : PostOld(bs, t, e, nb, k) \/ PostNew(bs, t, e, nb, k)
    BY PostShape
  <1>3. nb \in Seq(Bucket)
    BY PostShape
  <1>4. CASE PostOld(bs, t, e, nb, k)
    <2>1. /\ SortedByTime(nb) /\ EachIncreasing(nb)
          /\ Dated(nb) = Dated(bs) \cup {[id |-> e, due |-> t]}
          /\ \A i \in DOMAIN nb : nb[i].time = bs[i].time
          /\ DOMAIN nb = DOMAIN bs
      <3>1. k \in Nat  BY <1>1
      <3> QED  BY <1>3, <1>4, <3>1, PostOldFacts, Zenon
    <2>2. ASSUME bs # <<>> PROVE nb # <<>> /\ nb[1].time = bs[1].time
      <3>1. 1 \in DOMAIN bs  BY <1>1, <2>2
      <3> QED  BY <2>1, <3>1
    <2> QED  BY <1>3, <2>1, <2>2
  <1>5. CASE PostNew(bs, t, e, nb, k)
    <2>1. /\ SortedByTime(nb) /\ EachIncreasing(nb)
          /\ Dated(nb) = Dated(bs) \cup {[id |-> e, due |-> t]}
      BY <1>1, <1>2, <1>3, <1>5, PostNewFacts
    <2>2. DOMAIN nb = 1 .. Len(bs) + 1
      BY <1>1, <1>3, <1>5 DEF PostNew
    <2>3. ASSUME NEW i \in DOMAIN nb
          PROVE  nb[i].time = t \/ \E j \in DOMAIN bs : nb[i].time = bs[j].time
      <3>1. CASE i <= k  BY <1>1, <1>2, <1>5, <2>2, <3>1 DEF PostNew
      <3>2. CASE i = k + 1  BY <1>5, <3>2 DEF PostNew
      <3>3. CASE i > k + 1
        <4>1. i - 1 \in k + 1 .. Len(bs) /\ (i - 1) + 1 = i  BY <1>1, <1>2, <2>2, <3>3
        <4>2. nb[(i - 1) + 1] = bs[i - 1]  BY <1>5, <4>1 DEF PostNew
        <4>3. i - 1 \in DOMAIN bs  BY <1>1, <1>2, <4>1
        <4> QED  BY <4>1, <4>2, <4>3
      <3> QED  BY <1>2, <2>2, <3>1, <3>2, <3>3
    <2>4. ASSUME bs # <<>>, bs[1].time <= t PROVE nb # <<>> /\ nb[1].time = bs[1].time
      <3>1. 1 \in DOMAIN bs /\ 1 \in DOMAIN nb  BY <1>1, <2>2, <2>4
      <3>2. CASE k = 0
        <4>1. bs[1].time > t
          <5>1. 1 \in k + 1 .. Len(bs)  BY <1>1, <3>1, <3>2
          <5> QED  BY Zenon, <1>5, <5>1 DEF PostNew
        <4>2. bs[1].time \in Nat  BY Zenon, <1>1, <3>1
        <4> QED  BY <2>4, <4>1, <4>2
      <3>3. CASE k # 0
        <4>1. 1 \in 1 .. k  BY <1>2, <3>3
        <4> QED  BY <1>5, <3>1, <4>1 DEF PostNew
      <3> QED  BY <3>2, <3>3
    <2> QED  BY <1>3, <2>1, <2>3, <2>4
  <1> QED  BY <1>2, <1>4, <1>5

(* No two of the events have the same number. *)
Distinct(D) == \A x, y \in D : x.id = y.id => x = y

(* A FIFO without its first event. *)
LEMMA Shortened ==
  ASSUME NEW q \in Seq(1 .. MaxEvents), q # <<>>
  PROVE  /\ Head(q) = q[1] /\ Head(q) \in 1 .. MaxEvents /\ Tail(q) \in Seq(1 .. MaxEvents)
         /\ Len(q) \in Nat \ {0} /\ DOMAIN q = 1 .. Len(q)
         /\ DOMAIN Tail(q) = 1 .. Len(q) - 1
         /\ \A i \in DOMAIN Tail(q) : Tail(q)[i] = q[i + 1]
  <1>1. Len(q) \in Nat \ {0} /\ DOMAIN q = 1 .. Len(q)
    OBVIOUS
  <1>2. /\ Head(q) \in 1 .. MaxEvents /\ Tail(q) \in Seq(1 .. MaxEvents)
        /\ Len(Tail(q)) = Len(q) - 1
        /\ \A i \in 1 .. Len(Tail(q)) : Tail(q)[i] = q[i + 1]
    BY TailOf, Zenon
  <1> QED  BY <1>1, <1>2

(* What the handling of the first event of bucket i does to the buckets. *)
LEMMA DrainFacts ==
  ASSUME NEW bs \in Seq(Bucket), SortedByTime(bs), EachIncreasing(bs), Distinct(Dated(bs)),
         NEW i \in DOMAIN bs, bs[i].events # <<>>
  PROVE  LET nb == [bs EXCEPT ![i].events = Tail(@)]
             first == [id |-> Head(bs[i].events), due |-> bs[i].time]
         IN /\ nb \in Seq(Bucket) /\ SortedByTime(nb) /\ EachIncreasing(nb)
            /\ Dated(nb) = Dated(bs) \ {first} /\ first \in Dated(bs)
            /\ DOMAIN nb = DOMAIN bs /\ \A j \in DOMAIN bs : nb[j].time = bs[j].time
  <1> DEFINE q == bs[i].events
             b == [bs[i] EXCEPT !.events = Tail(q)]
             nb == [bs EXCEPT ![i] = b]
             first == [id |-> Head(q), due |-> bs[i].time]
  <1>1. /\ Len(bs) \in Nat /\ DOMAIN bs = 1 .. Len(bs)
        /\ \A j \in DOMAIN bs : /\ bs[j] \in Bucket /\ bs[j].time \in Nat
                                /\ bs[j].events \in Seq(1 .. MaxEvents)
    BY BucketType
  <1>2. /\ q \in Seq(1 .. MaxEvents) /\ q # <<>>
        /\ Head(q) = q[1] /\ Tail(q) \in Seq(1 .. MaxEvents)
        /\ Len(q) \in Nat \ {0} /\ DOMAIN q = 1 .. Len(q)
        /\ DOMAIN Tail(q) = 1 .. Len(q) - 1
        /\ \A j \in DOMAIN Tail(q) : Tail(q)[j] = q[j + 1]
    <2>1. q \in Seq(1 .. MaxEvents) /\ q # <<>>  BY <1>1
    <2> HIDE DEF q
    <2> QED  BY <2>1, Shortened
  <1>3. b \in Bucket /\ b.time = bs[i].time /\ b.events = Tail(q)
    <2> DEFINE r == Tail(q)
    <2>1. r \in Fifo /\ bs[i] \in Bucket  BY <1>1, <1>2 DEF Fifo
    <2>2. b = [bs[i] EXCEPT !.events = r]  OBVIOUS
    <2> HIDE DEF r, b
    <2>3. \A c \in Bucket : LET d == [c EXCEPT !.events = r]
                            IN d \in Bucket /\ d.time = c.time /\ d.events = r
      BY <2>1, Zenon DEF Bucket
    <2> QED  BY <2>1, <2>2, <2>3 DEF r
  <1> HIDE DEF b
  <1>4. /\ nb \in Seq(Bucket) /\ Len(nb) = Len(bs)
        /\ \A j \in 1 .. Len(bs) : nb[j] = IF j = i THEN b ELSE bs[j]
    BY <1>1, <1>3
  <1>5. nb = [bs EXCEPT ![i].events = Tail(@)]
    BY DEF b
  <1> HIDE DEF nb
  <1>6. /\ DOMAIN nb = DOMAIN bs /\ \A j \in DOMAIN bs : nb[j].time = bs[j].time
        /\ \A j \in DOMAIN bs : j # i => nb[j].events = bs[j].events
        /\ nb[i].events = Tail(q)
    BY <1>1, <1>3, <1>4
  <1> HIDE DEF q
  <1>7. SortedByTime(nb)
    BY <1>6 DEF SortedByTime
  <1>8. EachIncreasing(nb)
    <2>1. Increasing(q)  BY DEF EachIncreasing, q
    <2>2. Increasing(Tail(q))
      <3> SUFFICES ASSUME NEW x \in DOMAIN Tail(q), NEW y \in DOMAIN Tail(q), x < y
                   PROVE  Tail(q)[x] < Tail(q)[y]
        BY DEF Increasing
      <3>1. x + 1 \in DOMAIN q /\ y + 1 \in DOMAIN q /\ x + 1 < y + 1  BY <1>2
      <3> QED  BY <1>2, <2>1, <3>1 DEF Increasing
    <2> QED  BY <1>6, <2>2, Zenon DEF EachIncreasing
  <1>9. first \in Dated(bs)
    <2>1. 1 \in DOMAIN q  BY <1>2
    <2> QED  BY <1>2, <2>1, DatedMember DEF q
  <1>10. ASSUME NEW x PROVE x \in Dated(nb) <=> x \in Dated(bs) /\ x # first
    <2>1. ASSUME NEW j \in DOMAIN nb, NEW m \in DOMAIN nb[j].events,
                 x = [id |-> nb[j].events[m], due |-> nb[j].time]
          PROVE  x \in Dated(bs) /\ x # first
      <3>1. CASE j # i
        <4>1. x \in Dated(bs)  BY <1>6, <2>1, <3>1, DatedMember
        <4>2. j < i \/ i < j  BY <1>1, <1>6, <3>1
        <4>3. bs[j].time # bs[i].time  BY <1>1, <1>6, <4>2 DEF SortedByTime
        <4>4. x.due = bs[j].time  BY <1>6, <2>1
        <4> QED  BY <4>1, <4>3, <4>4
      <3>2. CASE j = i
        <4>1. m + 1 \in DOMAIN q /\ nb[j].events[m] = q[m + 1] /\ 1 \in DOMAIN q /\ 1 < m + 1
          <5>1. nb[j].events = Tail(q) /\ m \in DOMAIN Tail(q)  BY <1>6, <3>2, Zenon
          <5> QED  BY <1>2, <5>1
        <4>2. x \in Dated(bs)  BY <1>6, <2>1, <3>2, <4>1, DatedMember DEF q
        <4>3. q[1] < q[m + 1]  BY <4>1 DEF EachIncreasing, Increasing, q
        <4>4. q[1] \in Nat  BY <1>2, <4>1, SchedulerAssumption
        <4> QED  BY <1>2, <2>1, <4>1, <4>2, <4>3, <4>4
      <3> QED  BY <3>1, <3>2
    <2>2. ASSUME NEW j \in DOMAIN bs, NEW m \in DOMAIN bs[j].events,
                 x = [id |-> bs[j].events[m], due |-> bs[j].time], x # first
          PROVE  x \in Dated(nb)
      <3>1. CASE j # i  BY <1>6, <2>2, <3>1, DatedMember
      <3>2. CASE j = i
        <4>1. m \in DOMAIN q /\ m # 1  BY <1>2, <2>2, <3>2 DEF q
        <4>2. m - 1 \in DOMAIN Tail(q) /\ (m - 1) + 1 = m  BY <1>2, <4>1
        <4>3. Tail(q)[m - 1] = bs[j].events[m]  BY <1>2, <3>2, <4>2 DEF q
        <4> QED  BY <1>6, <2>2, <3>2, <4>2, <4>3, DatedMember, Zenon
      <3> QED  BY <3>1, <3>2
    <2> QED  BY <2>1, <2>2, DatedMember
  <1> QED  BY <1>4, <1>5, <1>6, <1>7, <1>8, <1>9, <1>10, Zenon DEF q

(* What the removal of the first bucket does to the buckets. *)
LEMMA TailFacts ==
  ASSUME NEW bs \in Seq(Bucket), SortedByTime(bs), EachIncreasing(bs), bs # <<>>
  PROVE  /\ Tail(bs) \in Seq(Bucket) /\ SortedByTime(Tail(bs)) /\ EachIncreasing(Tail(bs))
         /\ Dated(Tail(bs)) \subseteq Dated(bs)
         /\ bs[1].events = <<>> => Dated(Tail(bs)) = Dated(bs)
         /\ \A i \in DOMAIN Tail(bs) : i + 1 \in DOMAIN bs /\ Tail(bs)[i] = bs[i + 1]
  <1> DEFINE nb == Tail(bs)
  <1>1. Len(bs) \in Nat \ {0} /\ DOMAIN bs = 1 .. Len(bs)
    OBVIOUS
  <1>2. /\ nb \in Seq(Bucket) /\ DOMAIN nb = 1 .. Len(bs) - 1
        /\ \A i \in DOMAIN nb : i + 1 \in DOMAIN bs /\ nb[i] = bs[i + 1]
    <2>1. /\ nb \in Seq(Bucket) /\ Len(nb) = Len(bs) - 1
          /\ \A i \in 1 .. Len(nb) : nb[i] = bs[i + 1]
      OBVIOUS
    <2> HIDE DEF nb
    <2> QED  BY <1>1, <2>1
  <1> HIDE DEF nb
  <1>3. SortedByTime(nb)
    <2> SUFFICES ASSUME NEW i \in DOMAIN nb, NEW j \in DOMAIN nb, i < j
                 PROVE  nb[i].time < nb[j].time
      BY DEF SortedByTime
    <2>1. i + 1 < j + 1  BY <1>1, <1>2
    <2> QED  BY <1>2, <2>1 DEF SortedByTime
  <1>4. EachIncreasing(nb)
    BY <1>2 DEF EachIncreasing
  <1>5. Dated(nb) \subseteq Dated(bs)
    <2> SUFFICES ASSUME NEW x \in Dated(nb) PROVE x \in Dated(bs)
      OBVIOUS
    <2>1. PICK i \in DOMAIN nb : \E k \in DOMAIN nb[i].events :
                x = [id |-> nb[i].events[k], due |-> nb[i].time]
      BY DatedMember
    <2> QED  BY <1>2, <2>1, DatedMember
  <1>6. ASSUME bs[1].events = <<>>, NEW x \in Dated(bs) PROVE x \in Dated(nb)
    <2>1. PICK i \in DOMAIN bs : \E k \in DOMAIN bs[i].events :
                x = [id |-> bs[i].events[k], due |-> bs[i].time]
      BY DatedMember
    <2>2. i # 1  BY <1>6, <2>1
    <2>3. i - 1 \in DOMAIN nb /\ (i - 1) + 1 = i  BY <1>1, <1>2, <2>2
    <2>4. nb[i - 1] = bs[i]  BY <1>2, <2>3
    <2> QED  BY <2>1, <2>3, <2>4, DatedMember
  <1> QED  BY <1>2, <1>3, <1>4, <1>5, <1>6, Zenon DEF nb

(* A post adds the event with its time to the dated events. *)
LEMMA PostDates ==
  ASSUME NEW bs \in Seq(Bucket), SortedByTime(bs), EachIncreasing(bs)
  PROVE  \A t \in Nat, e \in 1 .. MaxEvents : (\A x \in InSomeBucket(bs) : x < e) =>
           \A q \in BucketPost(bs, t, e) : Dated(q) = Dated(bs) \cup {[id |-> e, due |-> t]}
  BY PostFacts, ZenonT(30)

(* A post adds a new number to the numbers of the events. *)
LEMMA PostNumbers ==
  ASSUME NEW bs \in Seq(Bucket), SortedByTime(bs), EachIncreasing(bs), Distinct(Dated(bs)),
         NEW t \in Nat, NEW n \in Nat, n < MaxEvents, InSomeBucket(bs) \subseteq 1 .. n,
         NEW nb \in BucketPost(bs, t, n + 1)
  PROVE  /\ Distinct(Dated(nb))
         /\ InSomeBucket(nb) = InSomeBucket(bs) \cup {n + 1}
  <1> DEFINE new == [id |-> n + 1, due |-> t]
  <1>1. n + 1 \in 1 .. MaxEvents /\ \A x \in InSomeBucket(bs) : x < n + 1
    BY SchedulerAssumption
  <1>2. Dated(nb) = Dated(bs) \cup {new}
    <2>1. \A e \in 1 .. MaxEvents : (\A x \in InSomeBucket(bs) : x < e) =>
            \A q \in BucketPost(bs, t, e) : Dated(q) = Dated(bs) \cup {[id |-> e, due |-> t]}
      BY PostDates, Zenon
    <2> QED  BY <1>1, <2>1, Zenon
  <1>3. ASSUME NEW x \in Dated(bs) PROVE x.id # new.id
    <2>1. x.id \in InSomeBucket(bs)  BY SomeBucketDated, Zenon
    <2>2. x.id \in 1 .. n  BY <2>1
    <2> QED  BY <2>2
  <1>4. Distinct(Dated(nb))
    BY <1>2, <1>3 DEF Distinct
  <1>5. ASSUME NEW e PROVE e \in InSomeBucket(nb) <=> e \in InSomeBucket(bs) \/ e = n + 1
    <2>1. ASSUME e \in InSomeBucket(nb) PROVE e \in InSomeBucket(bs) \/ e = n + 1
      <3>1. PICK x \in Dated(nb) : e = x.id  BY <2>1, SomeBucketDated
      <3> QED  BY <1>2, <3>1, SomeBucketDated
    <2>2. ASSUME e \in InSomeBucket(bs) PROVE e \in InSomeBucket(nb)
      <3>1. PICK x \in Dated(bs) : e = x.id  BY <2>2, SomeBucketDated
      <3> QED  BY <1>2, <3>1, SomeBucketDated
    <2>3. ASSUME e = n + 1 PROVE e \in InSomeBucket(nb)
      <3>1. new \in Dated(nb) /\ e = new.id  BY <1>2, <2>3
      <3> QED  BY <3>1, SomeBucketDated
    <2> QED  BY <2>1, <2>2, <2>3
  <1> QED  BY <1>4, <1>5

(* Handling an event of bucket i takes its number from the list. *)
LEMMA DrainNumbers ==
  ASSUME NEW bs \in Seq(Bucket), SortedByTime(bs), EachIncreasing(bs), Distinct(Dated(bs)),
         NEW i \in DOMAIN bs, bs[i].events # <<>>
  PROVE  LET nb == [bs EXCEPT ![i].events = Tail(@)]
         IN /\ Distinct(Dated(nb))
            /\ InSomeBucket(nb) = InSomeBucket(bs) \ {Head(bs[i].events)}
            /\ Head(bs[i].events) \in InSomeBucket(bs)
  <1> DEFINE nb == [bs EXCEPT ![i].events = Tail(@)]
             first == [id |-> Head(bs[i].events), due |-> bs[i].time]
  <1>1. Dated(nb) = Dated(bs) \ {first} /\ first \in Dated(bs)
    BY DrainFacts, Zenon
  <1> HIDE DEF nb
  <1>2. Distinct(Dated(nb))
    BY <1>1 DEF Distinct
  <1>3. Head(bs[i].events) \in InSomeBucket(bs)
    BY <1>1, SomeBucketDated
  <1>4. ASSUME NEW e PROVE e \in InSomeBucket(nb) <=> e \in InSomeBucket(bs) /\ e # first.id
    <2>1. ASSUME e \in InSomeBucket(nb) PROVE e \in InSomeBucket(bs) /\ e # first.id
      <3>1. PICK x \in Dated(nb) : e = x.id  BY <2>1, SomeBucketDated
      <3>2. x.id # first.id  BY <1>1 DEF Distinct
      <3> QED  BY <1>1, <3>1, <3>2, SomeBucketDated
    <2>2. ASSUME e \in InSomeBucket(bs), e # first.id PROVE e \in InSomeBucket(nb)
      <3>1. PICK x \in Dated(bs) : e = x.id  BY <2>2, SomeBucketDated
      <3> QED  BY <1>1, <2>2, <3>1, SomeBucketDated
    <2> QED  BY <2>1, <2>2
  <1> QED  BY <1>2, <1>3, <1>4, Zenon DEF nb

(* Removing the first bucket takes no number when it is empty. *)
LEMMA TailNumbers ==
  ASSUME NEW bs \in Seq(Bucket), SortedByTime(bs), EachIncreasing(bs), Distinct(Dated(bs)),
         bs # <<>>
  PROVE  /\ Distinct(Dated(Tail(bs)))
         /\ InSomeBucket(Tail(bs)) \subseteq InSomeBucket(bs)
         /\ bs[1].events = <<>> => InSomeBucket(Tail(bs)) = InSomeBucket(bs)
  <1>1. /\ Dated(Tail(bs)) \subseteq Dated(bs)
        /\ bs[1].events = <<>> => Dated(Tail(bs)) = Dated(bs)
    BY TailFacts
  <1>2. Distinct(Dated(Tail(bs)))
    BY <1>1 DEF Distinct
  <1>3. \A e : e \in InSomeBucket(Tail(bs)) => e \in InSomeBucket(bs)
    BY <1>1, SomeBucketDated
  <1>4. bs[1].events = <<>> => \A e : e \in InSomeBucket(bs) => e \in InSomeBucket(Tail(bs))
    BY <1>1, SomeBucketDated
  <1> QED  BY <1>2, <1>3, <1>4, Zenon

(* The FIFO of the static scheduler. *)
LEMMA FifoAppend ==
  ASSUME NEW q \in Seq(1 .. MaxEvents), Increasing(q),
         NEW n \in Nat, n < MaxEvents, Range(q) \subseteq 1 .. n
  PROVE  /\ Append(q, n + 1) \in Seq(1 .. MaxEvents) /\ Increasing(Append(q, n + 1))
         /\ Range(Append(q, n + 1)) = Range(q) \cup {n + 1}
  <1> DEFINE r == Append(q, n + 1)
  <1>1. n + 1 \in 1 .. MaxEvents /\ \A i \in DOMAIN q : q[i] < n + 1
    <2>1. n + 1 \in 1 .. MaxEvents  BY SchedulerAssumption
    <2>2. \A i \in DOMAIN q : q[i] \in 1 .. n  BY DEF Range
    <2> QED  BY <2>1, <2>2
  <1>2. /\ Len(q) \in Nat /\ DOMAIN q = 1 .. Len(q) /\ r \in Seq(1 .. MaxEvents)
        /\ DOMAIN r = 1 .. Len(q) + 1 /\ r[Len(q) + 1] = n + 1
        /\ \A i \in DOMAIN q : r[i] = q[i] /\ q[i] \in Nat
    BY <1>1, Appended
  <1> HIDE DEF r
  <1>3. Increasing(r)
    BY <1>1, <1>2 DEF Increasing
  <1>4. ASSUME NEW e PROVE e \in Range(r) <=> e \in Range(q) \/ e = n + 1
    <2>1. ASSUME NEW i \in DOMAIN r, e = r[i] PROVE e \in Range(q) \/ e = n + 1
      BY <1>2, <2>1 DEF Range
    <2>2. ASSUME NEW i \in DOMAIN q, e = q[i] PROVE e \in Range(r)
      BY <1>2, <2>2 DEF Range
    <2>3. ASSUME e = n + 1 PROVE e \in Range(r)
      BY <1>2, <2>3 DEF Range
    <2> QED  BY <2>1, <2>2, <2>3 DEF Range
  <1> QED  BY <1>2, <1>3, <1>4 DEF r

(* The FIFO of the static scheduler without its first event. *)
LEMMA FifoTail ==
  ASSUME NEW q \in Seq(1 .. MaxEvents), Increasing(q), q # <<>>
  PROVE  /\ Tail(q) \in Seq(1 .. MaxEvents) /\ Increasing(Tail(q))
         /\ Range(Tail(q)) = Range(q) \ {Head(q)} /\ Head(q) \in Range(q)
         /\ \A e \in Range(q) : Head(q) <= e
  <1>1. /\ Head(q) = q[1] /\ Tail(q) \in Seq(1 .. MaxEvents)
        /\ Len(q) \in Nat \ {0} /\ DOMAIN q = 1 .. Len(q)
        /\ DOMAIN Tail(q) = 1 .. Len(q) - 1
        /\ \A i \in DOMAIN Tail(q) : Tail(q)[i] = q[i + 1]
        /\ \A i \in DOMAIN q : q[i] \in Nat
    BY Shortened, SchedulerAssumption
  <1>2. Increasing(Tail(q))
    <2> SUFFICES ASSUME NEW x \in DOMAIN Tail(q), NEW y \in DOMAIN Tail(q), x < y
                 PROVE  Tail(q)[x] < Tail(q)[y]
      BY DEF Increasing
    <2>1. x + 1 \in DOMAIN q /\ y + 1 \in DOMAIN q /\ x + 1 < y + 1  BY <1>1
    <2> QED  BY <1>1, <2>1 DEF Increasing
  <1>3. 1 \in DOMAIN q /\ \A i \in DOMAIN q : i # 1 => q[1] < q[i]
    BY <1>1 DEF Increasing
  <1>4. ASSUME NEW e PROVE e \in Range(Tail(q)) <=> e \in Range(q) /\ e # q[1]
    <2>1. ASSUME NEW i \in DOMAIN Tail(q), e = Tail(q)[i] PROVE e \in Range(q) /\ e # q[1]
      <3>1. i + 1 \in DOMAIN q /\ i + 1 # 1 /\ e = q[i + 1]  BY <1>1, <2>1
      <3> QED  BY <1>1, <1>3, <3>1 DEF Range
    <2>2. ASSUME NEW i \in DOMAIN q, e = q[i], e # q[1] PROVE e \in Range(Tail(q))
      <3>1. i - 1 \in DOMAIN Tail(q) /\ (i - 1) + 1 = i  BY <1>1, <2>2
      <3>2. Tail(q)[i - 1] = e  BY <1>1, <2>2, <3>1
      <3> QED  BY <3>1, <3>2 DEF Range
    <2> QED  BY <2>1, <2>2 DEF Range
  <1>5. \A e \in Range(q) : q[1] <= e
    BY <1>1, <1>3 DEF Range
  <1> QED  BY <1>1, <1>2, <1>3, <1>4, <1>5, Zenon DEF Range

-----------------------------------------------------------------------------
(***************************************************************************)
(* The inductive invariant.                                                *)
(***************************************************************************)
(* A scheduler only uses its own list, and works only in a call of run(). *)
OneList ==
  /\ type = "none" => cur_time = 0 /\ ~loop.on
  /\ type # "static" => events = <<>>
  /\ type # "dynamic" => buckets = <<>> /\ draining = {}
  /\ draining # {} => loop.on

(* The lists are sorted, and an event is in them once. *)
ListsSorted ==
  /\ Increasing(events)
  /\ SortedByTime(buckets) /\ EachIncreasing(buckets) /\ Distinct(Dated(buckets))

(* The events are the numbers up to posted, and each one is in one place.  *)
Accounted ==
  /\ handled \cup cleared \cup Waiting \subseteq 1 .. posted
  /\ Waiting \cap (handled \cup cleared) = {}
  /\ handled \cap cleared = {}
  /\ exact => 1 .. posted \subseteq handled \cup cleared \cup Waiting

(* No bucket is in the past, and the one that is emptied is the first. *)
NothingPast ==
  /\ type = "dynamic" =>
       /\ Float(cur_time) = cur_time
       /\ \A i \in DOMAIN buckets : /\ Float(buckets[i].time) >= cur_time
                                    /\ exact => buckets[i].time >= cur_time
  /\ draining # {} /\ exact =>
       /\ draining = {cur_time}
       /\ buckets # <<>> /\ buckets[1].time = cur_time

(* The limit is looked at before a bucket is emptied, and after each event *)
(* of the static scheduler.                                                *)
LimitSeen ==
  /\ draining # {} => ~TimeLimit(cur_time)
  /\ loop.on \/ type # "static" => late = 0
  /\ late <= 1

SchedInv == /\ SchedTypeOK /\ OneList /\ ListsSorted /\ Accounted /\ NothingPast /\ LimitSeen

(* The invariant holds before the first command. *)
LEMMA InvInit ==
  ASSUME SchedInit
  PROVE  SchedInv
  <1> USE DEF SchedInit, StaticCreate, DynamicCreate, SimCreate, Idle
  <1>1. SchedTypeOK
    <2>1. {cancelled, exact} \subseteq BOOLEAN
      BY Zenon
    <2>2. loop \in [on : BOOLEAN, steps : Nat, whole : BOOLEAN]
      OBVIOUS
    <2>3. events \in Fifo /\ buckets \in Seq(Bucket)
      BY DEF Fifo
    <2> QED  BY <2>1, <2>2, <2>3, SchedulerAssumption DEF SchedTypeOK, Schedulers
  <1>2. OneList
    BY DEF OneList
  <1>3. InSomeBucket(buckets) = {} /\ Range(events) = {} /\ Dated(buckets) = {}
    BY DEF InSomeBucket, Range, Dated
  <1>4. ListsSorted
    BY <1>3 DEF ListsSorted, Increasing, SortedByTime, EachIncreasing, Distinct
  <1>5. Accounted
    BY <1>3 DEF Accounted, Waiting
  <1>6. NothingPast
    BY DEF NothingPast
  <1>7. LimitSeen
    BY DEF LimitSeen
  <1> QED  BY <1>1, <1>2, <1>4, <1>5, <1>6, <1>7 DEF SchedInv

(* The steps that leave the lists alone. *)
LEMMA ListsKept ==
  ASSUME SchedTypeOK, ListsSorted, Accounted, exact' => exact,
         UNCHANGED <<events, buckets, posted, handled, cleared>>
  PROVE  ListsSorted' /\ Accounted'
  <1>1. ListsSorted'
    BY DEF ListsSorted
  <1>2. Waiting' = Waiting
    BY DEF Waiting
  <1> QED  BY <1>1, <1>2 DEF Accounted

(* The commands that post and clear nothing. *)
LEMMA CommandsKeep ==
  ASSUME SchedInv,
         \/ \E t \in Schedulers : CliSimOptionsScheduler(t)
         \/ \E t \in StopTimes : CliSimStop(t)
         \/ \E n \in StepCounts : CliSimStep(n)
         \/ CliSimRun \/ Interrupt
  PROVE  SchedInv'
  <1> USE SchedulerAssumption DEF SchedInv
  <1>1. ASSUME NEW t \in Schedulers, CliSimOptionsScheduler(t) PROVE SchedInv'
    <2> USE <1>1 DEF CliSimOptionsScheduler
    <2>1. SchedTypeOK'  BY DEF SchedTypeOK
    <2>2. ListsSorted' /\ Accounted'  BY ListsKept
    <2>3. OneList' /\ LimitSeen'  BY DEF OneList, LimitSeen, TimeLimit
    <2>4. NothingPast'  BY DEF NothingPast
    <2> QED  BY <2>1, <2>2, <2>3, <2>4
  <1>2. ASSUME NEW t \in StopTimes, CliSimStop(t) PROVE SchedInv'
    <2> USE <1>2 DEF CliSimStop, Simulator
    <2>1. SchedTypeOK'  BY DEF SchedTypeOK
    <2>2. ListsSorted' /\ Accounted'  BY ListsKept
    <2>3. OneList'  BY DEF OneList, SchedTypeOK, Schedulers
    <2>4. LimitSeen'  BY DEF OneList, LimitSeen
    <2>5. NothingPast'  BY FloatMonotone DEF OneList, NothingPast
    <2> QED  BY <2>1, <2>2, <2>3, <2>4, <2>5
  <1>3. ASSUME NEW n \in Nat, NEW w \in BOOLEAN, Enter(n, w) PROVE SchedInv'
    <2> USE <1>3 DEF Enter, Simulator
    <2>1. SchedTypeOK'
      <3>1. {cancelled', exact'} \subseteq BOOLEAN
        BY Zenon DEF SchedTypeOK
      <3>2. loop' \in [on : BOOLEAN, steps : Nat, whole : BOOLEAN]
        OBVIOUS
      <3>3. type' \in Schedulers \union {"none"} /\ runs' \in 0 .. MaxRuns
        BY DEF SchedTypeOK
      <3> QED  BY <3>1, <3>2, <3>3, Zenon DEF SchedTypeOK
    <2>2. ListsSorted' /\ Accounted'  BY ListsKept
    <2>3. OneList'  BY DEF OneList, SchedTypeOK, Schedulers
    <2>4. LimitSeen'  BY DEF OneList, LimitSeen
    <2>5. NothingPast'  BY FloatMonotone DEF OneList, NothingPast
    <2> QED  BY <2>1, <2>2, <2>3, <2>4, <2>5
  <1>4. ASSUME Interrupt PROVE SchedInv'
    <2> USE <1>4 DEF Interrupt, Cancel
    <2>1. SchedTypeOK'  BY DEF SchedTypeOK
    <2>2. ListsSorted' /\ Accounted'  BY ListsKept
    <2>3. OneList' /\ LimitSeen'  BY DEF OneList, LimitSeen, TimeLimit
    <2>4. NothingPast'  BY DEF NothingPast
    <2> QED  BY <2>1, <2>2, <2>3, <2>4
  <1> QED  BY <1>1, <1>2, <1>3, <1>4, Zenon DEF CliSimStep, CliSimRun

(* sim clear. *)
LEMMA ClearKeeps ==
  ASSUME SchedInv, CliSimClear
  PROVE  SchedInv'
  <1> USE SchedulerAssumption DEF SchedInv, CliSimClear, Simulator
  <1>1. InSomeBucket(buckets') = {} /\ Range(events') = {} /\ Dated(buckets') = {}
    BY DEF InSomeBucket, Range, Dated
  <1>2. SchedTypeOK'
    <2>1. cleared' \subseteq 1 .. MaxEvents
      BY DEF Accounted, Waiting, SchedTypeOK
    <2> QED  BY <2>1 DEF SchedTypeOK, Fifo, Schedulers
  <1>3. ListsSorted'
    BY <1>1 DEF ListsSorted, Increasing, SortedByTime, EachIncreasing, Distinct
  <1>4. Accounted'
    BY <1>1 DEF Accounted, Waiting
  <1>5. OneList' /\ LimitSeen'  BY DEF OneList, LimitSeen, TimeLimit, SchedTypeOK, Schedulers
  <1>6. NothingPast'  BY FloatMonotone DEF NothingPast, OneList
  <1> QED  BY <1>2, <1>3, <1>4, <1>5, <1>6

(* What the invariant says of the lists for the lemmas about buckets. *)
LEMMA ListFacts ==
  ASSUME SchedInv
  PROVE  /\ events \in Seq(1 .. MaxEvents) /\ Increasing(events)
         /\ buckets \in Seq(Bucket) /\ SortedByTime(buckets) /\ EachIncreasing(buckets)
         /\ Distinct(Dated(buckets))
         /\ posted \in Nat /\ posted <= MaxEvents /\ MaxEvents \in Nat /\ cur_time \in Nat
         /\ Range(events) \subseteq 1 .. posted /\ InSomeBucket(buckets) \subseteq 1 .. posted
         /\ \A i \in DOMAIN buckets : buckets[i].time \in Nat
  <1>1. buckets \in Seq(Bucket)  BY DEF SchedInv, SchedTypeOK
  <1>2. \A i \in DOMAIN buckets : buckets[i].time \in Nat  BY <1>1, BucketType
  <1>3. posted \in Nat /\ posted <= MaxEvents /\ MaxEvents \in Nat /\ cur_time \in Nat
    BY SchedulerAssumption DEF SchedInv, SchedTypeOK
  <1>4. Range(events) \subseteq 1 .. posted /\ InSomeBucket(buckets) \subseteq 1 .. posted
    BY DEF SchedInv, Accounted, Waiting
  <1> QED  BY <1>1, <1>2, <1>3, <1>4 DEF SchedInv, SchedTypeOK, ListsSorted, Fifo

(* A post to the static scheduler. *)
LEMMA StaticPostKeeps ==
  ASSUME SchedInv, ~loop.on, posted < MaxEvents, Simulator = "static", type' = Simulator,
         events' = Append(events, posted + 1), posted' = posted + 1,
         UNCHANGED <<default_sched, max_time, cancelled, cur_time, loop, draining, buckets,
                     error, runs, handled, cleared, exact, late>>
  PROVE  SchedInv'
  <1>1. /\ posted \in Nat /\ MaxEvents \in Nat
        /\ Range(events) \subseteq 1 .. posted /\ InSomeBucket(buckets) \subseteq 1 .. posted
    BY ListFacts
  <1>2. /\ events' \in Seq(1 .. MaxEvents) /\ Increasing(events')
        /\ Range(events') = Range(events) \cup {posted + 1}
    BY ListFacts, FifoAppend
  <1>3. SchedTypeOK'
    BY <1>1, <1>2 DEF SchedInv, SchedTypeOK, Schedulers, Fifo
  <1>4. ListsSorted'
    BY <1>2 DEF SchedInv, ListsSorted
  <1>5. Waiting' = Waiting \cup {posted + 1}
    BY <1>2 DEF Waiting
  <1>6. Accounted'
    <2>1. posted + 1 \notin 1 .. posted /\ 1 .. posted' = 1 .. posted \cup {posted + 1}
      BY <1>1
    <2> QED  BY <1>5, <2>1 DEF SchedInv, Accounted
  <1>7. OneList' /\ LimitSeen'
    BY DEF SchedInv, OneList, LimitSeen, TimeLimit, SchedTypeOK, Schedulers, Simulator
  <1>8. NothingPast'
    BY DEF SchedInv, OneList, NothingPast, Simulator
  <1> QED  BY <1>3, <1>4, <1>6, <1>7, <1>8 DEF SchedInv

(* A post to the dynamic scheduler, not in the past. *)
LEMMA DynamicPostKeeps ==
  ASSUME SchedInv, ~loop.on, posted < MaxEvents, Simulator = "dynamic", type' = Simulator,
         NEW t \in Nat, t >= cur_time,
         buckets' \in BucketPost(buckets, t, posted + 1), posted' = posted + 1,
         UNCHANGED <<default_sched, max_time, cancelled, cur_time, loop, draining, events,
                     error, runs, handled, cleared, exact, late>>
  PROVE  SchedInv'
  <1>1. /\ posted \in Nat /\ MaxEvents \in Nat /\ cur_time \in Nat
        /\ Range(events) \subseteq 1 .. posted /\ InSomeBucket(buckets) \subseteq 1 .. posted
        /\ \A i \in DOMAIN buckets : buckets[i].time \in Nat
    BY ListFacts
  <1>2. posted + 1 \in 1 .. MaxEvents /\ \A x \in InSomeBucket(buckets) : x < posted + 1
    BY <1>1
  <1>3. /\ buckets' \in Seq(Bucket) /\ SortedByTime(buckets') /\ EachIncreasing(buckets')
        /\ \A i \in DOMAIN buckets' :
             buckets'[i].time = t \/ \E j \in DOMAIN buckets : buckets'[i].time = buckets[j].time
    BY <1>2, ListFacts, PostFacts, Zenon
  <1>4. Distinct(Dated(buckets')) /\ InSomeBucket(buckets') = InSomeBucket(buckets) \cup {posted + 1}
    BY ListFacts, PostNumbers, Zenon
  <1>5. SchedTypeOK'
    BY <1>1, <1>3, SMTT(30) DEF SchedInv, SchedTypeOK, Schedulers
  <1>6. ListsSorted'
    BY <1>3, <1>4, Zenon DEF SchedInv, ListsSorted
  <1>7. Waiting' = Waiting \cup {posted + 1}
    BY <1>4 DEF Waiting
  <1>8. Accounted'
    <2>1. posted + 1 \notin 1 .. posted /\ 1 .. posted' = 1 .. posted \cup {posted + 1}
      BY <1>1
    <2> QED  BY <1>7, <2>1 DEF SchedInv, Accounted
  <1>9. OneList' /\ LimitSeen'
    BY DEF SchedInv, OneList, LimitSeen, TimeLimit, SchedTypeOK, Schedulers, Simulator
  <1>10. NothingPast'
    <2>1. draining' = {}  BY DEF SchedInv, OneList
    <2>2. Float(cur_time) = cur_time
      BY FloatMonotone, Zenon DEF SchedInv, OneList, NothingPast, Simulator
    <2>3. ASSUME NEW i \in DOMAIN buckets'
          PROVE  Float(buckets'[i].time) >= cur_time /\ (exact => buckets'[i].time >= cur_time)
      <3>1. CASE buckets'[i].time = t
        <4>1. Float(cur_time) <= Float(t) /\ Float(t) \in Nat  BY <1>1, FloatMonotone, Zenon
        <4> QED  BY <1>1, <2>2, <3>1, <4>1
      <3>2. CASE \E j \in DOMAIN buckets : buckets'[i].time = buckets[j].time
        <4>1. PICK j \in DOMAIN buckets : buckets'[i].time = buckets[j].time  BY <3>2
        <4>2. type = "dynamic"  BY DEF SchedInv, OneList, Simulator
        <4> QED  BY <4>1, <4>2 DEF SchedInv, NothingPast
      <3> QED  BY <1>3, <3>1, <3>2
    <2> QED  BY <2>1, <2>2, <2>3 DEF NothingPast
  <1> QED  BY <1>5, <1>6, <1>8, <1>9, <1>10 DEF SchedInv

(* The commands that post. *)
LEMMA PostsKeep ==
  ASSUME SchedInv,
         \/ \E d \in Delays : PostRelative(d)
         \/ \E t \in EventTimes : CliSimEvent(t)
  PROVE  SchedInv'
  <1>1. ASSUME NEW d \in Delays, PostRelative(d) PROVE SchedInv'
    <2>1. cur_time + d \in Nat /\ cur_time + d >= cur_time
      BY ListFacts, SchedulerAssumption
    <2>2. CASE Simulator = "static"
      BY <1>1, <2>2, StaticPostKeeps DEF PostRelative
    <2>3. CASE Simulator = "dynamic"
      BY <1>1, <2>1, <2>3, DynamicPostKeeps DEF PostRelative
    <2> QED  BY <1>1, <2>2, <2>3 DEF PostRelative
  <1>2. ASSUME NEW t \in EventTimes, CliSimEvent(t) PROVE SchedInv'
    <2>1. t \in Nat  BY SchedulerAssumption
    <2>2. CASE Simulator = "static"
      BY <1>2, <2>2, StaticPostKeeps, Zenon DEF CliSimEvent
    <2>3. CASE Simulator = "dynamic" /\ t >= cur_time
      BY <1>2, <2>1, <2>3, ListFacts, DynamicPostKeeps DEF CliSimEvent
    <2>4. CASE Simulator = "dynamic" /\ t < cur_time
      <3> USE <1>2, <2>4 DEF CliSimEvent, SchedInv
      <3>1. /\ type' = Simulator /\ error' = "fatal"
            /\ UNCHANGED <<default_sched, max_time, cancelled, events, buckets, cur_time, loop,
                           draining, posted, runs, handled, cleared, exact, late>>
        BY <2>1, ListFacts
      <3>2. SchedTypeOK'  BY <3>1, Zenon DEF SchedTypeOK, Simulator, Schedulers
      <3>3. ListsSorted' /\ Accounted'  BY <3>1, ListsKept
      <3>4. OneList' /\ LimitSeen'
        BY <3>1, ZenonT(30) DEF OneList, LimitSeen, TimeLimit, Simulator, SchedTypeOK, Schedulers
      <3>5. NothingPast'  BY <3>1, FloatMonotone DEF OneList, NothingPast, Simulator
      <3> QED  BY <3>2, <3>3, <3>4, <3>5, ZenonT(30)
    <2> QED  BY <1>2, <2>2, <2>3, <2>4 DEF CliSimEvent
  <1> QED  BY <1>1, <1>2

Errors == {"none", "callback", "ESIM_TIME_LIMIT", "fatal"}

Loops == [on : BOOLEAN, steps : Nat, whole : BOOLEAN]

(* What a pass may do to the call of run(): go on or leave. *)
OnOrOff ==
  /\ loop' \in Loops /\ error' \in Errors
  /\ \/ loop'.on /\ draining' = draining
     \/ ~loop'.on /\ draining' = {}

(* What a loop that ends leaves behind. *)
LEMMA Leaves ==
  ASSUME NEW e \in Errors, Leave(e)
  PROVE  OnOrOff /\ ~loop'.on /\ draining' = {}
  BY DEF Leave, OnOrOff, Idle, Loops

(* A counted step goes on or ends the loop. *)
LEMMA StepCounted ==
  ASSUME SchedTypeOK, loop.on, CountStep
  PROVE  OnOrOff
  <1>1. CASE loop.steps = 1 /\ Leave("none")
    <2>1. "none" \in Errors  BY DEF Errors
    <2> QED  BY <1>1, <2>1, Leaves
  <1>2. CASE Continue(IF loop.steps = 0 THEN 0 ELSE loop.steps - 1)
    <2> DEFINE n == IF loop.steps = 0 THEN 0 ELSE loop.steps - 1
    <2>1. n \in Nat /\ loop \in Loops /\ error \in Errors
      BY DEF SchedTypeOK, Loops, Errors
    <2>2. loop' = [loop EXCEPT !.steps = n] /\ UNCHANGED <<draining, error>>
      BY <1>2 DEF Continue
    <2> HIDE DEF n
    <2>3. loop' \in Loops /\ loop'.on = loop.on
      BY <2>1, <2>2, Zenon DEF Loops
    <2> QED  BY <2>1, <2>2, <2>3 DEF OnOrOff
  <1> QED  BY <1>1, <1>2 DEF CountStep

(* The lists after the callback of an event of the FIFO. *)
LEMMA StaticCallbackKeeps ==
  ASSUME SchedInv, events # <<>>, StaticCallback(events),
         handled' = handled \cup {Head(events)}, UNCHANGED <<buckets, exact>>
  PROVE  /\ events' \in Seq(1 .. MaxEvents) /\ posted' \in 0 .. MaxEvents
         /\ handled' \cup cleared' \subseteq 1 .. MaxEvents
         /\ ListsSorted' /\ Accounted'
  <1> DEFINE h == Head(events)
             q == Tail(events)
  <1>1. /\ q \in Seq(1 .. MaxEvents) /\ Increasing(q)
        /\ Range(q) = Range(events) \ {h} /\ h \in Range(events)
    BY ListFacts, FifoTail
  <1>2. /\ posted \in Nat /\ posted <= MaxEvents /\ MaxEvents \in Nat
        /\ Range(events) \subseteq 1 .. posted /\ InSomeBucket(buckets) \subseteq 1 .. posted
    BY ListFacts
  <1>3. /\ handled \cup cleared \subseteq 1 .. posted /\ handled \cap cleared = {}
        /\ Range(events) \cap (handled \cup cleared) = {}
        /\ InSomeBucket(buckets) \cap (handled \cup cleared) = {}
        /\ exact => 1 .. posted \subseteq
                      handled \cup cleared \cup Range(events) \cup InSomeBucket(buckets)
    BY DEF SchedInv, Accounted, Waiting
  <1>4. InSomeBucket(buckets) = {}
    <2>1. type = "static"  BY DEF SchedInv, OneList
    <2>2. buckets = <<>>  BY <2>1 DEF SchedInv, OneList
    <2> QED  BY <2>2 DEF InSomeBucket
  <1>5. handled' = handled \cup {h} /\ InSomeBucket(buckets') = {}
    BY <1>4
  <1>6. SortedByTime(buckets') /\ EachIncreasing(buckets') /\ Distinct(Dated(buckets'))
    BY ListFacts
  <1>7. CASE events' = q /\ UNCHANGED <<posted, cleared>>
    <2> HIDE DEF h, q
    <2>1. Accounted'
      BY <1>1, <1>2, <1>3, <1>4, <1>5, <1>7 DEF Accounted, Waiting
    <2>2. ListsSorted'  BY <1>1, <1>6, <1>7, Zenon DEF ListsSorted
    <2> QED  BY <1>1, <1>2, <1>3, <1>5, <1>7, <2>1, <2>2
  <1>8. CASE posted < MaxEvents /\ events' = Append(q, posted + 1) /\ posted' = posted + 1
             /\ UNCHANGED cleared
    <2> HIDE DEF h, q
    <2>1. Range(q) \subseteq 1 .. posted  BY <1>1, <1>2
    <2>2. /\ events' \in Seq(1 .. MaxEvents) /\ Increasing(events')
          /\ Range(events') = Range(q) \cup {posted + 1}
      BY <1>1, <1>2, <1>8, <2>1, FifoAppend
    <2>3. posted + 1 \notin 1 .. posted /\ 1 .. posted' = 1 .. posted \cup {posted + 1}
      BY <1>2, <1>8
    <2>4. Accounted'
      BY <1>1, <1>2, <1>3, <1>4, <1>5, <1>8, <2>2, <2>3 DEF Accounted, Waiting
    <2>5. ListsSorted'  BY <1>6, <2>2, Zenon DEF ListsSorted
    <2> QED  BY <1>1, <1>2, <1>3, <1>5, <1>8, <2>2, <2>4, <2>5
  <1>9. CASE events' = <<>> /\ cleared' = cleared \cup Range(q) /\ UNCHANGED posted
    <2>1. Range(events') = {} /\ Increasing(events') /\ events' \in Seq(1 .. MaxEvents)
      BY <1>9 DEF Range, Increasing
    <2> HIDE DEF h, q
    <2>2. Accounted'
      BY <1>1, <1>2, <1>3, <1>4, <1>5, <1>9, <2>1 DEF Accounted, Waiting
    <2>3. ListsSorted'  BY <1>6, <2>1 DEF ListsSorted
    <2> QED  BY <1>1, <1>2, <1>3, <1>5, <1>9, <2>1, <2>2, <2>3
  <1> QED  BY <1>7, <1>8, <1>9 DEF StaticCallback

(* The loop of the static scheduler. *)
LEMMA StaticKeeps ==
  ASSUME SchedInv, StaticPass \/ StaticEnd
  PROVE  SchedInv'
  <1> USE DEF SchedInv
  <1>1. CASE StaticPass
    <2>1. /\ loop.on /\ type = "static" /\ events # <<>> /\ StaticCallback(events)
          /\ handled' = handled \cup {Head(events)} /\ late' = late + Overdue
          /\ UNCHANGED <<default_sched, type, max_time, cancelled, buckets, runs, exact>>
      BY <1>1 DEF StaticPass, control
    <2>2. /\ events' \in Seq(1 .. MaxEvents) /\ posted' \in 0 .. MaxEvents
          /\ handled' \cup cleared' \subseteq 1 .. MaxEvents
          /\ ListsSorted' /\ Accounted'
      BY <2>1, StaticCallbackKeeps
    <2>3. /\ OnOrOff /\ cur_time' \in {cur_time, cur_time + 1}
          /\ loop'.on => ~TimeLimit(cur_time + 1)
      <3>1. CASE Leave("callback") /\ UNCHANGED cur_time
        <4>1. "callback" \in Errors  BY DEF Errors
        <4> QED  BY <3>1, <4>1, Leaves
      <3>2. CASE cur_time' = cur_time + 1 /\ Leave("ESIM_TIME_LIMIT")
        <4>1. "ESIM_TIME_LIMIT" \in Errors  BY DEF Errors
        <4> QED  BY <3>2, <4>1, Leaves
      <3>3. CASE cur_time' = cur_time + 1 /\ ~TimeLimit(cur_time') /\ CountStep
        BY <2>1, <3>3, StepCounted
      <3> QED  BY <1>1, <3>1, <3>2, <3>3 DEF StaticPass
    <2>4. draining = {} /\ draining' = {} /\ buckets = <<>>
      BY <2>1, <2>3 DEF OneList, OnOrOff
    <2>5. cur_time \in Nat /\ cur_time' \in Nat /\ max_time \in Nat
      BY <2>3, SchedulerAssumption DEF SchedTypeOK
    <2>6. late = 0 /\ late' \in {0, 1} /\ (loop'.on => late' = 0)
      BY <2>1, <2>3, <2>5 DEF LimitSeen, Overdue, TimeLimit
    <2>7. SchedTypeOK'
      BY <2>1, <2>2, <2>3, <2>4, <2>5, <2>6 DEF SchedTypeOK, OnOrOff, Loops, Errors, Fifo
    <2>8. OneList' /\ LimitSeen'
      BY <2>1, <2>4, <2>6 DEF OneList, LimitSeen
    <2>9. NothingPast'
      BY <2>1, <2>4 DEF NothingPast
    <2> QED  BY <2>2, <2>7, <2>8, <2>9
  <1>2. CASE StaticEnd
    <2>1. "none" \in Errors  BY DEF Errors
    <2>2. /\ OnOrOff /\ ~loop'.on /\ draining' = {} /\ type = "static" /\ type' = type
          /\ UNCHANGED <<default_sched, max_time, cancelled, events, buckets, cur_time, posted,
                         runs, handled, cleared, exact, late>>
      BY <1>2, <2>1, Leaves DEF StaticEnd, control
    <2>3. SchedTypeOK'
      BY <2>2 DEF SchedTypeOK, OnOrOff, Loops, Errors
    <2>4. ListsSorted' /\ Accounted'  BY <2>2, ListsKept
    <2>5. OneList' /\ LimitSeen'  BY <2>2, Zenon DEF OneList, LimitSeen
    <2>6. NothingPast'  BY <2>2 DEF NothingPast
    <2> QED  BY <2>3, <2>4, <2>5, <2>6
  <1> QED  BY <1>1, <1>2

(* The first bucket is the earliest. *)
LEMMA FirstBucket ==
  ASSUME NEW bs \in Seq(Bucket), SortedByTime(bs), bs # <<>>
  PROVE  1 \in DOMAIN bs /\ \A i \in DOMAIN bs : bs[1].time <= bs[i].time
  <1>1. /\ Len(bs) \in Nat \ {0} /\ DOMAIN bs = 1 .. Len(bs)
        /\ \A i \in DOMAIN bs : bs[i].time \in Nat
    BY BucketType
  <1>2. \A i \in DOMAIN bs : i = 1 \/ bs[1].time < bs[i].time
    BY <1>1 DEF SortedByTime
  <1> QED  BY <1>1, <1>2

(* The bucket that is emptied is the first one. *)
LEMMA DrainsFirst ==
  ASSUME SchedInv, exact, draining # {}, NEW i \in DOMAIN buckets, buckets[i].time \in draining
  PROVE  i = 1 /\ buckets[1].time = cur_time /\ buckets # <<>>
  <1>1. draining = {cur_time} /\ buckets # <<>> /\ buckets[1].time = cur_time
    BY DEF SchedInv, NothingPast
  <1>2. /\ Len(buckets) \in Nat \ {0} /\ DOMAIN buckets = 1 .. Len(buckets)
        /\ \A j \in DOMAIN buckets : buckets[j].time \in Nat
    BY <1>1, ListFacts
  <1>3. i # 1 => buckets[1].time < buckets[i].time
    BY <1>2 DEF SchedInv, ListsSorted, SortedByTime
  <1> QED  BY <1>1, <1>2, <1>3

(* A bucket is opened: it is the earliest, so the time does not go back. *)
LEMMA DynamicOpenKeeps ==
  ASSUME SchedInv, DynamicOpen
  PROVE  SchedInv' /\ cur_time' >= cur_time
  <1> USE DEF SchedInv
  <1>1. /\ loop.on /\ type = "dynamic" /\ draining = {} /\ buckets # <<>>
        /\ cur_time' = Float(buckets[1].time)
        /\ exact' = (exact /\ cur_time' = buckets[1].time)
        /\ UNCHANGED <<default_sched, type, max_time, cancelled, events, buckets, posted, runs,
                       handled, cleared, late>>
    BY Zenon DEF DynamicOpen, control
  <1>2. /\ 1 \in DOMAIN buckets /\ \A i \in DOMAIN buckets : buckets[1].time <= buckets[i].time
        /\ \A i \in DOMAIN buckets : buckets[i].time \in Nat
    BY <1>1, ListFacts, FirstBucket
  <1>3. /\ cur_time' \in Nat /\ Float(cur_time') = cur_time'
        /\ \A i \in DOMAIN buckets : Float(buckets[i].time) >= cur_time'
    BY <1>1, <1>2, FloatMonotone
  <1>4. /\ loop' \in Loops /\ error' \in Errors
        /\ \/ ~loop'.on /\ draining' = {}
           \/ loop'.on /\ draining' = {buckets[1].time} /\ ~TimeLimit(cur_time')
    <2>1. CASE Leave("ESIM_TIME_LIMIT")
      <3>1. "ESIM_TIME_LIMIT" \in Errors  BY DEF Errors
      <3> QED  BY <2>1, <3>1, Leaves DEF OnOrOff
    <2>2. CASE ~TimeLimit(cur_time') /\ draining' = {buckets[1].time} /\ UNCHANGED <<loop, error>>
      BY <1>1, <2>2 DEF SchedTypeOK, Loops, Errors
    <2> QED  BY <2>1, <2>2 DEF DynamicOpen
  <1>5. exact' \in BOOLEAN /\ (exact' => exact) /\ (exact' => cur_time' = buckets[1].time)
    BY <1>1, Zenon
  <1>6. SchedTypeOK'
    <2>1. {cancelled', exact'} \subseteq BOOLEAN  BY <1>1, <1>5, Zenon DEF SchedTypeOK
    <2>2. draining' \subseteq Nat  BY <1>2, <1>4
    <2> QED  BY <1>1, <1>3, <1>4, <2>1, <2>2 DEF SchedTypeOK, Loops, Errors
  <1>7. ListsSorted' /\ Accounted'
    BY <1>1, <1>5, ListsKept, Zenon
  <1>8. OneList' /\ LimitSeen'
    BY <1>1, <1>4, Zenon DEF OneList, LimitSeen, TimeLimit
  <1>9. NothingPast'
    BY <1>1, <1>2, <1>3, <1>4, <1>5, ZenonT(30) DEF NothingPast
  <1>10. cur_time' >= cur_time
    BY <1>1, <1>2 DEF NothingPast
  <1> QED  BY <1>6, <1>7, <1>8, <1>9, <1>10

(* What the pass of the dynamic scheduler takes from bucket i, with the    *)
(* event that is posted by its callback, or without.                       *)
LEMMA DynamicPassKeeps ==
  ASSUME SchedInv, DynamicPass
  PROVE  SchedInv'
  <1>1. /\ loop.on /\ draining # {} /\ late' = late + Overdue /\ CountStep
        /\ UNCHANGED <<default_sched, type, max_time, cancelled, events, cur_time, runs,
                       cleared, exact>>
    BY DEF DynamicPass, control
  <1>2. PICK i \in DOMAIN buckets :
          /\ buckets[i].time \in draining /\ buckets[i].events # <<>>
          /\ handled' = handled \cup {Head(buckets[i].events)}
          /\ \/ buckets' = Drained(i) /\ UNCHANGED posted
             \/ /\ posted < MaxEvents
                /\ \E d \in Delays : buckets' \in BucketPost(Drained(i), cur_time + d, posted + 1)
                /\ posted' = posted + 1
    BY DEF DynamicPass
  <1> DEFINE h == Head(buckets[i].events)
             bs == Drained(i)
  <1>3. /\ bs \in Seq(Bucket) /\ SortedByTime(bs) /\ EachIncreasing(bs)
        /\ DOMAIN bs = DOMAIN buckets /\ \A j \in DOMAIN buckets : bs[j].time = buckets[j].time
    BY <1>2, ListFacts, DrainFacts, Zenon DEF Drained
  <1>4. /\ Distinct(Dated(bs)) /\ InSomeBucket(bs) = InSomeBucket(buckets) \ {h}
        /\ h \in InSomeBucket(buckets)
    BY <1>2, ListFacts, DrainNumbers, Zenon DEF Drained
  <1>5. type = "dynamic" /\ events = <<>>
    BY <1>1 DEF SchedInv, OneList
  <1>6. /\ posted \in Nat /\ posted <= MaxEvents /\ MaxEvents \in Nat /\ cur_time \in Nat
        /\ InSomeBucket(buckets) \subseteq 1 .. posted
        /\ \A j \in DOMAIN buckets : buckets[j].time \in Nat
    BY ListFacts
  <1>7. handled' = handled \cup {h}
    BY <1>2
  <1>8. /\ handled \cup cleared \subseteq 1 .. posted /\ handled \cap cleared = {}
        /\ InSomeBucket(buckets) \cap (handled \cup cleared) = {} /\ Range(events) = {}
        /\ exact => 1 .. posted \subseteq handled \cup cleared \cup InSomeBucket(buckets)
    <2>1. Range(events) = {}  BY <1>5 DEF Range
    <2> QED  BY <2>1 DEF SchedInv, Accounted, Waiting
  <1>0. handled' \subseteq 1 .. posted /\ 1 .. posted \subseteq 1 .. MaxEvents
    <2>1. handled' \subseteq 1 .. posted  BY <1>4, <1>6, <1>7, <1>8, Zenon
    <2>2. 1 .. posted \subseteq 1 .. MaxEvents  BY <1>6
    <2> QED  BY <2>1, <2>2
  <1>9. OnOrOff
    BY <1>1, StepCounted DEF SchedInv
  <1>10. late' = 0
    BY <1>1, <1>5 DEF SchedInv, LimitSeen, Overdue, TimeLimit
  <1> HIDE DEF h, bs
  <1> DEFINE Goal ==
       /\ buckets' \in Seq(Bucket) /\ SortedByTime(buckets') /\ EachIncreasing(buckets')
       /\ Distinct(Dated(buckets')) /\ posted' \in 0 .. MaxEvents /\ handled' \subseteq 1 .. MaxEvents
       /\ Accounted'
       /\ \A j \in DOMAIN buckets' :
            buckets'[j].time >= cur_time \/ \E m \in DOMAIN buckets : buckets'[j].time = buckets[m].time
       /\ buckets # <<>> /\ buckets[1].time = cur_time =>
            buckets' # <<>> /\ buckets'[1].time = cur_time
  <1>11. Goal
    <2>1. CASE buckets' = bs /\ UNCHANGED posted
      <3>1. Accounted'
        BY <1>1, <1>4, <1>6, <1>7, <1>8, <2>1, Zenon DEF Accounted, Waiting
      <3>2. buckets # <<>> => 1 \in DOMAIN buckets
        BY ListFacts, FirstBucket
      <3>3. /\ buckets' \in Seq(Bucket) /\ SortedByTime(buckets') /\ EachIncreasing(buckets')
            /\ Distinct(Dated(buckets'))
            /\ \A j \in DOMAIN buckets' : \E m \in DOMAIN buckets : buckets'[j].time = buckets[m].time
        BY <1>3, <1>4, <2>1, Zenon
      <3>4. posted' \in 0 .. MaxEvents /\ handled' \subseteq 1 .. MaxEvents
        <4>1. posted \in 0 .. MaxEvents  BY <1>6
        <4> QED  BY <1>0, <2>1, <4>1, Zenon
      <3>5. buckets # <<>> => buckets' # <<>> /\ buckets'[1].time = buckets[1].time
        BY <1>3, <2>1, <3>2
      <3> QED  BY <3>1, <3>3, <3>4, <3>5, ZenonT(30)
    <2>2. ASSUME posted < MaxEvents, posted' = posted + 1, NEW d \in Delays,
                 buckets' \in BucketPost(bs, cur_time + d, posted + 1)
          PROVE  Goal
      <3>1. cur_time + d \in Nat /\ cur_time + d >= cur_time /\ cur_time <= cur_time + d
        BY <1>6, SchedulerAssumption
      <3>2. /\ InSomeBucket(bs) \subseteq 1 .. posted
            /\ posted + 1 \in 1 .. MaxEvents /\ \A x \in InSomeBucket(bs) : x < posted + 1
        BY <1>4, <1>6, <2>2
      <3>3. /\ buckets' \in Seq(Bucket) /\ SortedByTime(buckets') /\ EachIncreasing(buckets')
            /\ \A j \in DOMAIN buckets' :
                 buckets'[j].time = cur_time + d \/ \E m \in DOMAIN bs : buckets'[j].time = bs[m].time
            /\ bs # <<>> /\ bs[1].time <= cur_time + d =>
                 buckets' # <<>> /\ buckets'[1].time = bs[1].time
        BY <1>3, <2>2, <3>1, <3>2, PostFacts, ZenonT(30)
      <3>4. /\ Distinct(Dated(buckets'))
            /\ InSomeBucket(buckets') = InSomeBucket(bs) \cup {posted + 1}
        BY <1>3, <1>4, <1>6, <2>2, <3>1, <3>2, PostNumbers, ZenonT(30)
      <3>5. posted + 1 \notin 1 .. posted /\ 1 .. posted' = 1 .. posted \cup {posted + 1}
        BY <1>6, <2>2, NextNumber, Zenon
      <3>6. Accounted'
        BY <1>1, <1>4, <1>6, <1>7, <1>8, <3>4, <3>5 DEF Accounted, Waiting
      <3>7. buckets # <<>> => 1 \in DOMAIN buckets /\ bs # <<>>
        <4>1. buckets # <<>> => 1 \in DOMAIN buckets
          BY ListFacts, FirstBucket
        <4> QED  BY <1>3, <4>1
      <3>8. handled' \subseteq 1 .. MaxEvents /\ posted' \in 0 .. MaxEvents
        <4>1. posted + 1 \in 0 .. MaxEvents  BY <1>6, <2>2
        <4> QED  BY <1>0, <2>2, <4>1, Zenon
      <3>9. \A j \in DOMAIN buckets' :
              buckets'[j].time >= cur_time \/ \E m \in DOMAIN buckets : buckets'[j].time = buckets[m].time
        BY <1>3, <3>1, <3>3, ZenonT(30)
      <3>10. buckets # <<>> /\ buckets[1].time = cur_time =>
               buckets' # <<>> /\ buckets'[1].time = cur_time
        BY <1>3, <3>1, <3>3, <3>7, Zenon
      <3> QED  BY <3>3, <3>4, <3>6, <3>8, <3>9, <3>10, Zenon
    <2> HIDE DEF Goal
    <2> QED  BY <1>2, <2>1, <2>2, Zenon DEF bs
  <1>12. SchedTypeOK'
    <2>1. draining' \subseteq Nat /\ late' \in Nat  BY <1>9, <1>10, Zenon DEF OnOrOff, SchedInv, SchedTypeOK
    <2> QED  BY <1>1, <1>9, <1>11, <2>1, Zenon DEF SchedInv, SchedTypeOK, OnOrOff, Loops, Errors
  <1>13. ListsSorted'
    BY <1>1, <1>11 DEF SchedInv, ListsSorted
  <1>14. OneList' /\ LimitSeen'
    BY <1>1, <1>5, <1>9, <1>10, Zenon DEF SchedInv, OneList, LimitSeen, OnOrOff, TimeLimit
  <1>15. NothingPast'
    <2>1. ASSUME NEW j \in DOMAIN buckets'
          PROVE  Float(buckets'[j].time) >= cur_time /\ (exact => buckets'[j].time >= cur_time)
      <3>1. CASE buckets'[j].time >= cur_time
        <4>1. buckets'[j].time \in Nat  BY <1>11, BucketType
        <4>2. Float(cur_time) <= Float(buckets'[j].time)
          BY <1>6, <3>1, <4>1, FloatMonotone
        <4> QED  BY <1>5, <3>1, <4>2, <4>1, <1>6, FloatMonotone, ZenonT(30) DEF SchedInv, NothingPast
      <3>2. CASE \E m \in DOMAIN buckets : buckets'[j].time = buckets[m].time
        BY <1>5, <3>2 DEF SchedInv, NothingPast
      <3> QED  BY <1>11, <3>1, <3>2, Zenon
    <2>2. draining' # {} /\ exact' => draining' = {cur_time} /\ buckets' # <<>> /\ buckets'[1].time = cur_time
      BY <1>1, <1>9, <1>11, Zenon DEF SchedInv, NothingPast, OnOrOff
    <2> QED  BY <1>1, <1>5, <2>1, <2>2, Zenon DEF SchedInv, NothingPast
  <1> QED  BY <1>11, <1>12, <1>13, <1>14, <1>15 DEF SchedInv

(* The bucket removed is the emptied one, as long as no time was rounded. *)
LEMMA DynamicCloseKeeps ==
  ASSUME SchedInv, DynamicClose
  PROVE  /\ SchedInv'
         /\ exact => Dated(buckets') = Dated(buckets) /\ InSomeBucket(buckets') = InSomeBucket(buckets)
  <1>1. /\ loop.on /\ draining # {} /\ buckets' = Tail(buckets) /\ draining' = {}
        /\ UNCHANGED <<default_sched, type, max_time, cancelled, events, cur_time, loop, error,
                       posted, runs, handled, cleared, exact, late>>
    BY ZenonT(30) DEF DynamicClose, control
  <1>2. PICK i \in DOMAIN buckets : buckets[i].time \in draining /\ buckets[i].events = <<>>
    BY ZenonT(30) DEF DynamicClose
  <1>3. type = "dynamic" /\ events = <<>> /\ Range(events) = {}
    BY <1>1 DEF SchedInv, OneList, Range
  <1>4. buckets # <<>>
    BY <1>2, NotEmpty, Zenon
  <1>5. /\ buckets' \in Seq(Bucket) /\ SortedByTime(buckets') /\ EachIncreasing(buckets')
        /\ buckets[1].events = <<>> => Dated(buckets') = Dated(buckets)
        /\ \A j \in DOMAIN buckets' : j + 1 \in DOMAIN buckets /\ buckets'[j] = buckets[j + 1]
    BY <1>1, <1>4, ListFacts, TailFacts, Zenon
  <1>6. /\ Distinct(Dated(buckets')) /\ InSomeBucket(buckets') \subseteq InSomeBucket(buckets)
        /\ buckets[1].events = <<>> => InSomeBucket(buckets') = InSomeBucket(buckets)
    BY <1>1, <1>4, ListFacts, TailNumbers
  <1>7. exact => buckets[1].events = <<>>
    BY <1>1, <1>2, DrainsFirst
  <1>8. SchedTypeOK'
    BY <1>1, <1>5, Zenon DEF SchedInv, SchedTypeOK
  <1>9. ListsSorted'
    BY <1>1, <1>5, <1>6, Zenon DEF SchedInv, ListsSorted
  <1>10. Accounted'
    BY <1>1, <1>3, <1>6, <1>7, Zenon DEF SchedInv, Accounted, Waiting
  <1>11. OneList' /\ LimitSeen'
    BY <1>1, <1>3, Zenon DEF SchedInv, OneList, LimitSeen
  <1>12. NothingPast'
    BY <1>1, <1>3, <1>5 DEF SchedInv, NothingPast
  <1> QED  BY <1>5, <1>6, <1>7, <1>8, <1>9, <1>10, <1>11, <1>12, ZenonT(30) DEF SchedInv

(* The loop of the dynamic scheduler ends. *)
LEMMA DynamicEndKeeps ==
  ASSUME SchedInv, DynamicEnd
  PROVE  SchedInv'
  <1> USE DEF SchedInv
  <1>1. /\ loop.on /\ type = "dynamic" /\ Leave("none")
        /\ UNCHANGED <<default_sched, type, max_time, cancelled, events, buckets, cur_time, posted,
                       runs, handled, cleared, exact, late>>
    BY DEF DynamicEnd, control
  <1>2. OnOrOff /\ ~loop'.on /\ draining' = {}
    <2>1. "none" \in Errors  BY DEF Errors
    <2> QED  BY <1>1, <2>1, Leaves
  <1>3. SchedTypeOK'
    BY <1>1, <1>2 DEF SchedTypeOK, OnOrOff, Loops, Errors
  <1>4. ListsSorted' /\ Accounted'
    BY <1>1, ListsKept, Zenon
  <1>5. OneList' /\ LimitSeen' /\ NothingPast'
    BY <1>1, <1>2 DEF OneList, LimitSeen, NothingPast
  <1> QED  BY <1>3, <1>4, <1>5

(* Every step of the simulator keeps the invariant. *)
LEMMA InvNext ==
  ASSUME SchedInv, [SchedNext]_schedVars
  PROVE  SchedInv'
  <1>1. CASE SchedNext
    <2>1. CASE \/ \E d \in Delays : PostRelative(d)
               \/ \E t \in EventTimes : CliSimEvent(t)
      BY <2>1, PostsKeep
    <2>2. CASE \/ \E t \in Schedulers : CliSimOptionsScheduler(t)
               \/ \E t \in StopTimes : CliSimStop(t)
               \/ \E n \in StepCounts : CliSimStep(n)
               \/ CliSimRun \/ Interrupt
      BY <2>2, CommandsKeep
    <2>3. CASE CliSimClear
      BY <2>3, ClearKeeps
    <2>4. CASE StaticPass \/ StaticEnd
      BY <2>4, StaticKeeps
    <2>5. CASE DynamicOpen \/ DynamicPass \/ DynamicClose \/ DynamicEnd
      BY <2>5, DynamicOpenKeeps, DynamicPassKeeps, DynamicCloseKeeps, DynamicEndKeeps
    <2> QED  BY <1>1, <2>1, <2>2, <2>3, <2>4, <2>5 DEF SchedNext, Loop
  <1>2. CASE UNCHANGED schedVars
    <2> USE <1>2 DEF schedVars, control, SchedInv
    <2>1. SchedTypeOK'  BY DEF SchedTypeOK
    <2>2. ListsSorted' /\ Accounted'  BY ListsKept, Zenon
    <2>3. OneList' /\ LimitSeen' /\ NothingPast'
      BY DEF OneList, LimitSeen, NothingPast, TimeLimit
    <2> QED  BY <2>1, <2>2, <2>3, Zenon
  <1> QED  BY <1>1, <1>2

(* The invariant holds in every state of the simulator: its lists stay     *)
(* sorted, whatever is posted, handled, cleared or interrupted.            *)
THEOREM Invariance == SchedSpec => []SchedInv
  <1>1. SchedInit => SchedInv
    BY InvInit
  <1>2. SchedInv /\ [SchedNext]_schedVars => SchedInv'
    BY InvNext
  <1> QED  BY <1>1, <1>2, PTL DEF SchedSpec

(* The simulator's variables keep their types.                             *)
THEOREM TypeCorrect == SchedSpec => []SchedTypeOK
  <1>1. SchedInv => SchedTypeOK
    BY DEF SchedInv
  <1> QED  BY <1>1, Invariance, PTL

(* An event that was posted is handled, waiting or cleared, and only one   *)
(* of them, over any number of events, whichever scheduler runs them.      *)
THEOREM NoEventIsLost == SchedSpec => []NoEventLost
  <1>1. SchedInv => NoEventLost
    BY DEF SchedInv, Accounted, NoEventLost
  <1> QED  BY <1>1, Invariance, PTL

(* A call of run() handles no event at or past the limit of sim stop --at  *)
(* with the dynamic scheduler, and at most one with the static scheduler.  *)
THEOREM LimitIsKept == SchedSpec => []LimitHolds
  <1>1. SchedInv => LimitHolds
    BY DEF SchedInv, SchedTypeOK, LimitSeen, LimitHolds
  <1> QED  BY <1>1, Invariance, PTL

(* No step of either scheduler and no command sets the simulated time back,*)
(* though it is rounded to a float each time a bucket is opened.           *)
THEOREM TimeIsMonotone == SchedSpec => TimeNeverBack
  <1>1. ASSUME SchedInv, [SchedNext]_schedVars
        PROVE  [cur_time' >= cur_time]_schedVars
    <2>1. cur_time \in Nat
      BY <1>1, ListFacts
    <2>2. CASE DynamicOpen
      BY <1>1, <2>2, DynamicOpenKeeps
    <2>3. CASE StaticPass
      <3>1. cur_time' = cur_time \/ cur_time' = cur_time + 1
        BY <2>3, Zenon DEF StaticPass
      <3> QED  BY <2>1, <3>1
    <2>4. CASE SchedNext /\ ~DynamicOpen /\ ~StaticPass
      <3>1. cur_time' = cur_time
        BY <2>4, Zenon DEF SchedNext, Loop, PostRelative, CliSimEvent, CliSimOptionsScheduler,
          CliSimStop, CliSimStep, CliSimClear, CliSimRun, Enter, Interrupt, StaticEnd,
          DynamicPass, DynamicClose, DynamicEnd
      <3> QED  BY <2>1, <3>1
    <2> QED  BY <1>1, <2>2, <2>3, <2>4, Zenon
  <1> QED  BY <1>1, Invariance, PTL DEF SchedSpec, TimeNeverBack

(* Once interrupted, a call of the static scheduler handles no event.      *)
THEOREM InterruptIsSeen == SchedSpec => InterruptStops
  <1>1. ASSUME SchedInv, [SchedNext]_schedVars
        PROVE  [loop.on /\ type = "static" /\ cancelled => handled' = handled]_schedVars
    <2>1. draining # {} => type = "dynamic"
      BY <1>1 DEF SchedInv, OneList
    <2> QED  BY <1>1, <2>1, Zenon DEF SchedNext, Loop, PostRelative, CliSimEvent, CliSimOptionsScheduler,
        CliSimStop, CliSimStep, CliSimClear, CliSimRun, Enter, Interrupt, StaticPass, StaticEnd,
        DynamicOpen, DynamicPass, DynamicClose, DynamicEnd
  <1> QED  BY <1>1, Invariance, PTL DEF SchedSpec, InterruptStops

(* A call without a number of steps that returns no error and was not      *)
(* interrupted leaves no event waiting (the loops of both schedulers).     *)
THEOREM RunLeavesNothing == SchedSpec => RunDrains
  <1>1. ASSUME SchedInv, [SchedNext]_schedVars
        PROVE  [loop.on /\ ~loop'.on /\ error' = "none" /\ loop.steps = 0 /\ ~cancelled
                  => Waiting' = {}]_schedVars
    <2> SUFFICES ASSUME SchedNext, loop.on, ~loop'.on, error' = "none", loop.steps = 0, ~cancelled
                 PROVE  Waiting' = {}
      BY <1>1
    <2>1. ~CountStep
      <3>1. loop \in [on : BOOLEAN, steps : Nat, whole : BOOLEAN]
        BY <1>1 DEF SchedInv, SchedTypeOK
      <3> QED  BY <3>1 DEF CountStep, Continue
    <2>2. ~Leave("callback") /\ ~Leave("ESIM_TIME_LIMIT") /\ loop' # loop
      BY DEF Leave
    <2>3. events' = <<>> /\ buckets' = <<>>
      BY <1>1, <2>1, <2>2, Zenon DEF SchedNext, Loop, PostRelative, CliSimEvent, CliSimOptionsScheduler,
        CliSimStop, CliSimStep, CliSimClear, CliSimRun, Enter, Interrupt, StaticPass, StaticEnd,
        DynamicOpen, DynamicPass, DynamicClose, DynamicEnd, SchedInv, OneList
    <2> QED  BY <2>3 DEF Waiting, InSomeBucket, Range
  <1> QED  BY <1>1, Invariance, PTL DEF SchedSpec, RunDrains

-----------------------------------------------------------------------------
(***************************************************************************)
(* The refinement: each step of a scheduler is a step of the event queue.  *)
(***************************************************************************)
Undated(q) == {[id |-> e, due |-> 0] : e \in Range(q)}

(* The pending events of the two lists. *)
LEMMA PendingSplit ==
  /\ Pending = Undated(events) \cup Dated(buckets)
  /\ Pending' = Undated(events') \cup Dated(buckets')
  BY Zenon DEF Pending, Undated, Dated

(* Empty lists hold no pending event. *)
LEMMA NothingDated == Undated(<<>>) = {} /\ Dated(<<>>) = {}
  BY DEF Undated, Dated, Range

(* A post to the static scheduler is a post of the event queue. *)
LEMMA StaticPostRefines ==
  ASSUME SchedInv, posted < MaxEvents, events' = Append(events, posted + 1),
         posted' = posted + 1, UNCHANGED <<buckets, exact>>, Range(events) \subseteq 1 .. posted
  PROVE  Queue!Post
  <1> DEFINE new == [id |-> posted + 1, due |-> 0]
  <1>1. Range(events') = Range(events) \cup {posted + 1}
    BY ListFacts, FifoAppend, Zenon
  <1>2. Undated(events') = Undated(events) \cup {new}
    BY <1>1 DEF Undated
  <1>3. Pending' = Pending \cup {new}
    BY <1>2, PendingSplit
  <1> QED  BY <1>3, Zenon DEF Queue!Post

(* A post to the dynamic scheduler is a post of the event queue. *)
LEMMA DynamicPostRefines ==
  ASSUME SchedInv, posted < MaxEvents, NEW t \in Nat,
         buckets' \in BucketPost(buckets, t, posted + 1),
         posted' = posted + 1, UNCHANGED <<events, exact>>
  PROVE  Queue!Post
  <1> DEFINE new == [id |-> posted + 1, due |-> t]
  <1>1. posted + 1 \in 1 .. MaxEvents /\ \A x \in InSomeBucket(buckets) : x < posted + 1
    <2>1. posted \in Nat /\ MaxEvents \in Nat /\ InSomeBucket(buckets) \subseteq 1 .. posted
      BY ListFacts, Zenon
    <2> QED  BY <2>1, SMTT(30)
  <1>2. Dated(buckets') = Dated(buckets) \cup {new}
    <2>1. buckets \in Seq(Bucket) /\ SortedByTime(buckets) /\ EachIncreasing(buckets)
      BY ListFacts, Zenon
    <2>2. \A e \in 1 .. MaxEvents : (\A x \in InSomeBucket(buckets) : x < e) =>
            \A q \in BucketPost(buckets, t, e) :
              Dated(q) = Dated(buckets) \cup {[id |-> e, due |-> t]}
      BY <2>1, PostDates, ZenonT(30)
    <2> QED  BY <1>1, <2>2, ZenonT(30)
  <1>3. Pending' = Pending \cup {new}
    BY <1>2, PendingSplit
  <1> QED  BY <1>3, Zenon DEF Queue!Post

(* The static scheduler handles the event posted first. *)
LEMMA StaticPassRefines ==
  ASSUME SchedInv, StaticPass
  PROVE  Queue!Handle \/ Queue!Clear
  <1>1. /\ type = "static" /\ events # <<>> /\ StaticCallback(events)
        /\ UNCHANGED <<buckets, exact>>
    BY DEF StaticPass
  <1>2. buckets = <<>>
    BY <1>1 DEF SchedInv, OneList
  <1>3. Pending = Undated(events) /\ Pending' = Undated(events')
    BY <1>1, <1>2, PendingSplit, NothingDated, Zenon
  <1> DEFINE first == [id |-> Head(events), due |-> 0]
  <1>4. /\ Tail(events) \in Seq(1 .. MaxEvents) /\ Increasing(Tail(events))
        /\ Range(Tail(events)) = Range(events) \ {Head(events)}
        /\ Head(events) \in Range(events) /\ \A e \in Range(events) : Head(events) <= e
    BY <1>1, ListFacts, FifoTail, Zenon
  <1>5. first \in Pending /\ Queue!First(first)
    BY <1>3, <1>4 DEF Queue!First, Queue!Before, Undated
  <1>6. Undated(Tail(events)) = Undated(events) \ {first}
    BY <1>4 DEF Undated
  <1>7. CASE events' = Tail(events) /\ UNCHANGED posted
    BY <1>1, <1>3, <1>5, <1>6, <1>7 DEF Queue!Handle
  <1>8. CASE posted < MaxEvents /\ events' = Append(Tail(events), posted + 1) /\ posted' = posted + 1
    <2> DEFINE new == [id |-> posted + 1, due |-> 0]
    <2>1. Range(Tail(events)) \subseteq 1 .. posted
      BY <1>4 DEF SchedInv, Accounted, Waiting
    <2>2. Range(events') = Range(Tail(events)) \cup {posted + 1}
      BY <1>4, <1>8, <2>1, ListFacts, FifoAppend, Zenon
    <2>3. Pending' = (Pending \ {first}) \cup {new}
      BY <1>3, <1>6, <2>2 DEF Undated
    <2>4. new \in Pending' /\ new.id = posted + 1 /\ new.due >= first.due
      BY <2>3
    <2> QED  BY <1>1, <1>5, <1>8, <2>3, <2>4, Zenon DEF Queue!Handle
  <1>9. CASE events' = <<>> /\ UNCHANGED posted
    BY <1>1, <1>3, <1>9, NothingDated, ZenonT(30) DEF Queue!Clear
  <1> QED  BY <1>1, <1>7, <1>8, <1>9 DEF StaticCallback

(* The first event of the first bucket is the first of all. *)
LEMMA FirstIsFirst ==
  ASSUME SchedInv, buckets # <<>>, buckets[1].events # <<>>, events = <<>>
  PROVE  /\ [id |-> Head(buckets[1].events), due |-> buckets[1].time] \in Pending
         /\ Queue!First([id |-> Head(buckets[1].events), due |-> buckets[1].time])
  <1> DEFINE first == [id |-> Head(buckets[1].events), due |-> buckets[1].time]
  <1>1. 1 \in DOMAIN buckets
    BY ListFacts, FirstBucket
  <1>2. Pending = Dated(buckets)
    BY PendingSplit, NothingDated
  <1>3. first \in Dated(buckets)
    BY <1>1, ListFacts, DrainFacts, ZenonT(30)
  <1>4. ASSUME NEW f \in Dated(buckets)
        PROVE  Queue!Before(first, f)
    <2>1. PICK i \in DOMAIN buckets : \E k \in DOMAIN buckets[i].events :
                 f = [id |-> buckets[i].events[k], due |-> buckets[i].time]
      BY <1>4, DatedMember
    <2>2. PICK k \in DOMAIN buckets[i].events :
                 f = [id |-> buckets[i].events[k], due |-> buckets[i].time]
      BY <2>1, Zenon
    <2>3. /\ Len(buckets) \in Nat /\ DOMAIN buckets = 1 .. Len(buckets)
          /\ buckets[1].time \in Nat /\ buckets[i].time \in Nat
          /\ buckets[1].events \in Seq(1 .. MaxEvents)
      BY <1>1, ListFacts, BucketType, Zenon
    <2>4. CASE i = 1
      <3>1. Increasing(buckets[1].events)
        BY <1>1, ListFacts DEF EachIncreasing
      <3>2. /\ \A e \in Range(buckets[1].events) : Head(buckets[1].events) <= e
        BY <2>3, <3>1, FifoTail
      <3>3. buckets[1].events[k] \in Range(buckets[1].events)
        BY <2>2, <2>4, Zenon DEF Range
      <3> QED  BY <2>2, <2>4, <3>2, <3>3, Zenon DEF Queue!Before
    <2>5. CASE i # 1
      <3>1. 1 < i
        BY <2>3, <2>5
      <3>2. buckets[1].time < buckets[i].time
        BY <1>1, <3>1 DEF SchedInv, ListsSorted, SortedByTime
      <3> QED  BY <2>2, <3>2 DEF Queue!Before
    <2> QED  BY <2>4, <2>5, Zenon
  <1> HIDE DEF first
  <1>5. first \in Pending /\ Queue!First(first)
    BY <1>2, <1>3, <1>4 DEF Queue!First
  <1> QED  BY <1>5 DEF first

(* So does the dynamic scheduler with the one due first, and what its      *)
(* callback posts is not due before it.                                    *)
LEMMA DynamicPassRefines ==
  ASSUME SchedInv, exact, DynamicPass
  PROVE  Queue!Handle
  <1>1. draining # {} /\ UNCHANGED <<events, exact>>
    BY Zenon DEF DynamicPass
  <1>2. PICK i \in DOMAIN buckets :
          /\ buckets[i].time \in draining /\ buckets[i].events # <<>>
          /\ \/ buckets' = Drained(i) /\ UNCHANGED posted
             \/ /\ posted < MaxEvents
                /\ \E d \in Delays : buckets' \in BucketPost(Drained(i), cur_time + d, posted + 1)
                /\ posted' = posted + 1
    BY DEF DynamicPass
  <1>3. i = 1 /\ buckets[1].time = cur_time /\ buckets # <<>> /\ events = <<>>
    <2>1. events = <<>>  BY <1>1, Zenon DEF SchedInv, OneList
    <2> QED  BY <1>1, <1>2, <2>1, DrainsFirst
  <1> DEFINE first == [id |-> Head(buckets[1].events), due |-> buckets[1].time]
             bs == Drained(1)
  <1>4. first \in Pending /\ Queue!First(first)
    BY <1>2, <1>3, FirstIsFirst
  <1>5. /\ bs \in Seq(Bucket) /\ SortedByTime(bs) /\ EachIncreasing(bs)
        /\ Dated(bs) = Dated(buckets) \ {first}
    BY <1>2, <1>3, ListFacts, DrainFacts, Zenon DEF Drained
  <1>6. InSomeBucket(bs) \subseteq InSomeBucket(buckets)
    BY <1>2, <1>3, ListFacts, DrainNumbers, Zenon DEF Drained
  <1>7. Pending = Dated(buckets) /\ Pending' = Dated(buckets')
    BY <1>1, <1>3, PendingSplit, NothingDated
  <1>8. first.due = cur_time
    BY <1>3
  <1> HIDE DEF first, bs
  <1>9. CASE buckets' = bs /\ UNCHANGED posted
    BY <1>1, <1>4, <1>5, <1>7, <1>9 DEF Queue!Handle
  <1>10. ASSUME posted < MaxEvents, posted' = posted + 1, NEW d \in Delays,
                buckets' \in BucketPost(bs, cur_time + d, posted + 1)
         PROVE  Queue!Handle
    <2> DEFINE new == [id |-> posted + 1, due |-> cur_time + d]
    <2>1. /\ posted \in Nat /\ MaxEvents \in Nat /\ InSomeBucket(bs) \subseteq 1 .. posted
          /\ cur_time + d \in Nat /\ cur_time + d >= cur_time
      BY <1>6, ListFacts, SchedulerAssumption
    <2>2. posted + 1 \in 1 .. MaxEvents /\ \A x \in InSomeBucket(bs) : x < posted + 1
      BY <1>10, <2>1
    <2>3. Dated(buckets') = Dated(bs) \cup {new}
      <3>1. \A t \in Nat, e \in 1 .. MaxEvents : (\A x \in InSomeBucket(bs) : x < e) =>
              \A q \in BucketPost(bs, t, e) : Dated(q) = Dated(bs) \cup {[id |-> e, due |-> t]}
        BY <1>5, PostDates, Zenon
      <3>2. \A q \in BucketPost(bs, cur_time + d, posted + 1) : Dated(q) = Dated(bs) \cup {new}
        BY <2>1, <2>2, <3>1, Zenon
      <3> QED  BY <1>10, <3>2, Zenon
    <2>4. new.id = posted + 1 /\ new.due >= first.due
      BY <1>8, <2>1
    <2> HIDE DEF new
    <2>5. new \in Pending' /\ Pending' = (Pending \ {first}) \cup {new}
      BY <1>5, <1>7, <2>3
    <2> QED  BY <1>1, <1>4, <1>10, <2>4, <2>5 DEF Queue!Handle
  <1> QED  BY <1>2, <1>3, <1>9, <1>10, Zenon DEF bs

(* A command posts, clears or changes nothing that is pending. *)
LEMMA CommandsRefine ==
  ASSUME SchedInv,
         \/ \E d \in Delays : PostRelative(d)
         \/ \E t \in EventTimes : CliSimEvent(t)
         \/ \E t \in Schedulers : CliSimOptionsScheduler(t)
         \/ \E t \in StopTimes : CliSimStop(t)
         \/ \E n \in StepCounts : CliSimStep(n)
         \/ CliSimClear \/ CliSimRun \/ Interrupt
  PROVE  Queue!AbsNext \/ UNCHANGED <<Pending, posted, exact>>
  <1>1. ASSUME NEW d \in Delays, PostRelative(d) PROVE Queue!Post
    <2>1. cur_time \in Nat  BY ListFacts, Zenon
    <2>2. cur_time + d \in Nat  BY <2>1, SchedulerAssumption
    <2> QED  BY <1>1, <2>2, ListFacts, StaticPostRefines, DynamicPostRefines, Zenon DEF PostRelative
  <1>2. ASSUME NEW t \in EventTimes, CliSimEvent(t)
        PROVE  Queue!Post \/ UNCHANGED <<events, buckets, posted, exact>>
    <2>1. t \in Nat  BY SchedulerAssumption, Zenon
    <2> QED  BY <1>2, <2>1, ListFacts, StaticPostRefines, DynamicPostRefines, Zenon DEF CliSimEvent
  <1>3. CliSimClear => Queue!Clear
    BY PendingSplit, NothingDated DEF CliSimClear, Queue!Clear
  <1>4. ASSUME UNCHANGED <<events, buckets, posted, exact>>
        PROVE  UNCHANGED <<Pending, posted, exact>>
    BY <1>4, PendingSplit
  <1>5. \/ \E t \in Schedulers : CliSimOptionsScheduler(t)
        \/ \E t \in StopTimes : CliSimStop(t)
        \/ \E n \in StepCounts : CliSimStep(n)
        \/ CliSimRun \/ Interrupt
        => UNCHANGED <<events, buckets, posted, exact>>
    BY Zenon DEF CliSimOptionsScheduler, CliSimStop, CliSimStep, CliSimRun, Enter, Interrupt
  <1> QED  BY <1>1, <1>2, <1>3, <1>4, <1>5 DEF Queue!AbsNext

(* Both schedulers implement the abstract event queue: they handle each    *)
(* event at most once, in the order of the times and then of the posts,    *)
(* and drop none but by a clear -- until a simulated time is rounded.      *)
THEOREM SchedulersKeepOrder == SchedSpec => InOrder
  <1>1. SchedInit => Queue!AbsInit
    BY PendingSplit, NothingDated
      DEF SchedInit, StaticCreate, DynamicCreate, Queue!AbsInit
  <1>2. ASSUME SchedInv, [SchedNext]_schedVars
        PROVE  [exact => Queue!AbsNext]_<<Pending, posted, exact>>
    <2> SUFFICES ASSUME exact
                 PROVE  Queue!AbsNext \/ UNCHANGED <<Pending, posted, exact>>
      OBVIOUS
    <2>1. ASSUME UNCHANGED <<events, buckets, posted, exact>>
          PROVE  UNCHANGED <<Pending, posted, exact>>
      BY <2>1, PendingSplit
    <2>2. CASE StaticPass
      BY <1>2, <2>2, StaticPassRefines, Zenon DEF Queue!AbsNext
    <2>3. CASE DynamicPass
      BY <1>2, <2>3, DynamicPassRefines DEF Queue!AbsNext
    <2>4. CASE DynamicOpen
      <3>1. UNCHANGED <<events, buckets, posted>> /\ exact' \in BOOLEAN
        BY <2>4, Zenon DEF DynamicOpen
      <3>2. exact \in BOOLEAN  BY <1>2, Zenon DEF SchedInv, SchedTypeOK
      <3> QED  BY <2>1, <3>1, <3>2, Zenon DEF Queue!AbsNext, Queue!Rounded
    <2>5. CASE DynamicClose
      <3>1. Pending' = Pending /\ UNCHANGED <<posted, exact>>
        BY <1>2, <2>5, DynamicCloseKeeps, PendingSplit, Zenon DEF DynamicClose
      <3> QED  BY <3>1
    <2>6. CASE StaticEnd \/ DynamicEnd
      BY <2>1, <2>6, Zenon DEF StaticEnd, DynamicEnd
    <2>7. CASE UNCHANGED schedVars
      BY <2>1, <2>7 DEF schedVars
    <2> QED  BY <1>2, <2>2, <2>3, <2>4, <2>5, <2>6, <2>7, CommandsRefine, Zenon DEF SchedNext, Loop
  <1> QED  BY <1>1, <1>2, Invariance, PTL DEF SchedSpec, InOrder, Queue!AbsSpec
=============================================================================
