------------------------------ MODULE RouteAttr ------------------------------
(***************************************************************************)
(* The attributes of a BGP route as values (bgp/attr/path_segment.c,       *)
(* path.c, comm.c, ecomm.c, origin.c, bgp/route_reflector.c).              *)
(*                                                                         *)
(* A pointer that may be NULL is a set of at most one value: {} is NULL.   *)
(* A function that fails also returns {}.  An AS-Path is the sequence of   *)
(* its segments, the origin AS first; it is written and read in the        *)
(* reverse order.  The text of a path is the sequence of its pieces,       *)
(* <<opening delimiter, ASNs, closing delimiter>>, and its length is       *)
(* counted in characters as in the program, since its buffers are bounded. *)
(***************************************************************************)
EXTENDS IPPrefix, FiniteSets, SequencesExt

CONSTANTS MaxSegment,     \* MAX_PATH_SEQUENCE_LENGTH
          MaxComms,       \* the 255 of comms_add
          MaxEcomms       \* an unsigned char counts the extended communities

(* The bound that numbers of ASes are tested against is one more than the  *)
(* largest asn_t.                                                          *)
MAX_AS == 65536

asn_t(number) == number % 65536

(* A NULL pointer, and the value behind a pointer to a list. *)
NULL == {}

The(p) == CHOOSE v \in p : TRUE

List(p) == IF p = NULL THEN <<>> ELSE The(p)

(* -1, 0 or 1: the sign of the first difference of two sequences that have *)
(* the same length, 0 if they are equal.                                   *)
Sign(a, b) == IF a < b THEN -1 ELSE IF a > b THEN 1 ELSE 0

FirstDifference(s, t, Cmp(_, _)) ==
  LET D == {i \in DOMAIN s : Cmp(s[i], t[i]) # 0}
  IN IF D = {} THEN 0
     ELSE LET i == CHOOSE i \in D : \A j \in D : i <= j IN Cmp(s[i], t[i])

-----------------------------------------------------------------------------
(* Segments.  path_segment_add: a segment holds MaxSegment ASNs. *)

path_segment_create(type, asns) == [type |-> type, asns |-> asns]

path_segment_add(seg, asn) ==
  IF Len(seg.asns) >= MaxSegment THEN {}
  ELSE {[seg EXCEPT !.asns = Append(@, asn)]}

path_segment_contains(seg, asn) == asn \in ToSet(seg.asns)

(* Two sets of the same length are equal whatever they contain: the        *)
(* membership test compares 0 or 1 with -1.                                *)
path_segment_equals(s, t) ==
  /\ s.type = t.type /\ Len(s.asns) = Len(t.asns)
  /\ s.type = "SEQUENCE" => s.asns = t.asns

(* The type of a segment is not compared. *)
path_segment_cmp(s, t) ==
  IF Len(s.asns) # Len(t.asns) THEN Sign(Len(s.asns), Len(t.asns))
  ELSE FirstDifference(s.asns, t.asns, Sign)

(* The segment without its private ASNs, none if nothing is left. *)
path_segment_remove_private(seg) ==
  LET asns == SelectSeq(seg.asns, LAMBDA a : a < 64512) IN
     IF asns = <<>> /\ seg.asns # <<>> THEN {} ELSE {[seg EXCEPT !.asns = asns]}

Digits(n) == 1 + Cardinality({k \in 1 .. 9 : n >= 10^k})

(* The characters of a piece of text: one space between two ASNs. *)
Chars(piece) ==
  FoldLeft(LAMBDA n, a : n + Digits(a) + 1, -1, piece[2])
    + (IF piece[1] = "" THEN 0 ELSE 1) + (IF piece[3] = "" THEN 0 ELSE 1)

(* A set is written with the closing delimiter at both ends. *)
path_segment_to_string(seg) ==
  LET delim == IF seg.type = "SEQUENCE" THEN "" ELSE "}"
  IN <<delim, Reverse(seg.asns), delim>>

path_segment_dump(seg, reverse) ==
  LET asns == IF reverse THEN Reverse(seg.asns) ELSE seg.asns
  IN IF seg.type = "SEQUENCE" THEN <<"", asns, "">> ELSE <<"{", asns, "}">>

(* The words between two delimiters, read backwards into a set; an ASN     *)
(* that does not fit in the segment is dropped, one that is not an ASN is  *)
(* an error.                                                               *)
path_segment_from_string(words) ==
  IF \E i \in DOMAIN words : words[i] \notin 0 .. MAX_AS THEN {}
  ELSE LET asns == [i \in DOMAIN words |-> asn_t(Reverse(words)[i])]
       IN {path_segment_create("SET",
             IF Len(asns) > MaxSegment THEN SubSeq(asns, 1, MaxSegment)
             ELSE asns)}

-----------------------------------------------------------------------------
(* Paths. *)

path_create == <<>>

path_num_segments(path) == Len(List(path))

(* A set counts for one hop. *)
path_length(path) ==
  FoldLeft(LAMBDA n, s : n + (IF s.type = "SEQUENCE" THEN Len(s.asns) ELSE 1),
           0, List(path))

path_add_segment(segs, seg) == Append(segs, seg)

(* A new last ASN: in the last segment if it is a sequence with room left, *)
(* in a sequence of its own after a set.  {} when that segment is full.    *)
path_append(segs, asn) ==
  IF segs = <<>> \/ Last(segs).type = "SET"
  THEN {path_add_segment(segs, path_segment_create("SEQUENCE", <<asn>>))}
  ELSE {[segs EXCEPT ![Len(segs)] = s] : s \in path_segment_add(Last(segs), asn)}

path_max_value == path_append(path_create, 65535)

path_contains(path, asn) ==
  \E i \in 1 .. path_num_segments(path) :
    path_segment_contains(List(path)[i], asn)

(* The two ends of the path: -1 for a path of no hop; "abort" when the     *)
(* segment is a set (the assertion on its type).                           *)
EndAS(path, seg, asn) ==
  IF path_length(path) <= 0 THEN <<"asn", -1>>
  ELSE IF seg.type # "SEQUENCE" THEN <<"abort", 0>>
  ELSE <<"asn", asn>>

path_last_as(path) ==
  IF path_length(path) <= 0 THEN EndAS(path, <<>>, 0)
  ELSE EndAS(path, Last(List(path)), Last(Last(List(path)).asns))

path_first_as(path) ==
  IF path_length(path) <= 0 THEN EndAS(path, <<>>, 0)
  ELSE EndAS(path, Head(List(path)), Head(Head(List(path)).asns))

(* The text of a path in a buffer of the given size: {} if it does not     *)
(* fit.  The pieces are separated by spaces.                               *)
path_to_string(path, size) ==
  Let([i \in 1 .. path_num_segments(path) |->
         path_segment_to_string(Reverse(List(path))[i])], LAMBDA text :
  Let(FoldLeft(LAMBDA n, x : n + Chars(x) + 1, -1, text), LAMBDA length :
     IF text # <<>> /\ length >= size THEN {} ELSE {text}))

path_dump(path, reverse) ==
  LET segs == IF reverse THEN Reverse(List(path)) ELSE List(path)
  IN [i \in DOMAIN segs |-> path_segment_dump(segs[i], reverse)]

(* The tokens of a text: the words outside the delimiters one by one, the  *)
(* words between two delimiters together and without them.                 *)
path_tokens(text) ==
  FlattenSeq([i \in DOMAIN text |->
    IF text[i][1] = "" THEN [j \in DOMAIN text[i][2] |-> <<text[i][2][j]>>]
    ELSE <<text[i][2]>>])

(* One token, the last of the text first.  A token of one word is an ASN,  *)
(* delimiters or not.  An ASN that finds the segment full is dropped.      *)
path_read_token(path, words) ==
  IF path = NULL THEN NULL
  ELSE IF Len(words) = 1
  THEN IF Head(words) \notin 0 .. MAX_AS THEN NULL
       ELSE LET longer == path_append(List(path), asn_t(Head(words))) IN
               IF longer = {} THEN path ELSE longer
  ELSE {path_add_segment(List(path), s) : s \in path_segment_from_string(words)}

(* Mutant: the text is read from its start. *)
ReadForward(tokens) ==
  FoldLeft(LAMBDA path, words : path_read_token(path, words), {path_create}, tokens)

path_from_string(tokens) ==
  FoldRight(LAMBDA words, path : path_read_token(path, words), tokens,
            {path_create})

(* NULL and empty paths are the same; shorter paths come first. *)
path_cmp(p, q) ==
  IF path_num_segments(p) # path_num_segments(q)
  THEN Sign(path_num_segments(p), path_num_segments(q))
  ELSE FirstDifference(List(p), List(q), path_segment_cmp)

path_equals(p, q) ==
  /\ path_num_segments(p) = path_num_segments(q)
  /\ \A i \in 1 .. path_num_segments(p) :
       path_segment_equals(List(p)[i], List(q)[i])

(* path_at never finds a hop, so that the ASNs are never compared. *)
path_at(path, pos) == -1

path_comparison(p, q) ==
  LET n == IF path_length(p) < path_length(q) THEN path_length(p)
           ELSE path_length(q)
      D == {i \in 0 .. n - 1 : path_at(p, i) # path_at(q, i)} IN
     IF D # {} THEN LET i == CHOOSE i \in D : \A j \in D : i <= j IN
                       Sign(path_at(p, i), path_at(q, i))
     ELSE IF path_equals(p, q) THEN 1 ELSE 0

path_remove_private(segs) ==
  FoldLeft(LAMBDA kept, s :
             LET r == path_segment_remove_private(s) IN
                IF r = {} THEN kept ELSE Append(kept, CHOOSE x \in r : TRUE),
           path_create, segs)

-----------------------------------------------------------------------------
(* Communities.  A value is a pair <<high 16 bits, low 16 bits>>; a word   *)
(* is <<"parts", high, low>>, <<"value", pair>> for a number of 32 bits or *)
(* one of the names, anything else is not a community.                     *)

COMM_NO_EXPORT == <<65535, 65281>>

COMM_NO_ADVERTISE == <<65535, 65282>>

comms_create == <<>>

(* "abort": the assertion that there is room. *)
comms_add(comms, comm) ==
  IF Len(comms) >= MaxComms THEN <<"abort", comms>>
  ELSE <<"ok", Append(comms, comm)>>

(* No community is left as a NULL pointer. *)
comms_remove(comms, comm) ==
  LET kept == SelectSeq(List(comms), LAMBDA c : c # comm) IN
     IF comms = NULL \/ (kept = <<>> /\ List(comms) # <<>>) THEN NULL
     ELSE {kept}

comms_contains(comms, comm) == comm \in ToSet(List(comms))

comms_equals(c, d) == c = d

PairSign(a, b) == IF a[1] # b[1] THEN Sign(a[1], b[1]) ELSE Sign(a[2], b[2])

comms_cmp(c, d) ==
  IF Len(List(c)) # Len(List(d)) THEN Sign(Len(List(c)), Len(List(d)))
  ELSE FirstDifference(List(c), List(d), PairSign)

comm_value_from_string(word) ==
  CASE word[1] = "no-export" -> {COMM_NO_EXPORT}
    [] word[1] = "no-advertise" -> {COMM_NO_ADVERTISE}
    [] word[1] = "value" -> {word[2]}
    [] word[1] = "parts" ->
         IF word[2] > 65535 \/ word[3] > 65535 THEN {}
         ELSE {<<word[2], word[3]>>}
    [] OTHER -> {}

comm_value_dump(comm, text) ==
  CASE text /\ comm = COMM_NO_EXPORT -> <<"no-export">>
    [] text /\ comm = COMM_NO_ADVERTISE -> <<"no-advertise">>
    [] OTHER -> <<"parts", comm[1], comm[2]>>

comm_dump(comms, text) ==
  [i \in DOMAIN comms |-> comm_value_dump(comms[i], text)]

(* The key of the repository: the values as numbers of 32 bits.  Those     *)
(* from 15258 * 2^16 + 51712 on have 10 digits.                            *)
CommDigits(comm) ==
  IF comm[1] > 15258 \/ (comm[1] = 15258 /\ comm[2] >= 51712) THEN 10
  ELSE Digits(comm[1] * 65536 + comm[2])

comm_to_string(comms, size) ==
  LET length == FoldLeft(LAMBDA n, c : n + CommDigits(c) + 1, -1, List(comms)) IN
     IF List(comms) # <<>> /\ length >= size THEN {} ELSE {List(comms)}

comm_from_string(words) ==
  LET values == [i \in DOMAIN words |-> comm_value_from_string(words[i])]
  IN IF \E i \in DOMAIN words : values[i] = {} THEN NULL
     ELSE {[i \in DOMAIN words |-> CHOOSE v \in values[i] : TRUE]}

-----------------------------------------------------------------------------
(* Extended communities: only the redistribution communities that target   *)
(* an AS can be created.  An action parameter has three bits.              *)

ecomm_val_create(transitive, action, param, asn) ==
  [transitive |-> transitive, action |-> action, param |-> param, asn |-> asn]

ecomm_red_create_as(action, param, asn) ==
  ecomm_val_create(FALSE, action, param % 8, asn % 65536)

(* The counter is an unsigned char and nothing checks it: one more than    *)
(* its last value is written outside the array.                            *)
ecomms_add(ecomms, e) ==
  IF Len(ecomms) >= MaxEcomms THEN <<"undefined", ecomms>>
  ELSE <<"ok", Append(ecomms, e)>>

ecomms_strip_non_transitive(ecomms) ==
  LET kept == SelectSeq(List(ecomms), LAMBDA e : e.transitive) IN
     IF ecomms = NULL \/ (kept = <<>> /\ List(ecomms) # <<>>) THEN NULL
     ELSE {kept}

ecomm_red_match(e, peer_asn) == e.asn = peer_asn

ecomm_equals(c, d) == c = d

-----------------------------------------------------------------------------
(* ORIGIN, ORIGINATOR-ID and CLUSTER-ID-LIST. *)

ORIGIN_NAMES == <<"IGP", "EGP", "INCOMPLETE">>

bgp_origin_from_str(str) == {o \in 0 .. 2 : ORIGIN_NAMES[o + 1] = str}

bgp_origin_to_str(origin) == ORIGIN_NAMES[origin + 1]

cluster_list_append(cl, id) == Append(cl, id)

cluster_list_equals(c, d) == c = d

cluster_list_contains(cl, id) == id \in ToSet(cl)

originator_equals(a, b) == a = b
=============================================================================
