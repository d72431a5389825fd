------------------------------- MODULE ASLevel -------------------------------
(***************************************************************************)
(* Topologies of ASes with their business relationships                    *)
(* (bgp/aslevel/as-level.c, filter.c, stat.c): how one is read from a file *)
(* in one of three formats (rexford.c, caida.c, meulle.c), checked, cut    *)
(* down and shown.                                                         *)
(*                                                                         *)
(* A topology is a record:                                                 *)
(*   domains  ASN -> its neighbors (ASN -> what the neighbor is to it) and *)
(*            its router, {} until the topology is installed               *)
(*   cache    the ASNs of the last domains that were looked up             *)
(*   mapper   the addressing scheme                                        *)
(*   state    LOADED, INSTALLED, POLICIES or RUNNING                       *)
(* A link of the program points to the domain of the neighbor.  A neighbor *)
(* or a cached ASN that is not in domains is a pointer to freed memory,    *)
(* and what reads it is undefined.                                         *)
(*                                                                         *)
(* A file is a sequence of lines, [comment, tokens]; a token is a set,     *)
(* empty if it cannot be parsed.  Lines fit the buffer of 80 characters.   *)
(***************************************************************************)
EXTENDS RouteAttr, Topology

CONSTANT MaxStack         \* MAX_QUEUE_SIZE of the search for cycles

CUSTOMER == 0
PROVIDER == 1
PEER     == 2
SIBLING  == 3
UNKNOWN  == 255

LOADED    == 0
INSTALLED == 1
POLICIES  == 2
RUNNING   == 3

ASLEVEL_TOPO_AS_CACHE_SIZE == 2

Outcome(topo, err) == [topo |-> topo, err |-> err, crash |-> ""]

Stops(topo, crash) == [topo |-> topo, err |-> "ASLEVEL_SUCCESS", crash |-> crash]

_aslevel_check_peer_type(type) == type \in {CUSTOMER, PROVIDER, PEER, SIBLING}

aslevel_reverse_relation(type) ==
  CASE type = CUSTOMER -> PROVIDER
    [] type = PROVIDER -> CUSTOMER
    [] type \in {PEER, SIBLING} -> type
    [] OTHER -> UNKNOWN

aslevel_peer_type2str(type) ==
  CASE type = CUSTOMER -> "customer"
    [] type = PEER -> "peer"
    [] type = PROVIDER -> "provider"
    [] type = SIBLING -> "sibling"
    [] OTHER -> "unknown"

aslevel_topo_str2format(str) ==
  CASE str \in {"default", "rexford"} -> {"rexford"}
    [] str \in {"caida", "meulle"} -> {str}
    [] OTHER -> {}

aslevel_str2addr_sch(str) ==
  CASE str \in {"global", "default"} -> {"global"}
    [] str = "local" -> {"local"}
    [] OTHER -> {}

aslevel_filter_str2filter(str) ==
  {str} \cap {"stubs", "single-homed-stubs", "peer-to-peer", "keep-top"}

str2asn(token) == {asn_t(n) : n \in token \cap (0 .. MAX_AS)}

-----------------------------------------------------------------------------
(* The domains, in the order of their ASNs, and their links. *)

_aslevel_as_create == [neighbors |-> <<>>, router |-> {}]

aslevel_topo_create(scheme) ==
  [domains |-> <<>>, cache |-> <<>>, mapper |-> scheme, state |-> LOADED]

aslevel_topo_num_nodes(topo) == Cardinality(DOMAIN topo.domains)

Neighbors(topo, asn) == DOMAIN topo.domains[asn].neighbors

PeerType(topo, asn, neighbor) == topo.domains[asn].neighbors[neighbor]

(* ASLEVEL_TOPO_FOREACH_DOMAIN, and the links of one domain. *)
Domains(topo) == Sorted(DOMAIN topo.domains)

Links(topo, asn) == Sorted(Neighbors(topo, asn))

OfType(topo, asn, type) == {m \in Neighbors(topo, asn) : PeerType(topo, asn, m) = type}

aslevel_as_num_customers(topo, asn) == Cardinality(OfType(topo, asn, CUSTOMER))

aslevel_as_num_providers(topo, asn) == Cardinality(OfType(topo, asn, PROVIDER))

aslevel_topo_get_top(topo) ==
  {asn \in DOMAIN topo.domains : aslevel_as_num_providers(topo, asn) = 0}

(* The links of the domain that point to freed memory. *)
Dangling(topo, asn) == Neighbors(topo, asn) \ DOMAIN topo.domains

_aslevel_topo_cache_invalidate(topo) == [topo EXCEPT !.cache = <<>>]

_aslevel_topo_cache_update_as(topo, asn) ==
  [topo EXCEPT !.cache =
     Append(IF Len(@) = ASLEVEL_TOPO_AS_CACHE_SIZE THEN Tail(@) ELSE @, asn)]

(* The cache is read from its end, up to the entry that matches. *)
_aslevel_topo_cache_lookup_as(topo, asn) ==
  LET Read == {k \in DOMAIN topo.cache :
                 \A j \in DOMAIN topo.cache : j > k => topo.cache[j] # asn}
  IN [found |-> {asn} \cap Range(topo.cache),
      crash |-> IF \A k \in Read : topo.cache[k] \in DOMAIN topo.domains THEN ""
                ELSE "UNDEFINED"]

(* The domain, if there is one. *)
aslevel_topo_get_as(topo, asn) ==
  LET cached == _aslevel_topo_cache_lookup_as(topo, asn)
  IN IF cached.crash # "" \/ cached.found # {} THEN cached @@ [topo |-> topo]
     ELSE IF asn \in DOMAIN topo.domains
       THEN [found |-> {asn}, crash |-> "", topo |-> _aslevel_topo_cache_update_as(topo, asn)]
     ELSE [found |-> {}, crash |-> "", topo |-> topo]

aslevel_topo_add_as(topo, asn) ==
  _aslevel_topo_cache_update_as(
    [topo EXCEPT !.domains = @ @@ (asn :> _aslevel_as_create)], asn)

aslevel_as_add_link(topo, asn1, asn2, type) ==
  IF ~_aslevel_check_peer_type(type) THEN Outcome(topo, "ASLEVEL_ERROR_INVALID_RELATION")
  ELSE IF asn1 = asn2 THEN Outcome(topo, "ASLEVEL_ERROR_LOOP_LINK")
  ELSE IF asn2 \in Neighbors(topo, asn1) THEN Outcome(topo, "ASLEVEL_ERROR_DUPLICATE_LINK")
  ELSE Outcome([topo EXCEPT !.domains[asn1].neighbors = @ @@ (asn2 :> type)],
               "ASLEVEL_SUCCESS")

(* Mutant: the neighbors keep their links to the domain. *)
RemovedOneSide(topo, asn) ==
  IF asn \notin DOMAIN topo.domains THEN Outcome(topo, "ASLEVEL_ERROR_INVALID_ASNUM")
  ELSE Outcome([_aslevel_topo_cache_invalidate(topo) EXCEPT
                  !.domains = [a \in DOMAIN @ \ {asn} |-> @[a]]], "ASLEVEL_SUCCESS")

(* The links of the neighbors to the domain go with it.  The program       *)
(* aborts at the first neighbor that has none.                             *)
aslevel_topo_remove_as(topo, asn) ==
  LET others == Neighbors(topo, asn)
      lost == {m \in others : asn \notin Neighbors(topo, m)}
      cut == [a \in DOMAIN topo.domains \ {asn} |->
                IF a \notin others THEN topo.domains[a]
                ELSE [topo.domains[a] EXCEPT
                        !.neighbors = [m \in DOMAIN @ \ {asn} |-> @[m]]]]
  IN IF asn \notin DOMAIN topo.domains THEN Outcome(topo, "ASLEVEL_ERROR_INVALID_ASNUM")
     ELSE IF \E a \in {asn} \cup others : a \notin DOMAIN topo.domains \/ Dangling(topo, a) # {}
       THEN Stops(topo, "UNDEFINED")
     ELSE IF lost # {} THEN Stops(topo, "as-level.c:377")
     ELSE Outcome([_aslevel_topo_cache_invalidate(topo) EXCEPT !.domains = cut],
                  "ASLEVEL_SUCCESS")

-----------------------------------------------------------------------------
(* The three formats.  The first line that is wrong ends the load. *)

GetAs(topo, asn) ==
  LET r == aslevel_topo_get_as(topo, asn) IN
     IF r.found # {} THEN r.topo ELSE aslevel_topo_add_as(r.topo, asn)

TwoDomains(topo, tokens) == GetAs(GetAs(topo, The(str2asn(tokens[1]))), The(str2asn(tokens[2])))

OneLink(topo, tokens, type) ==
  aslevel_as_add_link(TwoDomains(topo, tokens), The(str2asn(tokens[1])),
                      The(str2asn(tokens[2])), type)

RexfordRelations == (0 :> PEER) @@ (1 :> CUSTOMER)

_rexford_relation_to_peer_type(relation) ==
  {RexfordRelations[r] : r \in relation \cap DOMAIN RexfordRelations}

CaidaRelations == (-1 :> PROVIDER) @@ (0 :> PEER) @@ (1 :> CUSTOMER) @@ (2 :> SIBLING)

_caida_relation_to_peer_type(relation) ==
  {CaidaRelations[r] : r \in relation \cap DOMAIN CaidaRelations}

MeulleRelations == [PEER |-> PEER, P2C |-> CUSTOMER, C2P |-> PROVIDER]

(* A delay is read and forgotten.  The link is added in both directions. *)
RexfordLine(topo, tokens) ==
  LET type == _rexford_relation_to_peer_type(tokens[3])
      there == OneLink(topo, tokens, The(type)) IN
     IF Len(tokens) < 3 THEN Outcome(topo, "ASLEVEL_ERROR_NUM_PARAMS")
     ELSE IF str2asn(tokens[1]) = {} \/ str2asn(tokens[2]) = {}
       THEN Outcome(topo, "ASLEVEL_ERROR_INVALID_ASNUM")
     ELSE IF type = {} THEN Outcome(topo, "ASLEVEL_ERROR_INVALID_RELATION")
     ELSE IF Len(tokens) > 3 /\ tokens[4] = {}
       THEN Outcome(topo, "ASLEVEL_ERROR_INVALID_DELAY")
     ELSE IF Len(tokens) > 4 THEN Outcome(topo, "ASLEVEL_ERROR_NUM_PARAMS")
     ELSE IF there.err # "ASLEVEL_SUCCESS" THEN there
     ELSE aslevel_as_add_link(there.topo, The(str2asn(tokens[2])), The(str2asn(tokens[1])),
                              aslevel_reverse_relation(The(type)))

(* The other two formats have three fields and give one direction. *)
ThreeFields(topo, tokens, Relation(_)) ==
  IF Len(tokens) # 3 THEN Outcome(topo, "ASLEVEL_ERROR_NUM_PARAMS")
  ELSE IF str2asn(tokens[1]) = {} \/ str2asn(tokens[2]) = {}
    THEN Outcome(topo, "ASLEVEL_ERROR_INVALID_ASNUM")
  ELSE IF Relation(tokens[3]) = {} THEN Outcome(topo, "ASLEVEL_ERROR_INVALID_RELATION")
  ELSE OneLink(topo, tokens, The(Relation(tokens[3])))

CaidaLine(topo, tokens) == ThreeFields(topo, tokens, _caida_relation_to_peer_type)

(* An ASN without "AS" in front of it is not parsed. *)
MeulleLine(topo, tokens) ==
  ThreeFields(topo, tokens,
              LAMBDA rel : {MeulleRelations[r] : r \in rel \cap DOMAIN MeulleRelations})

Parse(topo, lines, Line(_, _)) ==
  FoldLeft(LAMBDA r, line : IF r.err # "ASLEVEL_SUCCESS" \/ line.comment THEN r
                            ELSE Line(r.topo, line.tokens),
           Outcome(topo, "ASLEVEL_SUCCESS"), lines)

rexford_parser(topo, lines) == Parse(topo, lines, RexfordLine)

caida_parser(topo, lines) == Parse(topo, lines, CaidaLine)

meulle_parser(topo, lines) == Parse(topo, lines, MeulleLine)

-----------------------------------------------------------------------------
(* The checks. *)

(* Both directions of a link exist and have matching relationships. *)
aslevel_topo_check_consistency(topo) ==
  IF \A asn \in DOMAIN topo.domains : \A m \in Neighbors(topo, asn) :
       /\ asn \in Neighbors(topo, m)
       /\ PeerType(topo, asn, m) = aslevel_reverse_relation(PeerType(topo, m, asn))
  THEN "ASLEVEL_SUCCESS" ELSE "ASLEVEL_ERROR_INCONSISTENT"

(* The depth-first traversal of the links, whatever their type.  Its stack *)
(* holds all the ASes there may be.                                        *)
RECURSIVE Traverse(_, _, _)
Traverse(topo, stack, visited) ==
  IF stack = <<>> THEN visited
  ELSE LET new == Neighbors(topo, Last(stack)) \ visited
       IN IF new = {} THEN Traverse(topo, Front(stack), visited)
          ELSE Traverse(topo, Append(stack, Min(new)), visited \cup {Min(new)})

aslevel_topo_check_connectedness(topo) ==
  LET first == Min(DOMAIN topo.domains)
  IN IF topo.domains = <<>> \/ DOMAIN topo.domains \subseteq Traverse(topo, <<first>>, {first})
     THEN "ASLEVEL_SUCCESS" ELSE "ASLEVEL_ERROR_DISCONNECTED"

(* The depth-first search along the links to customers.  The stack has the *)
(* domains and the position of their next link.  A domain that is already  *)
(* on the stack closes a cycle; the domains of a cycle are not entered     *)
(* again, even from another top.                                           *)
RECURSIVE Descend(_, _, _)
Descend(topo, stack, found) ==
  LET top == Last(stack)
      links == Links(topo, top.asn)
      m == links[top.index]
      next == [stack EXCEPT ![Len(stack)].index = @ + 1]
      on == {k \in DOMAIN stack : stack[k].asn = m}
      cycle == {stack[k].asn : k \in {j \in DOMAIN stack : \E i \in on : i <= j}} IN
     IF stack = <<>> \/ found.crash # "" THEN found
     ELSE IF top.index > Len(links) THEN Descend(topo, Front(stack), found)
     ELSE IF m \in found.in_cycle \/ PeerType(topo, top.asn, m) # CUSTOMER
       THEN Descend(topo, next, found)
     ELSE IF on # {}
       THEN Descend(topo, next, [found EXCEPT !.in_cycle = @ \cup cycle,
                                              !.num_cycles = @ + 1])
     ELSE IF Len(stack) = MaxStack THEN [found EXCEPT !.crash = "as-level.c:733"]
     ELSE Descend(topo, Append(next, [asn |-> m, index |-> 1]), found)

(* Mutant: only the first of the tops is searched. *)
FirstTopOnly(topo) ==
  LET tops == aslevel_topo_get_top(topo)
      found == Descend(topo, <<[asn |-> Min(tops), index |-> 1]>>,
                       [in_cycle |-> {}, num_cycles |-> 0, crash |-> ""]) IN
     IF topo.domains = <<>> THEN Outcome(topo, "ASLEVEL_SUCCESS")
     ELSE IF tops = {} THEN Outcome(topo, "ASLEVEL_ERROR_CYCLE_DETECTED")
     ELSE IF found.crash # "" THEN Stops(topo, found.crash)
     ELSE Outcome(topo, IF found.num_cycles > 0 THEN "ASLEVEL_ERROR_CYCLE_DETECTED"
                        ELSE "ASLEVEL_SUCCESS")

aslevel_topo_check_cycle(topo) ==
  LET tops == aslevel_topo_get_top(topo)
      found == FoldLeft(LAMBDA f, asn : Descend(topo, <<[asn |-> asn, index |-> 1]>>, f),
                        [in_cycle |-> {}, num_cycles |-> 0, crash |-> ""], Sorted(tops)) IN
     IF topo.domains = <<>> THEN Outcome(topo, "ASLEVEL_SUCCESS")
     ELSE IF tops = {} THEN Outcome(topo, "ASLEVEL_ERROR_CYCLE_DETECTED")
     ELSE IF found.crash # "" THEN Stops(topo, found.crash)
     ELSE Outcome(topo, IF found.num_cycles > 0 THEN "ASLEVEL_ERROR_CYCLE_DETECTED"
                        ELSE "ASLEVEL_SUCCESS")

aslevel_topo_check(topo) ==
  LET connected == aslevel_topo_check_connectedness(topo) IN
     IF \E asn \in DOMAIN topo.domains : Dangling(topo, asn) # {} THEN Stops(topo, "UNDEFINED")
     ELSE IF connected # "ASLEVEL_SUCCESS" THEN Outcome(topo, connected)
     ELSE aslevel_topo_check_cycle(topo)

-----------------------------------------------------------------------------
(* The filters.  The one of the peer-to-peer links goes through the links  *)
(* of a domain that has a provider, and stops at the first neighbor that   *)
(* has none.                                                               *)
PeersToRemove(topo, asn) ==
  IF aslevel_as_num_providers(topo, asn) = 0 THEN {}
  ELSE {m \in OfType(topo, asn, PEER) :
          \A k \in Neighbors(topo, asn) : k <= m => aslevel_as_num_providers(topo, k) > 0}

DomainsToRemove(topo, filter) ==
  {asn \in DOMAIN topo.domains :
     CASE filter = "stubs" -> aslevel_as_num_customers(topo, asn) = 0
       [] filter = "single-homed-stubs" -> /\ aslevel_as_num_customers(topo, asn) = 0
                                           /\ aslevel_as_num_providers(topo, asn) = 1
       [] filter = "peer-to-peer" -> /\ aslevel_as_num_providers(topo, asn) > 0
                                     /\ Neighbors(topo, asn) \subseteq PeersToRemove(topo, asn)
       [] filter = "keep-top" -> aslevel_as_num_providers(topo, asn) > 0}

(* The cache is not told about the domains that go. *)
aslevel_filter_topo(topo, filter) ==
  LET gone == DomainsToRemove(topo, filter)
      Left(asn) == (Neighbors(topo, asn) \ gone)
                   \ IF filter = "peer-to-peer" THEN PeersToRemove(topo, asn) ELSE {} IN
     IF \E asn \in DOMAIN topo.domains : Dangling(topo, asn) # {} THEN Stops(topo, "UNDEFINED")
     ELSE Outcome([topo EXCEPT !.domains =
                     [asn \in DOMAIN @ \ gone |->
                        [@[asn] EXCEPT !.neighbors = [m \in Left(asn) |-> @[m]]]]],
                  "ASLEVEL_SUCCESS")

aslevel_topo_filter_as(topo, asn) ==
  IF topo.state > LOADED THEN Outcome(topo, "ASLEVEL_ERROR_ALREADY_INSTALLED")
  ELSE aslevel_topo_remove_as(topo, asn)

aslevel_topo_filter_group(topo, filter) ==
  IF topo.state > LOADED THEN Outcome(topo, "ASLEVEL_ERROR_ALREADY_INSTALLED")
  ELSE aslevel_filter_topo(topo, filter)

-----------------------------------------------------------------------------
(* What is shown.  A link is counted at both ends. *)

LinkEnds(topo) ==
  UNION {{<<asn, m>> : m \in Neighbors(topo, asn)} : asn \in DOMAIN topo.domains}

aslevel_topo_num_edges(topo) == Cardinality(LinkEnds(topo)) \div 2

aslevel_topo_info(topo) ==
  LET Half(types) == Cardinality({l \in LinkEnds(topo) : PeerType(topo, l[1], l[2]) \in types}) \div 2
  IN [nodes |-> aslevel_topo_num_nodes(topo), edges |-> aslevel_topo_num_edges(topo),
      p2c |-> Half({CUSTOMER, PROVIDER}), p2p |-> Half({PEER}), s2s |-> Half({SIBLING}),
      state |-> topo.state]

(* The links from the end with the lower ASN. *)
LowerEnds(topo) == {l \in LinkEnds(topo) : l[1] < l[2]}

aslevel_topo_dump(topo, verbose) ==
  {<<l[1], l[2], PeerType(topo, l[1], l[2])>>
     \o IF verbose THEN <<aslevel_peer_type2str(PeerType(topo, l[1], l[2]))>> ELSE <<>> :
       l \in LowerEnds(topo)}

Arrow == (CUSTOMER :> "->") @@ (PROVIDER :> "<-") @@ (PEER :> "--") @@ (SIBLING :> "..")

aslevel_topo_dump_graphviz(topo) ==
  [nodes |-> DOMAIN topo.domains,
   edges |-> {<<l[1], Arrow[PeerType(topo, l[1], l[2])], l[2]>> : l \in LowerEnds(topo)}]

(* The part of the domains, out of their number, that have more links than *)
(* index.  The largest number of links is not shown.                       *)
aslevel_stat_degree(topo) ==
  LET degree == [asn \in DOMAIN topo.domains |-> Cardinality(Neighbors(topo, asn))]
  IN [index \in 0 .. Max({0} \cup Range(degree)) - 1 |->
        <<Cardinality({asn \in DOMAIN degree : degree[asn] > index}),
          aslevel_topo_num_nodes(topo)>>]
=============================================================================
