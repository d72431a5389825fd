------------------------------- MODULE IPPrefix -------------------------------
(***************************************************************************)
(* IP addresses and prefixes (net/prefix.c).  An address is a number of W  *)
(* bits (W is 32 in the program); a prefix is a pair <<network, mask       *)
(* length>>, whose network part the program does not always mask.  The     *)
(* tables of the program that are keyed by prefixes are radix tries that   *)
(* read only the first `mask' bits of a key, so a table of the model is    *)
(* keyed by masked prefixes.                                               *)
(***************************************************************************)
EXTENDS Integers

CONSTANT W

ASSUME WAssumption == W \in Nat \ {0}

(* A fact of arithmetic that the provers do not know. *)
ASSUME PowerAssumption == \A l \in 0 .. W : 2^(W - l) \in Nat \ {0}

(* IP_ADDR_ANY *)
ANY == 0

Address == 0 .. 2^W - 1

Prefix == Address \X (0 .. W)

(* Drop the bits that are not covered by a mask of l bits. *)
ip_address_mask(a, l) == (a \div 2^(W - l)) * 2^(W - l)

ip_prefix_mask(p) == <<ip_address_mask(p[1], p[2]), p[2]>>

(* Shorter masks first, then the masked network parts. *)
ip_prefix_cmp(p, q) ==
  IF p[2] # q[2] THEN IF p[2] < q[2] THEN -1 ELSE 1
  ELSE LET a == ip_address_mask(p[1], p[2])
           b == ip_address_mask(q[1], q[2])
       IN IF a > b THEN 1 ELSE IF a < b THEN -1 ELSE 0

ip_address_in_prefix(a, p) ==
  p[2] = 0 \/ a \div 2^(W - p[2]) = p[1] \div 2^(W - p[2])

ip_prefix_in_prefix(p, q) ==
  \/ q[2] = 0
  \/ p[2] >= q[2] /\ p[1] \div 2^(W - q[2]) = q[1] \div 2^(W - q[2])

ip_prefix_ge_prefix(p, q, l) == ip_prefix_in_prefix(p, q) /\ p[2] >= l

ip_prefix_le_prefix(p, q, l) == ip_prefix_in_prefix(p, q) /\ p[2] <= l

(* What the user may name as a destination: a host, a prefix or anything.  *)
(* A prefix typed with the length of a host is still a prefix, one that    *)
(* is converted by ip_prefix_to_dest is an address.                        *)
ip_prefix_to_dest(p) == IF p[2] = W THEN [type |-> "address", prefix |-> p]
                        ELSE [type |-> "prefix", prefix |-> p]

ip_address_to_dest(a) == [type |-> "address", prefix |-> <<a, W>>]

(* The entry of table T, keyed by masked prefixes, with the longest prefix *)
(* that covers address a, as a set of at most one key (trie_find_best).    *)
trie_find_best(T, a) ==
  {p \in DOMAIN T : /\ ip_address_in_prefix(a, p)
                    /\ \A q \in DOMAIN T :
                         ip_address_in_prefix(a, q) => q[2] <= p[2]}
-----------------------------------------------------------------------------
(* The functions of the program call each other through many layers, and   *)
(* most use the result of a call several times.  A LET definition stands   *)
(* for its text wherever it is used; a parameter is bound once.  TLC's     *)
(* statistics follow every use of a LET definition into the layers below,  *)
(* which is out of reach for a program of this depth.                      *)

(* LET r == result IN Use(r), with the result bound once: first the call,  *)
(* then what is done with its result.                                      *)
Let(result, Use(_)) == Use(result)
=============================================================================
